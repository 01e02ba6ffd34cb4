---------------------------- MODULE VaultProofs ----------------------------
(***************************************************************************)
(* What holds of a vault of any size, with any number of requests.         *)
(***************************************************************************)
EXTENDS Vault, FiniteSetTheorems, TLAPS

RenewSteps ==
    {"put_connection", "put_secret", "check_stored", "refresh", "recheck", "record_failure"}
MarkSteps == {"put_pending", "delete_secret", "remove_connection"}

StoreState == [at: RenewSteps, key: Key, conn: ConnectionRow, secret: Secret]
MarkState == [at: MarkSteps, key: Key, conn: ConnectionRow, secret: {None}]
FlowState == [at: {"find_profile", "exchange"}, key: Key, state: State]
LoadState == [at: {"load_secret"}, key: Key, conn: ConnectionRow, port: Port]

\* What a request knows follows from where it is.
LEMMA TaskShapes ==
    ASSUME NEW r \in TaskState
    PROVE  /\ r.at = "delete_secrets" => r.profile \in Profile
           /\ r.at \in {"find_profile", "exchange"} => r \in FlowState
           /\ r.at = "load_secret" => r \in LoadState
           /\ r.at \in MarkSteps => r \in MarkState
           /\ r.at \in RenewSteps => r \in StoreState
           /\ r.at = "answer" => r.port \in Port /\ r.carries \in Kind
BY DEF TaskState, FlowState, LoadState, MarkState, StoreState, MarkSteps, RenewSteps

LEMMA StatesAreTasks ==
    /\ Idle \in TaskState
    /\ StoreState \subseteq TaskState
    /\ MarkState \subseteq TaskState
    /\ FlowState \subseteq TaskState
    /\ LoadState \subseteq TaskState
    /\ \A p \in Profile : [at |-> "delete_secrets", profile |-> p] \in TaskState
    /\ \A p \in Port, k \in Kind : [at |-> "answer", port |-> p, carries |-> k] \in TaskState
BY DEF TaskState, FlowState, LoadState, MarkState, StoreState, MarkSteps, RenewSteps, Idle

\* The rows that the operations make are rows.
LEMMA RowsTyped ==
    ASSUME now \in Nat
    PROVE  /\ Pending \in ConnectionRow
           /\ ActiveConnection \in ConnectionRow
           /\ \A kind \in Kind : DirectConnection(kind) \in ConnectionRow
           /\ \A conn \in ConnectionRow : WithError(conn) \in ConnectionRow
<1>1. now + AccessTtl \in Nat
  BY BoundAssumption
<1>2. Pending \in ConnectionRow /\ ActiveConnection \in ConnectionRow
  BY <1>1 DEF Pending, ActiveConnection, ConnectionRow, Kind
<1>3. ASSUME NEW kind \in Kind
      PROVE  DirectConnection(kind) \in ConnectionRow
  BY DEF DirectConnection, ConnectionRow
<1>4. ASSUME NEW conn \in ConnectionRow
      PROVE  WithError(conn) \in ConnectionRow
  BY DEF WithError, ConnectionRow
<1> QED  BY <1>2, <1>3, <1>4

-----------------------------------------------------------------------------
(* The locks *)

InQueue(t, q) == \E i \in 1 .. Len(q) : q[i] = t

OnceEach(q) == \A i, j \in 1 .. Len(q) : q[i] = q[j] => i = j

\* What taking the first off a queue leaves.
LEMMA QueueTail ==
    ASSUME NEW q \in Seq(Task), q # <<>>
    PROVE  /\ Tail(q) \in Seq(Task)
           /\ \A u : InQueue(u, Tail(q)) => InQueue(u, q)
           /\ \A u : InQueue(u, q) /\ u # q[1] => InQueue(u, Tail(q))
           /\ OnceEach(q) => OnceEach(Tail(q)) /\ ~ InQueue(q[1], Tail(q))
<1>1. /\ Tail(q) \in Seq(Task) /\ Len(q) \in Nat /\ Len(q) > 0 /\ Len(Tail(q)) = Len(q) - 1
      /\ \A i \in 1 .. Len(Tail(q)) : Tail(q)[i] = q[i + 1]
  OBVIOUS
<1>2. ASSUME NEW u, InQueue(u, Tail(q))
      PROVE  InQueue(u, q)
  <2>1. PICK i \in 1 .. Len(Tail(q)) : Tail(q)[i] = u
    BY <1>2 DEF InQueue
  <2>2. i + 1 \in 1 .. Len(q) /\ q[i + 1] = u
    BY <1>1, <2>1
  <2> QED  BY <2>2 DEF InQueue
<1>3. ASSUME OnceEach(q)
      PROVE  OnceEach(Tail(q))
  <2> SUFFICES ASSUME NEW i \in 1 .. Len(Tail(q)), NEW j \in 1 .. Len(Tail(q)), Tail(q)[i] = Tail(q)[j]
               PROVE  i = j
    BY DEF OnceEach
  <2>1. i + 1 \in 1 .. Len(q) /\ j + 1 \in 1 .. Len(q) /\ q[i + 1] = q[j + 1]
    BY <1>1
  <2>2. i + 1 = j + 1
    BY <1>3, <2>1 DEF OnceEach
  <2> QED  BY <2>2
<1>4. ASSUME OnceEach(q), InQueue(q[1], Tail(q))
      PROVE  FALSE
  <2>1. PICK i \in 1 .. Len(Tail(q)) : Tail(q)[i] = q[1]
    BY <1>4 DEF InQueue
  <2>2. i + 1 \in 1 .. Len(q) /\ q[i + 1] = q[1] /\ 1 \in 1 .. Len(q)
    BY <1>1, <2>1
  <2> QED  BY <1>4, <2>1, <2>2 DEF OnceEach
<1>5. ASSUME NEW u, InQueue(u, q), u # q[1]
      PROVE  InQueue(u, Tail(q))
  <2>1. PICK i \in 1 .. Len(q) : q[i] = u
    BY <1>5 DEF InQueue
  <2>2. i - 1 \in 1 .. Len(Tail(q)) /\ Tail(q)[i - 1] = u
    BY <1>1, <1>5, <2>1
  <2> QED  BY <2>2 DEF InQueue
<1> QED  BY <1>1, <1>2, <1>3, <1>4, <1>5

\* What putting a newcomer at the end of a queue makes of it.
LEMMA QueueAppend ==
    ASSUME NEW q \in Seq(Task), NEW t \in Task
    PROVE  /\ Append(q, t) \in Seq(Task)
           /\ \A u : InQueue(u, Append(q, t)) <=> InQueue(u, q) \/ u = t
           /\ ~ InQueue(t, q) /\ OnceEach(q) => OnceEach(Append(q, t))
           /\ q # <<>> => Append(q, t) # <<>> /\ Append(q, t)[1] = q[1]
<1>1. /\ Append(q, t) \in Seq(Task) /\ Len(q) \in Nat /\ Len(Append(q, t)) = Len(q) + 1
      /\ \A i \in 1 .. Len(q) : Append(q, t)[i] = q[i]
      /\ Append(q, t)[Len(q) + 1] = t
  OBVIOUS
<1>2. \A u : InQueue(u, Append(q, t)) <=> InQueue(u, q) \/ u = t
  BY <1>1 DEF InQueue
<1>3. ASSUME ~ InQueue(t, q), OnceEach(q)
      PROVE  OnceEach(Append(q, t))
  BY <1>1, <1>3 DEF InQueue, OnceEach
<1>4. q # <<>> => Append(q, t) # <<>> /\ Append(q, t)[1] = q[1]
  BY <1>1
<1> QED  BY <1>1, <1>2, <1>3, <1>4

\* A queue that a request leaves stays a queue.
LEMMA ReleasedTyped ==
    ASSUME renewing \in [Key -> Seq(Task)], NEW t
    PROVE  Released(t) \in [Key -> Seq(Task)]
<1>1. ASSUME NEW key \in Key
      PROVE  (IF Holds(t, key) THEN Tail(renewing[key]) ELSE renewing[key]) \in Seq(Task)
  BY QueueTail DEF Holds
<1> QED  BY <1>1 DEF Released

-----------------------------------------------------------------------------
(* What a step does to the requests *)

\* Only a request that has a refresh token presents one.
RefreshHasToken ==
    \A t \in Task : task[t].at = "refresh" => task[t].secret.refresh # None

\* One request moves, to a state that is one.
Moves(t) ==
    \E r \in TaskState :
        /\ task' = [task EXCEPT ![t] = r]
        /\ r.at = "refresh" => r.secret.refresh # None

LEMMA MovesTyped ==
    ASSUME task \in [Task -> TaskState], RefreshHasToken, NEW t \in Task, Moves(t)
    PROVE  task' \in [Task -> TaskState] /\ RefreshHasToken'
BY DEF Moves, RefreshHasToken

LEMMA StartMoves ==
    ASSUME TypeOK, NEW t \in Task, StartRequest(t)
    PROVE  Moves(t)
<1> USE DEF TypeOK
<1>1. ASSUME NEW p \in Profile, DeleteProfile(t, p)
      PROVE  Moves(t)
  BY <1>1, StatesAreTasks DEF DeleteProfile, Start, Moves
<1>2. ASSUME NEW key \in Key, NEW kind \in Kind, PutDirect(t, key, kind)
      PROVE  Moves(t)
  <2> DEFINE secret == [kind |-> kind, access |-> None, refresh |-> None, grant |-> tokens']
             r      == Step("put_connection", key, DirectConnection(kind), secret)
  <2>1. task' = [task EXCEPT ![t] = r] /\ tokens' \in Nat
    BY <1>2 DEF PutDirect, Start
  <2>2. secret \in Secret
    BY <2>1 DEF Secret
  <2>3. r \in TaskState /\ r.at # "refresh"
    BY <2>2, RowsTyped, StatesAreTasks DEF Step, StoreState, RenewSteps
  <2> QED  BY <2>1, <2>3 DEF Moves
<1>3. ASSUME NEW key \in Key, NEW port \in Port, Resolve(t, key, port)
      PROVE  Moves(t)
  <2> DEFINE r == [at |-> "load_secret", key |-> key, conn |-> connections[key], port |-> port]
  <2>1. r \in TaskState /\ r.at # "refresh"
    BY <1>3, StatesAreTasks DEF Resolve, LoadState
  <2> QED  BY <1>3, <2>1 DEF Resolve, Start, Moves
<1>4. ASSUME NEW key \in Key, Revoke(t, key)
      PROVE  Moves(t)
  <2> DEFINE r == Step("delete_secret", key, connections[key], None)
  <2>1. r \in TaskState /\ r.at # "refresh"
    BY <1>4, StatesAreTasks DEF Revoke, Step, MarkState, MarkSteps
  <2> QED  BY <1>4, <2>1 DEF Revoke, Start, Moves
<1>5. ASSUME NEW key \in Key, NEW st \in State, BeginAuthorization(t, key, st)
      PROVE  Moves(t)
  <2> DEFINE r == Step("put_pending", key, Pending, None)
  <2>1. r \in TaskState /\ r.at # "refresh"
    BY RowsTyped, StatesAreTasks DEF Step, MarkState, MarkSteps
  <2>2. Idle \in TaskState /\ Idle.at # "refresh"
    BY StatesAreTasks DEF Idle
  <2> QED  BY <1>5, <2>1, <2>2 DEF BeginAuthorization, Start, Moves
<1>6. ASSUME NEW st \in State, Redeem(t, st)
      PROVE  Moves(t)
  <2> DEFINE r == [at |-> "find_profile", key |-> flows[st].key, state |-> st]
  <2>1. r \in TaskState /\ r.at # "refresh"
    BY <1>6, StatesAreTasks DEF Redeem, FlowState
  <2>2. Idle \in TaskState /\ Idle.at # "refresh"
    BY StatesAreTasks DEF Idle
  <2> QED  BY <1>6, <2>1, <2>2 DEF Redeem, Start, Moves
<1> QED  BY <1>1, <1>2, <1>3, <1>4, <1>5, <1>6 DEF StartRequest

LEMMA HandOverMoves ==
    ASSUME TypeOK, NEW t \in Task, NEW port \in Port, NEW conn, NEW secret \in Secret,
           HandOver(t, port, conn, secret)
    PROVE  Moves(t)
<1>1. [at |-> "answer", port |-> port, carries |-> secret.kind] \in TaskState
  BY StatesAreTasks DEF Secret
<1> QED  BY <1>1, StatesAreTasks DEF HandOver, Moves, Idle

LEMMA ContinueMoves ==
    ASSUME TypeOK, NEW t \in Task, ContinueRequest(t) \/ Fail(t)
    PROVE  Moves(t)
<1> USE DEF TypeOK
<1> DEFINE r == task[t]
<1>0. r \in TaskState
  OBVIOUS
<1>1. ASSUME Finish(t)
      PROVE  Moves(t)
  BY <1>1, StatesAreTasks DEF Finish, Moves, Idle
<1>2. ASSUME NEW n \in TaskState, Continue(t, n), n.at # "refresh"
      PROVE  Moves(t)
  BY <1>2 DEF Continue, Moves
<1>3. CASE Fail(t) \/ DeleteSecrets(t) \/ PutPending(t) \/ Answer(t) \/ RecordFailure(t)
           \/ RemoveConnection(t)
  BY <1>1, <1>3 DEF Fail, DeleteSecrets, PutPending, Answer, RecordFailure, RemoveConnection
<1>4. CASE PutConnection(t)
  <2>1. r \in StoreState
    BY <1>4, TaskShapes DEF PutConnection, RenewSteps
  <2>2. [r EXCEPT !.at = "put_secret"] \in TaskState /\ [r EXCEPT !.at = "put_secret"].at # "refresh"
    BY <2>1, StatesAreTasks DEF StoreState, RenewSteps
  <2> QED  BY <1>1, <1>2, <1>4, <2>2 DEF PutConnection
<1>5. CASE PutSecret(t)
  <2>1. r \in StoreState
    BY <1>5, TaskShapes DEF PutSecret, RenewSteps
  <2>2. r.secret \in Secret /\ "http" \in Port
    BY <2>1 DEF StoreState, Port
  <2> QED  BY <1>1, <1>5, <2>2, HandOverMoves DEF PutSecret
<1>6. CASE FindProfile(t)
  <2>1. r \in FlowState
    BY <1>6, TaskShapes DEF FindProfile
  <2>2. [r EXCEPT !.at = "exchange"] \in TaskState /\ [r EXCEPT !.at = "exchange"].at # "refresh"
    BY <2>1, StatesAreTasks DEF FlowState
  <2> QED  BY <1>2, <1>6, <2>2, StatesAreTasks DEF FindProfile, Idle
<1>7. CASE ExchangeCode(t)
  <2>1. r \in FlowState
    BY <1>7, TaskShapes DEF ExchangeCode
  <2>2. ASSUME NEW f, f \in {tokens', None}, tokens' = tokens + 1,
               Continue(t, Step("put_connection", r.key, ActiveConnection,
                                [kind |-> "oauth2", access |-> tokens', refresh |-> f,
                                 grant |-> tokens']))
        PROVE  Moves(t)
    <3> DEFINE secret == [kind |-> "oauth2", access |-> tokens', refresh |-> f, grant |-> tokens']
               n      == Step("put_connection", r.key, ActiveConnection, secret)
    <3>1. secret \in Secret
      BY <2>2 DEF Secret, Kind
    <3>2. n \in TaskState /\ n.at # "refresh"
      BY <2>1, <3>1, RowsTyped, StatesAreTasks DEF Step, StoreState, RenewSteps, FlowState
    <3> QED  BY <1>2, <2>2, <3>2
  <2> QED  BY <1>1, <1>7, <2>2 DEF ExchangeCode
<1>8. CASE LoadSecret(t)
  <2>1. r \in LoadState
    BY <1>8, TaskShapes DEF LoadSecret
  <2>2. CASE r.key \notin DOMAIN secrets
    BY <1>1, <1>8, <2>2 DEF LoadSecret
  <2>3. CASE r.key \in DOMAIN secrets
    <3> DEFINE n == Step("check_stored", r.key, r.conn, secrets[r.key])
    <3>1. secrets[r.key] \in Secret /\ r.port \in Port
      BY <2>1, <2>3 DEF LoadState
    <3>2. n \in TaskState /\ n.at # "refresh"
      BY <2>1, <3>1, StatesAreTasks DEF Step, StoreState, RenewSteps, LoadState
    <3>3. \/ task' = [task EXCEPT ![t] = n]
          \/ HandOver(t, r.port, r.conn, secrets[r.key])
      BY <1>8, <2>3 DEF LoadSecret
    <3> QED  BY <3>1, <3>2, <3>3, HandOverMoves DEF Moves
  <2> QED  BY <2>2, <2>3
<1>9. CASE CheckStored(t)
  <2>1. r \in StoreState
    BY <1>9, TaskShapes DEF CheckStored, RenewSteps
  <2>2. CASE StoredByAnother(r)
    <3>1. secrets[r.key] \in Secret /\ "http" \in Port
      BY <2>2 DEF StoredByAnother, Port
    <3> QED  BY <1>9, <2>2, <3>1, HandOverMoves DEF CheckStored
  <2>3. CASE ~ StoredByAnother(r)
    <3> DEFINE n == [r EXCEPT !.at = IF r.secret.refresh = None THEN "record_failure" ELSE "refresh"]
    <3>1. n \in StoreState /\ (n.at = "refresh" => n.secret.refresh # None)
      BY <2>1 DEF StoreState, RenewSteps
    <3>2. task' = [task EXCEPT ![t] = n]
      BY <1>9, <2>3 DEF CheckStored, Continue
    <3> HIDE DEF n
    <3> QED  BY <3>1, <3>2, StatesAreTasks DEF Moves
  <2> QED  BY <2>2, <2>3
<1>10. CASE Refresh(t)
  <2>1. r \in StoreState
    BY <1>10, TaskShapes DEF Refresh, RenewSteps
  <2>2. \A f \in Nat \cup {None} : Renewed(r.secret, f) \in Secret
    BY <2>1 DEF Renewed, Secret, StoreState, Kind
  <2>3. ASSUME NEW f \in Nat \cup {None}
        PROVE  /\ [r EXCEPT !.at = "recheck", !.secret = Renewed(@, f)] \in TaskState
               /\ [r EXCEPT !.at = "recheck", !.secret = Renewed(@, f)].at # "refresh"
    BY <2>1, <2>2, StatesAreTasks DEF StoreState, RenewSteps
  <2>4. /\ [r EXCEPT !.at = "record_failure"] \in TaskState
        /\ [r EXCEPT !.at = "record_failure"].at # "refresh"
    BY <2>1, StatesAreTasks DEF StoreState, RenewSteps
  <2>5. r.secret.refresh \in Nat \cup {None} /\ tokens + 1 \in Nat
    BY <2>1 DEF StoreState, Secret
  <2> QED  BY <1>2, <1>10, <2>3, <2>4, <2>5 DEF Refresh
<1>11. CASE Recheck(t)
  <2>1. r \in StoreState
    BY <1>11, TaskShapes DEF Recheck, RenewSteps
  <2>2. /\ [r EXCEPT !.at = "put_connection", !.conn = ActiveConnection] \in TaskState
        /\ [r EXCEPT !.at = "put_connection", !.conn = ActiveConnection].at # "refresh"
    BY <2>1, RowsTyped, StatesAreTasks DEF StoreState, RenewSteps
  <2> QED  BY <1>1, <1>2, <1>11, <2>2 DEF Recheck
<1>12. CASE DeleteSecret(t)
  <2>1. r \in MarkState
    BY <1>12, TaskShapes DEF DeleteSecret, MarkSteps
  <2>2. /\ [r EXCEPT !.at = "remove_connection"] \in TaskState
        /\ [r EXCEPT !.at = "remove_connection"].at # "refresh"
    BY <2>1, StatesAreTasks DEF MarkState, MarkSteps
  <2> QED  BY <1>2, <1>12, <2>2 DEF DeleteSecret
<1> QED  BY <1>3, <1>4, <1>5, <1>6, <1>7, <1>8, <1>9, <1>10, <1>11, <1>12 DEF ContinueRequest

-----------------------------------------------------------------------------
(* What a step does to the tables *)

\* A connection is written within the cap, or removed, or goes with its profile.
LEMMA ConnectionWrites ==
    ASSUME TypeOK, [Next]_vars
    PROVE  \/ UNCHANGED <<profiles, connections>>
           \/ \E key \in Key, conn \in ConnectionRow :
                 /\ CanPut(key)
                 /\ connections' = Put(connections, key, conn)
                 /\ profiles' = profiles
           \/ \E K : connections' = Without(connections, K) /\ profiles' = profiles
           \/ \E t \in Task, p \in Profile : DeleteProfile(t, p)
           \/ \E p \in Profile : CreateProfile(p)
<1> USE DEF TypeOK, tables
<1>1. CASE UNCHANGED vars
  BY <1>1 DEF vars
<1>2. CASE PurgeFlows \/ Tick \/ Restart
  BY <1>2 DEF PurgeFlows, Tick, Restart
<1>3. ASSUME NEW t \in Task, StartRequest(t), \A p \in Profile : ~ DeleteProfile(t, p)
      PROVE  UNCHANGED <<profiles, connections>>
  BY <1>3 DEF StartRequest, PutDirect, Resolve, Revoke, BeginAuthorization, Redeem
<1>4. ASSUME NEW t \in Task,
             \/ DeleteSecrets(t) \/ PutSecret(t) \/ FindProfile(t) \/ ExchangeCode(t)
             \/ LoadSecret(t) \/ Answer(t) \/ CheckStored(t) \/ Refresh(t) \/ Recheck(t)
             \/ DeleteSecret(t) \/ Fail(t)
      PROVE  UNCHANGED <<profiles, connections>>
  BY <1>4 DEF DeleteSecrets, PutSecret, FindProfile, ExchangeCode, LoadSecret, Answer,
              CheckStored, Refresh, Recheck, DeleteSecret, Fail
<1>5. ASSUME NEW t \in Task, PutConnection(t) \/ PutPending(t) \/ RecordFailure(t)
      PROVE  \/ UNCHANGED <<profiles, connections>>
             \/ \E key \in Key, conn \in ConnectionRow :
                   /\ CanPut(key)
                   /\ connections' = Put(connections, key, conn)
                   /\ profiles' = profiles
  <2>1. task[t].key \in Key /\ task[t].conn \in ConnectionRow
    BY <1>5, TaskShapes DEF PutConnection, PutPending, RecordFailure, RenewSteps, MarkSteps,
                            StoreState, MarkState
  <2>2. WithError(task[t].conn) \in ConnectionRow
    BY <2>1, RowsTyped
  <2> QED  BY <1>5, <2>1, <2>2 DEF PutConnection, PutPending, RecordFailure
<1>6. ASSUME NEW t \in Task, RemoveConnection(t)
      PROVE  \E K : connections' = Without(connections, K) /\ profiles' = profiles
  BY <1>6 DEF RemoveConnection
<1> QED  BY <1>1, <1>2, <1>3, <1>4, <1>5, <1>6 DEF Next, ContinueRequest

\* A secret is stored by the request that carries it, or removed.
LEMMA SecretWrites ==
    ASSUME TypeOK, [Next]_vars
    PROVE  \/ secrets' = secrets
           \/ \E t \in Task : /\ task[t] \in StoreState /\ task[t].at = "put_secret"
                              /\ secrets' = Put(secrets, task[t].key, task[t].secret)
           \/ \E K : secrets' = Without(secrets, K)
<1> USE DEF TypeOK, tables
<1>1. CASE UNCHANGED vars
  BY <1>1 DEF vars
<1>2. CASE PurgeFlows \/ Tick \/ Restart \/ \E p \in Profile : CreateProfile(p)
  BY <1>2 DEF PurgeFlows, Tick, Restart, CreateProfile
<1>3. ASSUME NEW t \in Task, StartRequest(t)
      PROVE  secrets' = secrets
  BY <1>3 DEF StartRequest, PutDirect, Resolve, Revoke, BeginAuthorization, Redeem, DeleteProfile
<1>4. ASSUME NEW t \in Task,
             \/ PutConnection(t) \/ PutPending(t) \/ FindProfile(t) \/ ExchangeCode(t)
             \/ LoadSecret(t) \/ Answer(t) \/ CheckStored(t) \/ Refresh(t) \/ Recheck(t)
             \/ RecordFailure(t) \/ RemoveConnection(t) \/ Fail(t)
      PROVE  secrets' = secrets
  BY <1>4 DEF PutConnection, PutPending, FindProfile, ExchangeCode, LoadSecret, Answer,
              CheckStored, Refresh, Recheck, RecordFailure, RemoveConnection, Fail
<1>5. ASSUME NEW t \in Task, PutSecret(t)
      PROVE  /\ task[t] \in StoreState /\ task[t].at = "put_secret"
             /\ secrets' = Put(secrets, task[t].key, task[t].secret)
  BY <1>5, TaskShapes DEF PutSecret, RenewSteps
<1>6. ASSUME NEW t \in Task, DeleteSecrets(t) \/ DeleteSecret(t)
      PROVE  \E K : secrets' = Without(secrets, K)
  BY <1>6 DEF DeleteSecrets, DeleteSecret
<1> QED  BY <1>1, <1>2, <1>3, <1>4, <1>5, <1>6 DEF Next, ContinueRequest

\* A flow is added under a new state, or removed.
LEMMA FlowWrites ==
    ASSUME TypeOK, [Next]_vars
    PROVE  \/ UNCHANGED <<flows, issued>>
           \/ \E t \in Task, key \in Key, st \in State : BeginAuthorization(t, key, st)
           \/ \E t \in Task, st \in State : Redeem(t, st)
           \/ PurgeFlows
           \/ Restart
<1> USE DEF tables
<1>1. CASE UNCHANGED vars
  BY <1>1 DEF vars
<1>2. CASE Tick \/ \E p \in Profile : CreateProfile(p)
  BY <1>2 DEF Tick, CreateProfile
<1>3. ASSUME NEW t \in Task, StartRequest(t),
             \A key \in Key, st \in State : ~ BeginAuthorization(t, key, st),
             \A st \in State : ~ Redeem(t, st)
      PROVE  UNCHANGED <<flows, issued>>
  BY <1>3 DEF StartRequest, PutDirect, Resolve, Revoke, DeleteProfile
<1>4. ASSUME NEW t \in Task, ContinueRequest(t) \/ Fail(t)
      PROVE  UNCHANGED <<flows, issued>>
  BY <1>4 DEF ContinueRequest, DeleteSecrets, PutConnection, PutSecret, PutPending, FindProfile,
              ExchangeCode, LoadSecret, Answer, CheckStored, Refresh, Recheck, RecordFailure,
              DeleteSecret, RemoveConnection, Fail
<1> QED  BY <1>1, <1>2, <1>3, <1>4 DEF Next

\* A profile and a connection are added within the caps.
TablesFinite == IsFiniteSet(profiles) /\ IsFiniteSet(DOMAIN connections)

LEMMA CapsStep ==
    ASSUME TypeOK, TablesFinite, [Next]_vars
    PROVE  /\ TablesFinite'
           /\ profiles' \in SUBSET Profile
           /\ DOMAIN connections' \subseteq profiles' \X Service
           /\ connections' \in [DOMAIN connections' -> ConnectionRow]
           /\ Cardinality(profiles') <= MaxProfiles
           /\ \A p \in profiles' :
                 Cardinality(DOMAIN connections' \cap KeysOf(p)) <= MaxConnections
<1> USE DEF TablesFinite
<1> DEFINE Mine(p) == DOMAIN connections \cap KeysOf(p)
           Good == /\ TablesFinite'
                   /\ profiles' \in SUBSET Profile
                   /\ DOMAIN connections' \subseteq profiles' \X Service
                   /\ connections' \in [DOMAIN connections' -> ConnectionRow]
                   /\ Cardinality(profiles') <= MaxProfiles
                   /\ \A p \in profiles' :
                         Cardinality(DOMAIN connections' \cap KeysOf(p)) <= MaxConnections
<1>1. /\ profiles \in SUBSET Profile
      /\ DOMAIN connections \subseteq profiles \X Service
      /\ connections \in [DOMAIN connections -> ConnectionRow]
      /\ Cardinality(profiles) <= MaxProfiles
      /\ \A p \in profiles : Cardinality(Mine(p)) <= MaxConnections
      /\ MaxProfiles \in Nat /\ MaxConnections \in Nat
  BY BoundAssumption DEF TypeOK
<1>2. \A p : IsFiniteSet(Mine(p)) /\ Cardinality(Mine(p)) \in Nat
  BY FS_Intersection, FS_CardinalityType
<1>3. ASSUME NEW C, C \subseteq DOMAIN connections, NEW p \in profiles
      PROVE  Cardinality(C \cap KeysOf(p)) <= MaxConnections
  <2>1. C \cap KeysOf(p) \subseteq Mine(p)
    BY <1>3
  <2>2. /\ IsFiniteSet(C \cap KeysOf(p))
        /\ Cardinality(C \cap KeysOf(p)) <= Cardinality(Mine(p))
    BY <1>2, <2>1, FS_Subset
  <2>3. Cardinality(C \cap KeysOf(p)) \in Nat
    BY <2>2, FS_CardinalityType
  <2>4. /\ Cardinality(Mine(p)) \in Nat /\ MaxConnections \in Nat
        /\ Cardinality(Mine(p)) <= MaxConnections
    BY <1>1, <1>2
  <2> HIDE DEF Mine
  <2> QED  BY <2>2, <2>3, <2>4
<1>4. ASSUME NEW key \in Key, NEW conn \in ConnectionRow, CanPut(key),
             connections' = Put(connections, key, conn), profiles' = profiles
      PROVE  Good
  <2>1. DOMAIN connections' = DOMAIN connections \cup {key}
    BY <1>4 DEF Put
  <2>2. key \in profiles \X Service
    BY <1>4 DEF CanPut, Key
  <2>3. connections' \in [DOMAIN connections' -> ConnectionRow]
    BY <1>1, <1>4 DEF Put
  <2>4. IsFiniteSet(DOMAIN connections')
    BY <2>1, FS_AddElement
  <2>5. ASSUME NEW p \in profiles
        PROVE  Cardinality(DOMAIN connections' \cap KeysOf(p)) <= MaxConnections
    <3>1. CASE key \in DOMAIN connections \/ key \notin KeysOf(p)
      <4>1. DOMAIN connections' \cap KeysOf(p) = Mine(p)
        BY <2>1, <3>1
      <4> QED  BY <1>1, <4>1
    <3>2. CASE key \notin DOMAIN connections /\ key \in KeysOf(p)
      <4>1. key[1] = p
        BY <3>2 DEF KeysOf
      <4>2. Cardinality(Mine(p)) < MaxConnections
        BY <1>4, <3>2, <4>1 DEF CanPut
      <4>3. DOMAIN connections' \cap KeysOf(p) = Mine(p) \cup {key} /\ key \notin Mine(p)
        BY <2>1, <3>2
      <4>4. Cardinality(Mine(p) \cup {key}) = Cardinality(Mine(p)) + 1
        BY <1>2, <4>3, FS_AddElement
      <4>5. Cardinality(Mine(p)) \in Nat /\ MaxConnections \in Nat
        BY <1>1, <1>2
      <4> HIDE DEF Mine
      <4> QED  BY <4>2, <4>3, <4>4, <4>5
    <3> QED  BY <3>1, <3>2
  <2> QED  BY <1>1, <1>4, <2>1, <2>2, <2>3, <2>4, <2>5
<1>5. ASSUME NEW K, connections' = Without(connections, K), profiles' = profiles
      PROVE  Good
  <2>1. /\ DOMAIN connections' \subseteq DOMAIN connections
        /\ connections' \in [DOMAIN connections' -> ConnectionRow]
    BY <1>1, <1>5 DEF Without
  <2>2. IsFiniteSet(DOMAIN connections')
    BY <2>1, FS_Subset
  <2> QED  BY <1>1, <1>3, <1>5, <2>1, <2>2
<1>6. ASSUME NEW t \in Task, NEW p \in Profile, DeleteProfile(t, p)
      PROVE  Good
  <2>1. /\ DOMAIN connections' = DOMAIN connections \ KeysOf(p)
        /\ connections' \in [DOMAIN connections' -> ConnectionRow]
        /\ profiles' = profiles \ {p}
    BY <1>1, <1>6 DEF DeleteProfile, Without
  <2>2. DOMAIN connections' \subseteq profiles' \X Service
    BY <1>1, <2>1 DEF KeysOf
  <2>3. IsFiniteSet(DOMAIN connections') /\ IsFiniteSet(profiles')
    BY <2>1, FS_Subset
  <2>4. Cardinality(profiles') <= Cardinality(profiles)
    BY <2>1, FS_Subset
  <2>5. Cardinality(profiles) \in Nat /\ Cardinality(profiles') \in Nat
    BY <2>3, FS_CardinalityType
  <2>6. Cardinality(profiles') <= MaxProfiles
    BY <1>1, <2>4, <2>5
  <2>7. \A q \in profiles' : Cardinality(DOMAIN connections' \cap KeysOf(q)) <= MaxConnections
    BY <1>3, <2>1
  <2> QED  BY <1>1, <2>1, <2>2, <2>3, <2>6, <2>7
<1>7. ASSUME NEW p \in Profile, CreateProfile(p)
      PROVE  Good
  <2>1. profiles' = profiles \cup {p} /\ p \notin profiles /\ connections' = connections
        /\ Cardinality(profiles) < MaxProfiles
    BY <1>7 DEF CreateProfile
  <2>2. IsFiniteSet(profiles') /\ Cardinality(profiles') = Cardinality(profiles) + 1
    BY <2>1, FS_AddElement
  <2>3. Cardinality(profiles) \in Nat
    BY FS_CardinalityType
  <2>4. Mine(p) = {}
    BY <1>1, <2>1 DEF KeysOf
  <2>5. Cardinality(Mine(p)) = 0
    BY <2>4, FS_EmptySet
  <2> QED  BY <1>1, <2>1, <2>2, <2>3, <2>5
<1>8. CASE UNCHANGED <<profiles, connections>>
  BY <1>1, <1>8
<1> QED  BY <1>4, <1>5, <1>6, <1>7, <1>8, ConnectionWrites

-----------------------------------------------------------------------------
(* Type correctness *)

\* The secrets, the flows and the provider's side keep their types.
LEMMA StoresTyped ==
    ASSUME TypeOK, RefreshHasToken, [Next]_vars
    PROVE  /\ DOMAIN secrets' \subseteq Key
           /\ secrets' \in [DOMAIN secrets' -> Secret]
           /\ DOMAIN flows' \subseteq issued'
           /\ flows' \in [DOMAIN flows' -> [key: Key, expires: Nat]]
           /\ issued' \in SUBSET State
           /\ tokens' \in Nat
           /\ spent' \in SUBSET Nat
           /\ now' \in Nat
<1> USE DEF TypeOK
<1>1. DOMAIN secrets' \subseteq Key /\ secrets' \in [DOMAIN secrets' -> Secret]
  <2>1. ASSUME NEW r \in StoreState, secrets' = Put(secrets, r.key, r.secret)
        PROVE  DOMAIN secrets' \subseteq Key /\ secrets' \in [DOMAIN secrets' -> Secret]
    BY <2>1 DEF Put, StoreState
  <2>2. ASSUME NEW K, secrets' = Without(secrets, K)
        PROVE  DOMAIN secrets' \subseteq Key /\ secrets' \in [DOMAIN secrets' -> Secret]
    BY <2>2 DEF Without
  <2> QED  BY <2>1, <2>2, SecretWrites
<1>2. /\ DOMAIN flows' \subseteq issued'
      /\ flows' \in [DOMAIN flows' -> [key: Key, expires: Nat]]
      /\ issued' \in SUBSET State
  <2> DEFINE Good == /\ DOMAIN flows' \subseteq issued'
                     /\ flows' \in [DOMAIN flows' -> [key: Key, expires: Nat]]
                     /\ issued' \in SUBSET State
  <2>1. ASSUME NEW t \in Task, NEW key \in Key, NEW st \in State, BeginAuthorization(t, key, st)
        PROVE  Good
    <3>1. [key |-> key, expires |-> now + StateTtl] \in [key: Key, expires: Nat]
      BY BoundAssumption
    <3> QED  BY <2>1, <3>1 DEF BeginAuthorization, Put
  <2>2. ASSUME NEW t \in Task, NEW st \in State, Redeem(t, st)
        PROVE  Good
    BY <2>2 DEF Redeem, Unredeemed, Without
  <2>3. CASE PurgeFlows \/ Restart
    BY <2>3 DEF PurgeFlows, Restart, Without
  <2> QED  BY <2>1, <2>2, <2>3, FlowWrites
<1>3. now' \in Nat
  <2>1. CASE Tick
    BY <2>1 DEF Tick
  <2>2. ASSUME NEW t \in Task, StartRequest(t)
        PROVE  now' = now
    BY <2>2 DEF StartRequest, PutDirect, Resolve, Revoke, DeleteProfile, BeginAuthorization, Redeem
  <2>3. ASSUME NEW t \in Task, ContinueRequest(t) \/ Fail(t)
        PROVE  now' = now
    BY <2>3 DEF ContinueRequest, DeleteSecrets, PutConnection, PutSecret, PutPending, FindProfile,
                ExchangeCode, LoadSecret, Answer, CheckStored, Refresh, Recheck, RecordFailure,
                DeleteSecret, RemoveConnection, Fail
  <2>4. CASE PurgeFlows \/ Restart \/ (\E p \in Profile : CreateProfile(p)) \/ UNCHANGED vars
    BY <2>4 DEF PurgeFlows, Restart, CreateProfile, vars
  <2> QED  BY <2>1, <2>2, <2>3, <2>4 DEF Next
<1>4. tokens' \in Nat /\ spent' \in SUBSET Nat
  <2> USE DEF provider
  <2>1. ASSUME NEW t \in Task, Refresh(t)
        PROVE  tokens' \in Nat /\ spent' \in SUBSET Nat
    <3>1. task[t] \in StoreState /\ task[t].secret.refresh # None
      BY <2>1, TaskShapes DEF Refresh, RefreshHasToken, RenewSteps
    <3>2. task[t].secret.refresh \in Nat
      BY <3>1 DEF StoreState, Secret
    <3> QED  BY <2>1, <3>2 DEF Refresh
  <2>2. ASSUME NEW t \in Task, ExchangeCode(t)
        PROVE  tokens' \in Nat /\ spent' \in SUBSET Nat
    BY <2>2 DEF ExchangeCode
  <2>3. ASSUME NEW t \in Task, StartRequest(t)
        PROVE  tokens' \in Nat /\ spent' \in SUBSET Nat
    <3>1. (tokens' = tokens + 1 \/ tokens' = tokens) /\ spent' = spent
      BY <2>3 DEF StartRequest, PutDirect, Resolve, Revoke, DeleteProfile, BeginAuthorization, Redeem
    <3> QED  BY <3>1
  <2>4. ASSUME NEW t \in Task,
               \/ DeleteSecrets(t) \/ PutConnection(t) \/ PutSecret(t) \/ PutPending(t)
               \/ FindProfile(t) \/ LoadSecret(t) \/ Answer(t) \/ CheckStored(t) \/ Recheck(t)
               \/ RecordFailure(t) \/ DeleteSecret(t) \/ RemoveConnection(t) \/ Fail(t)
        PROVE  UNCHANGED <<tokens, spent>>
    BY <2>4 DEF DeleteSecrets, PutConnection, PutSecret, PutPending, FindProfile, LoadSecret,
                Answer, CheckStored, Recheck, RecordFailure, DeleteSecret, RemoveConnection, Fail
  <2>5. CASE PurgeFlows \/ Tick \/ Restart \/ (\E p \in Profile : CreateProfile(p)) \/ UNCHANGED vars
    BY <2>5 DEF PurgeFlows, Tick, Restart, CreateProfile, vars
  <2> QED  BY <2>1, <2>2, <2>3, <2>4, <2>5 DEF Next, ContinueRequest
<1> QED  BY <1>1, <1>2, <1>3, <1>4

\* The locks change by a request that leaves, joins or loses the queues.
LEMMA QueueMoves ==
    ASSUME TypeOK, [Next]_vars
    PROVE  \/ renewing' = renewing
           \/ \E t \in Task : renewing' = Released(t)
           \/ \E t \in Task, key \in Key :
                 renewing' = [renewing EXCEPT ![key] = Append(@, t)]
           \/ Restart
<1> USE DEF Finish, Continue, HandOver
<1>1. ASSUME NEW t \in Task, StartRequest(t)
      PROVE  renewing' = renewing
  BY <1>1 DEF StartRequest, PutDirect, Resolve, Revoke, DeleteProfile, BeginAuthorization, Redeem
<1>2. ASSUME NEW t \in Task,
             \/ DeleteSecrets(t) \/ PutConnection(t) \/ PutSecret(t) \/ PutPending(t)
             \/ FindProfile(t) \/ ExchangeCode(t) \/ Answer(t) \/ CheckStored(t) \/ Refresh(t)
             \/ Recheck(t) \/ RecordFailure(t) \/ DeleteSecret(t) \/ RemoveConnection(t) \/ Fail(t)
      PROVE  renewing' = renewing \/ renewing' = Released(t)
  BY <1>2 DEF DeleteSecrets, PutConnection, PutSecret, PutPending, FindProfile, ExchangeCode,
              Answer, CheckStored, Refresh, Recheck, RecordFailure, DeleteSecret,
              RemoveConnection, Fail
<1>3. ASSUME NEW t \in Task, LoadSecret(t)
      PROVE  \/ renewing' = Released(t)
             \/ \E key \in Key : renewing' = [renewing EXCEPT ![key] = Append(@, t)]
  <2>1. task[t].key \in Key
    BY <1>3, TaskShapes DEF LoadSecret, TypeOK, LoadState
  <2> QED  BY <1>3, <2>1 DEF LoadSecret
<1>4. CASE PurgeFlows \/ Tick \/ (\E p \in Profile : CreateProfile(p)) \/ UNCHANGED vars
  BY <1>4 DEF PurgeFlows, Tick, CreateProfile, vars
<1> QED  BY <1>1, <1>2, <1>3, <1>4 DEF Next, ContinueRequest

\* What is typed stays typed, given that a request that refreshes has a token.
LEMMA NextTyped ==
    ASSUME TypeOK, RefreshHasToken, TablesFinite, [Next]_vars
    PROVE  TypeOK' /\ RefreshHasToken' /\ TablesFinite'
<1>1. task' \in [Task -> TaskState] /\ RefreshHasToken'
  <2>1. task \in [Task -> TaskState]
    BY DEF TypeOK
  <2>2. CASE \E t \in Task : StartRequest(t) \/ ContinueRequest(t) \/ Fail(t)
    BY <2>1, <2>2, StartMoves, ContinueMoves, MovesTyped
  <2>3. CASE Restart
    BY <2>3, StatesAreTasks DEF Restart, RefreshHasToken, Idle
  <2>4. CASE PurgeFlows \/ Tick \/ (\E p \in Profile : CreateProfile(p)) \/ UNCHANGED vars
    BY <2>1, <2>4 DEF PurgeFlows, Tick, CreateProfile, vars, RefreshHasToken
  <2> QED  BY <2>2, <2>3, <2>4 DEF Next
<1>2. renewing' \in [Key -> Seq(Task)]
  <2>1. renewing \in [Key -> Seq(Task)]
    BY DEF TypeOK
  <2>2. ASSUME NEW t \in Task, NEW key \in Key, renewing' = [renewing EXCEPT ![key] = Append(@, t)]
        PROVE  renewing' \in [Key -> Seq(Task)]
    BY <2>1, <2>2, QueueAppend
  <2>3. CASE Restart
    BY <2>3 DEF Restart
  <2> QED  BY <2>1, <2>2, <2>3, QueueMoves, ReleasedTyped
<1> QED  BY <1>1, <1>2, StoresTyped, CapsStep DEF TypeOK

LEMMA InitTyped == Init => TypeOK /\ RefreshHasToken /\ TablesFinite
<1> SUFFICES ASSUME Init
             PROVE  TypeOK /\ RefreshHasToken /\ TablesFinite
  OBVIOUS
<1> DEFINE Seeded == DOMAIN SeedSecrets
<1>1. /\ Seeded \subseteq Key /\ IsFiniteSet(Seeded)
      /\ DOMAIN connections = Seeded
      /\ profiles = {key[1] : key \in Seeded}
  BY SeedAssumption DEF Init
<1>2. profiles \subseteq Profile /\ DOMAIN connections \subseteq profiles \X Service
  BY <1>1 DEF Key
<1>3. IsFiniteSet(profiles)
  <2> DEFINE f == [key \in Seeded |-> key[1]]
  <2>1. f \in Surjection(Seeded, profiles)
    BY <1>1 DEF Surjection
  <2> HIDE DEF f
  <2> QED  BY <1>1, <2>1, FS_Surjection
<1>4. connections \in [Seeded -> ConnectionRow]
  <2>1. [kind |-> "oauth2", status |-> "active", expires |-> AccessTtl] \in ConnectionRow
    BY BoundAssumption DEF ConnectionRow, Kind
  <2> QED  BY <2>1 DEF Init
<1>5. Cardinality(profiles) <= MaxProfiles
  BY SeedAssumption DEF Init
<1>6. \A p \in profiles : Cardinality(DOMAIN connections \cap KeysOf(p)) <= MaxConnections
  BY <1>1, <1>2, SeedAssumption DEF KeysOf
<1>7. tokens \in Nat
  BY <1>1, FS_CardinalityType DEF Init
<1>8. task \in [Task -> TaskState] /\ RefreshHasToken
  BY StatesAreTasks DEF Init, RefreshHasToken, Idle
<1>9. DOMAIN secrets \subseteq Key /\ secrets \in [DOMAIN secrets -> Secret]
  BY SeedAssumption DEF Init
<1>10. /\ DOMAIN flows \subseteq issued /\ flows \in [DOMAIN flows -> [key: Key, expires: Nat]]
       /\ issued \in SUBSET State /\ spent \in SUBSET Nat /\ now \in Nat
       /\ renewing \in [Key -> Seq(Task)]
  BY DEF Init
<1> QED  BY <1>1, <1>2, <1>3, <1>4, <1>5, <1>6, <1>7, <1>8, <1>9, <1>10 DEF TypeOK, TablesFinite

(***************************************************************************)
(* Tables, flows, locks and requests stay well formed and the two caps     *)
(* hold, for any number of requests that check them at once.  Not          *)
(* inductive by itself: that a cap is not passed is about finite tables,   *)
(* and that the provider sees only tokens is about what _refresh does with *)
(* a secret that has none.                                                 *)
(***************************************************************************)
THEOREM VaultTypeCorrect == Spec => []TypeOK
<1>1. TypeOK /\ RefreshHasToken /\ TablesFinite /\ [Next]_vars
        => TypeOK' /\ RefreshHasToken' /\ TablesFinite'
  BY NextTyped
<1> QED  BY <1>1, InitTyped, PTL DEF Spec

-----------------------------------------------------------------------------
(* What is handed over *)

\* A request that changes is one that starts, goes on, dies or is cut off.
LEMMA WhoMoves ==
    ASSUME TypeOK, [Next]_vars, NEW t \in Task
    PROVE  \/ task'[t] = task[t]
           \/ task'[t] = Idle
           \/ StartRequest(t) \/ ContinueRequest(t) \/ Fail(t)
<1> USE DEF TypeOK
<1>1. ASSUME NEW u \in Task, StartRequest(u) \/ ContinueRequest(u) \/ Fail(u), u # t
      PROVE  task'[t] = task[t]
  BY <1>1, StartMoves, ContinueMoves DEF Moves
<1>2. CASE Restart
  BY <1>2 DEF Restart
<1>3. CASE PurgeFlows \/ Tick \/ (\E p \in Profile : CreateProfile(p)) \/ UNCHANGED vars
  BY <1>3 DEF PurgeFlows, Tick, CreateProfile, vars
<1> QED  BY <1>1, <1>2, <1>3 DEF Next

\* A start ends in one of these states.
LEMMA StartStates ==
    ASSUME TypeOK, NEW t \in Task, StartRequest(t)
    PROVE  /\ task[t] = Idle
           /\ renewing' = renewing
           /\ \E r : /\ task' = [task EXCEPT ![t] = r]
                     /\ r.at \in {"idle", "delete_secrets", "put_connection", "load_secret",
                                  "delete_secret", "put_pending", "find_profile"}
                     /\ r.at = "find_profile" => Redeem(t, r.state)
<1> USE DEF Start
<1>1. ASSUME NEW p \in Profile, DeleteProfile(t, p)
      PROVE  /\ task[t] = Idle /\ renewing' = renewing
             /\ task' = [task EXCEPT ![t] = [at |-> "delete_secrets", profile |-> p]]
  BY <1>1 DEF DeleteProfile
<1>2. ASSUME NEW key \in Key, NEW kind \in Kind, PutDirect(t, key, kind)
      PROVE  /\ task[t] = Idle /\ renewing' = renewing
             /\ \E conn, s : task' = [task EXCEPT ![t] = Step("put_connection", key, conn, s)]
  BY <1>2 DEF PutDirect
<1>3. ASSUME NEW key \in Key, NEW port \in Port, Resolve(t, key, port)
      PROVE  /\ task[t] = Idle /\ renewing' = renewing
             /\ task' = [task EXCEPT ![t] =
                    [at |-> "load_secret", key |-> key, conn |-> connections[key], port |-> port]]
  BY <1>3 DEF Resolve
<1>4. ASSUME NEW key \in Key, Revoke(t, key)
      PROVE  /\ task[t] = Idle /\ renewing' = renewing
             /\ task' = [task EXCEPT ![t] = Step("delete_secret", key, connections[key], None)]
  BY <1>4 DEF Revoke
<1>5. ASSUME NEW key \in Key, NEW st \in State, BeginAuthorization(t, key, st)
      PROVE  /\ task[t] = Idle /\ renewing' = renewing
             /\ \/ task' = [task EXCEPT ![t] = Idle]
                \/ task' = [task EXCEPT ![t] = Step("put_pending", key, Pending, None)]
  BY <1>5 DEF BeginAuthorization
<1>6. ASSUME NEW st \in State, Redeem(t, st)
      PROVE  /\ task[t] = Idle /\ renewing' = renewing
             /\ \/ task' = [task EXCEPT ![t] = Idle]
                \/ task' = [task EXCEPT ![t] =
                       [at |-> "find_profile", key |-> flows[st].key, state |-> st]]
  BY <1>6 DEF Redeem
<1> HIDE DEF Start
<1> DEFINE Reached(r) == /\ r.at \in {"idle", "delete_secrets", "put_connection", "load_secret",
                                     "delete_secret", "put_pending", "find_profile"}
                         /\ r.at = "find_profile" => Redeem(t, r.state)
<1>7. ASSUME NEW st \in State, Redeem(t, st)
      PROVE  /\ task[t] = Idle /\ renewing' = renewing
             /\ \E r : task' = [task EXCEPT ![t] = r] /\ Reached(r)
  <2>1. Reached(Idle) /\ Reached([at |-> "find_profile", key |-> flows[st].key, state |-> st])
    BY <1>7 DEF Idle
  <2> QED  BY <1>6, <1>7, <2>1
<1>8. ASSUME NEW p \in Profile, DeleteProfile(t, p)
      PROVE  /\ task[t] = Idle /\ renewing' = renewing
             /\ \E r : task' = [task EXCEPT ![t] = r] /\ Reached(r)
  <2>1. Reached([at |-> "delete_secrets", profile |-> p])
    OBVIOUS
  <2> QED  BY <1>1, <1>8, <2>1
<1>9. ASSUME NEW key \in Key,
             \/ \E kind \in Kind \ {"oauth2"} : PutDirect(t, key, kind)
             \/ \E port \in Port : Resolve(t, key, port)
             \/ Revoke(t, key)
      PROVE  /\ task[t] = Idle /\ renewing' = renewing
             /\ \E r : task' = [task EXCEPT ![t] = r] /\ Reached(r)
  <2>1. /\ \A c, s : Reached(Step("put_connection", key, c, s))
        /\ \A c, s : Reached(Step("delete_secret", key, c, s))
        /\ \A c, port : Reached([at |-> "load_secret", key |-> key, conn |-> c, port |-> port])
    BY DEF Step
  <2> HIDE DEF Reached
  <2> QED  BY <1>2, <1>3, <1>4, <1>9, <2>1
<1>10. ASSUME NEW key \in Key, NEW st \in State, BeginAuthorization(t, key, st)
       PROVE  /\ task[t] = Idle /\ renewing' = renewing
              /\ \E r : task' = [task EXCEPT ![t] = r] /\ Reached(r)
  <2>1. Reached(Idle) /\ Reached(Step("put_pending", key, Pending, None))
    BY DEF Idle, Step
  <2> HIDE DEF Reached
  <2> QED  BY <1>5, <1>10, <2>1
<1> QED  BY <1>7, <1>8, <1>9, <1>10 DEF StartRequest

\* Whatever is sent was handed over.
LEMMA Answers ==
    ASSUME TypeOK, [Next]_vars, NEW t \in Task, task'[t].at = "answer"
    PROVE  \/ task'[t] = task[t]
           \/ \E port, conn, secret : HandOver(t, port, conn, secret)
<1> USE DEF TypeOK
<1>1. CASE task'[t] = Idle
  BY <1>1 DEF Idle
<1>2. CASE StartRequest(t)
  BY <1>2, StartStates
<1>3. CASE Finish(t)
  BY <1>3 DEF Finish, Idle
<1>4. CASE LoadSecret(t)
  <2>1. Step("check_stored", task[t].key, task[t].conn, secrets[task[t].key]).at = "check_stored"
    BY DEF Step
  <2> QED  BY <1>3, <1>4, <2>1 DEF LoadSecret
<1>5. CASE PutSecret(t)
  BY <1>3, <1>5 DEF PutSecret
<1>6. ASSUME NEW n, n.at # "answer", Continue(t, n)
      PROVE  FALSE
  BY <1>6 DEF Continue
<1>7. ASSUME task[t].at \in RenewSteps \cup MarkSteps \cup {"find_profile"}
      PROVE  \A at : [task[t] EXCEPT !.at = at].at = at
  BY <1>7, TaskShapes DEF StoreState, MarkState, FlowState
<1>8. CASE CheckStored(t)
  BY <1>6, <1>7, <1>8 DEF CheckStored, RenewSteps
<1>9. CASE PutConnection(t) \/ FindProfile(t) \/ DeleteSecret(t)
  BY <1>3, <1>6, <1>7, <1>9 DEF PutConnection, FindProfile, DeleteSecret, RenewSteps, MarkSteps, Idle
<1>10. CASE ExchangeCode(t)
  <2>1. \A conn, s : Step("put_connection", task[t].key, conn, s).at = "put_connection"
    BY DEF Step
  <2> QED  BY <1>3, <1>6, <1>10, <2>1 DEF ExchangeCode
<1>11. CASE Refresh(t) \/ Recheck(t)
  <2>1. task[t] \in StoreState
    BY <1>11, TaskShapes DEF Refresh, Recheck, RenewSteps
  <2>2. /\ \A s : [task[t] EXCEPT !.at = "recheck", !.secret = s].at = "recheck"
        /\ \A c : [task[t] EXCEPT !.at = "put_connection", !.conn = c].at = "put_connection"
        /\ [task[t] EXCEPT !.at = "record_failure"].at = "record_failure"
    BY <2>1 DEF StoreState
  <2> QED  BY <1>3, <1>6, <1>11, <2>2 DEF Refresh, Recheck
<1>12. CASE DeleteSecrets(t) \/ PutPending(t) \/ Answer(t) \/ RecordFailure(t)
            \/ RemoveConnection(t) \/ Fail(t)
  BY <1>3, <1>12 DEF DeleteSecrets, PutPending, Answer, RecordFailure, RemoveConnection, Fail
<1> QED  BY <1>1, <1>2, <1>4, <1>5, <1>8, <1>9, <1>10, <1>11, <1>12, WhoMoves DEF ContinueRequest

(***************************************************************************)
(* A typed login reaches only callers that fill in forms, however many     *)
(* requests replace, renew or remove the credential between the two reads  *)
(* of _load.                                                               *)
(***************************************************************************)
THEOREM FormLoginsTheorem == Spec => []FormLoginsStayInForms
<1>1. Init => FormLoginsStayInForms
  BY DEF Init, Idle, FormLoginsStayInForms
<1>2. ASSUME TypeOK, FormLoginsStayInForms, [Next]_vars
      PROVE  FormLoginsStayInForms'
  <2> SUFFICES ASSUME NEW t \in Task, task'[t].at = "answer"
               PROVE  (task'[t].port = "form") <=> (task'[t].carries = "password")
    BY DEF FormLoginsStayInForms
  <2>1. CASE task'[t] = task[t]
    BY <1>2, <2>1 DEF FormLoginsStayInForms
  <2>2. ASSUME NEW port, NEW conn, NEW secret, HandOver(t, port, conn, secret)
        PROVE  (task'[t].port = "form") <=> (task'[t].carries = "password")
    <3>1. task'[t] = IF Serves(port, conn) /\ Requires(conn, secret)
                     THEN [at |-> "answer", port |-> port, carries |-> secret.kind] ELSE Idle
      BY <1>2, <2>2 DEF HandOver, TypeOK
    <3>2. /\ Serves(port, conn) /\ Requires(conn, secret)
          /\ task'[t] = [at |-> "answer", port |-> port, carries |-> secret.kind]
      BY <3>1 DEF Idle
    <3> QED  BY <3>2 DEF Serves, Requires
  <2> QED  BY <1>2, <2>1, <2>2, Answers
<1> QED  BY <1>1, <1>2, VaultTypeCorrect, PTL DEF Spec

-----------------------------------------------------------------------------
(* The states of the consent *)

\* A callback comes by its state only by redeeming it.
LEMMA NewCarriers ==
    ASSUME TypeOK, [Next]_vars, NEW t \in Task, NEW st \in State, Carries(t, st)'
    PROVE  Carries(t, st) \/ Redeem(t, st)
<1> USE DEF TypeOK
<1>1. task'[t].at \in {"find_profile", "exchange"} /\ task'[t].state = st
  BY DEF Carries
<1>2. CASE task'[t] = task[t]
  BY <1>1, <1>2 DEF Carries
<1>3. CASE task'[t] = Idle \/ Finish(t)
  BY <1>1, <1>3 DEF Finish, Idle
<1>4. CASE StartRequest(t)
  BY <1>1, <1>4, StartStates
<1>5. ASSUME NEW port, NEW conn, NEW secret, HandOver(t, port, conn, secret)
      PROVE  FALSE
  BY <1>1, <1>5 DEF HandOver, Idle
<1>6. ASSUME NEW n, n.at \notin {"find_profile", "exchange"}, task' = [task EXCEPT ![t] = n]
      PROVE  FALSE
  BY <1>1, <1>6
<1>7. CASE LoadSecret(t)
  <2>1. Step("check_stored", task[t].key, task[t].conn, secrets[task[t].key]).at = "check_stored"
    BY DEF Step
  <2> QED  BY <1>3, <1>5, <1>6, <1>7, <2>1 DEF LoadSecret
<1>8. CASE PutSecret(t)
  BY <1>3, <1>5, <1>8 DEF PutSecret
<1>9. ASSUME task[t].at \in RenewSteps \cup MarkSteps
      PROVE  \A at : [task[t] EXCEPT !.at = at].at = at
  BY <1>9, TaskShapes DEF StoreState, MarkState
<1>10. CASE CheckStored(t)
  BY <1>5, <1>6, <1>9, <1>10 DEF CheckStored, Continue, RenewSteps
<1>11. CASE PutConnection(t) \/ DeleteSecret(t)
  BY <1>3, <1>6, <1>9, <1>11 DEF PutConnection, DeleteSecret, Continue, RenewSteps, MarkSteps
<1>12. CASE FindProfile(t)
  <2>1. task[t] \in FlowState
    BY <1>12, TaskShapes DEF FindProfile
  <2>2. [task[t] EXCEPT !.at = "exchange"].state = task[t].state
    BY <2>1 DEF FlowState
  <2> QED  BY <1>1, <1>3, <1>12, <2>2 DEF FindProfile, Continue, Carries, Idle
<1>13. CASE ExchangeCode(t)
  <2>1. \A conn, s : Step("put_connection", task[t].key, conn, s).at = "put_connection"
    BY DEF Step
  <2> QED  BY <1>3, <1>6, <1>13, <2>1 DEF ExchangeCode, Continue
<1>14. CASE Refresh(t) \/ Recheck(t)
  <2>1. task[t] \in StoreState
    BY <1>14, TaskShapes DEF Refresh, Recheck, RenewSteps
  <2>2. /\ \A s : [task[t] EXCEPT !.at = "recheck", !.secret = s].at = "recheck"
        /\ \A c : [task[t] EXCEPT !.at = "put_connection", !.conn = c].at = "put_connection"
        /\ [task[t] EXCEPT !.at = "record_failure"].at = "record_failure"
    BY <2>1 DEF StoreState
  <2> QED  BY <1>3, <1>6, <1>14, <2>2 DEF Refresh, Recheck, Continue
<1>15. CASE DeleteSecrets(t) \/ PutPending(t) \/ Answer(t) \/ RecordFailure(t)
            \/ RemoveConnection(t) \/ Fail(t)
  BY <1>3, <1>15 DEF DeleteSecrets, PutPending, Answer, RecordFailure, RemoveConnection, Fail
<1> QED  BY <1>2, <1>3, <1>4, <1>7, <1>8, <1>10, <1>11, <1>12, <1>13, <1>14, <1>15, WhoMoves
         DEF ContinueRequest

\* A state in a callback's hands was issued, is not stored and is no other's.
OneCallback ==
    \A t \in Task, st \in State :
        Carries(t, st) =>
            /\ st \in issued
            /\ st \notin DOMAIN flows
            /\ \A u \in Task : Carries(u, st) => u = t

\* A state that was issued is not stored again.
LEMMA FlowsOnlyEnd ==
    ASSUME TypeOK, [Next]_vars, NEW st \in issued
    PROVE  st \in issued' /\ (st \in DOMAIN flows' => st \in DOMAIN flows)
<1>1. ASSUME NEW t \in Task, NEW key \in Key, NEW x \in State, BeginAuthorization(t, key, x)
      PROVE  st \in issued' /\ (st \in DOMAIN flows' => st \in DOMAIN flows)
  BY <1>1 DEF BeginAuthorization, Put
<1>2. ASSUME NEW t \in Task, NEW x \in State, Redeem(t, x)
      PROVE  st \in issued' /\ (st \in DOMAIN flows' => st \in DOMAIN flows)
  BY <1>2 DEF Redeem, Unredeemed, Without
<1>3. CASE PurgeFlows \/ Restart
  BY <1>3 DEF PurgeFlows, Restart, Without
<1> QED  BY <1>1, <1>2, <1>3, FlowWrites

(***************************************************************************)
(* A state is consumed exactly once, however callbacks, the sweeper and    *)
(* restarts interleave.  The invariant adds that a state being acted on    *)
(* was issued, without which a new consent could be given the same one.    *)
(***************************************************************************)
THEOREM StateRedeemedOnceTheorem == Spec => []StateRedeemedOnce
<1>1. Init => OneCallback
  BY DEF Init, Idle, OneCallback, Carries
<1>2. ASSUME TypeOK, OneCallback, [Next]_vars
      PROVE  OneCallback'
  <2> SUFFICES ASSUME NEW t \in Task, NEW st \in State, Carries(t, st)'
               PROVE  /\ st \in issued' /\ st \notin DOMAIN flows'
                      /\ \A u \in Task : Carries(u, st)' => u = t
    BY DEF OneCallback
  <2>1. CASE Carries(t, st) /\ \A u \in Task : Carries(u, st)' => Carries(u, st)
    <3>1. /\ st \in issued /\ st \notin DOMAIN flows
          /\ \A u \in Task : Carries(u, st) => u = t
      BY <1>2, <2>1 DEF OneCallback
    <3> QED  BY <1>2, <2>1, <3>1, FlowsOnlyEnd
  <2>2. ASSUME NEW u \in Task, Redeem(u, st)
        PROVE  /\ st \in issued' /\ st \notin DOMAIN flows'
               /\ \A v \in Task : Carries(v, st)' => v = u
    <3>1. st \in DOMAIN flows /\ st \in issued
      BY <1>2, <2>2 DEF Redeem, TypeOK
    <3>2. st \in issued' /\ st \notin DOMAIN flows'
      BY <2>2, <3>1 DEF Redeem, Unredeemed, Without
    <3>3. ASSUME NEW v \in Task, v # u, Carries(v, st)'
          PROVE  FALSE
      <4>1. task'[v] = task[v]
        BY <1>2, <2>2, <3>3 DEF Redeem, Start, TypeOK
      <4>2. Carries(v, st)
        BY <3>3, <4>1 DEF Carries
      <4> QED  BY <1>2, <3>1, <4>2 DEF OneCallback
    <3> QED  BY <3>2, <3>3
  <2> QED  BY <1>2, <2>1, <2>2, NewCarriers
<1>3. OneCallback => StateRedeemedOnce
  BY DEF OneCallback, StateRedeemedOnce
<1> QED  BY <1>1, <1>2, <1>3, VaultTypeCorrect, PTL DEF Spec

-----------------------------------------------------------------------------
(* The turns of the renewals *)

\* The steps that only the holder of a connection's lock is at.
AlonePast == {"refresh", "recheck", "record_failure"}

\* Nobody queues twice, those who queue are renewing what they queue for, and
\* those past the re-read of the stored secret are first.
LocksOrderly ==
    /\ \A key \in Key : OnceEach(renewing[key])
    /\ \A key \in Key, t \in Task :
          InQueue(t, renewing[key]) =>
              /\ task[t].at \in RenewSteps
              /\ task[t].key = key
              /\ task[t].at # "check_stored" => Holds(t, key)
    /\ \A t \in Task : task[t].at \in AlonePast => Holds(t, task[t].key)

\* A request that queues for nothing may go wherever no lock is needed.
LEMMA OutsiderStep ==
    ASSUME TypeOK, LocksOrderly, NEW t \in Task, NEW r,
           task[t].at \notin RenewSteps \/ \A key \in Key : ~ InQueue(t, renewing[key]),
           task' = [task EXCEPT ![t] = r], r.at \notin AlonePast, renewing' = renewing
    PROVE  LocksOrderly'
<1>1. \A key \in Key : ~ InQueue(t, renewing[key])
  BY DEF LocksOrderly
<1>2. \A u \in Task : u # t => task'[u] = task[u]
  BY DEF TypeOK
<1>3. task'[t] = r
  BY DEF TypeOK
<1> QED  BY <1>1, <1>2, <1>3 DEF LocksOrderly, Holds

\* A request that goes on renewing what it holds the lock of.
LEMMA HolderStep ==
    ASSUME TypeOK, LocksOrderly, NEW t \in Task, NEW r, task[t].at \in RenewSteps,
           task' = [task EXCEPT ![t] = r], renewing' = renewing,
           r.at \in RenewSteps \ {"check_stored"}, r.key = task[t].key,
           r.at \in AlonePast \/ task[t].at = "check_stored" => Holds(t, task[t].key)
    PROVE  LocksOrderly'
<1>1. \A u \in Task : u # t => task'[u] = task[u]
  BY DEF TypeOK
<1>2. task'[t] = r
  BY DEF TypeOK
<1> QED  BY <1>1, <1>2 DEF LocksOrderly, Holds

\* A request that is not waiting leaves, and takes itself out of its queue.
LEMMA LeaverStep ==
    ASSUME TypeOK, LocksOrderly, NEW t \in Task, NEW r, r.at \notin RenewSteps,
           task' = [task EXCEPT ![t] = r], renewing' = Released(t), ~ Waiting(t)
    PROVE  LocksOrderly'
<1>1. \A u \in Task : u # t => task'[u] = task[u]
  BY DEF TypeOK
<1>2. task'[t] = r
  BY DEF TypeOK
<1>3. ASSUME NEW key \in Key
      PROVE  /\ OnceEach(renewing'[key])
             /\ ~ InQueue(t, renewing'[key])
             /\ \A u \in Task : InQueue(u, renewing'[key]) => InQueue(u, renewing[key])
             /\ \A u \in Task : u # t /\ Holds(u, key) => Holds(u, key)'
  <2>1. renewing[key] \in Seq(Task) /\ OnceEach(renewing[key])
    BY DEF TypeOK, LocksOrderly
  <2>2. CASE Holds(t, key)
    <3>1. renewing'[key] = Tail(renewing[key])
      BY <2>2 DEF Released
    <3>2. renewing[key] # <<>> /\ renewing[key][1] = t
      BY <2>2 DEF Holds
    <3>3. \A u \in Task : u # t => ~ Holds(u, key)
      BY <3>2 DEF Holds
    <3> QED  BY <2>1, <3>1, <3>2, <3>3, QueueTail
  <2>3. CASE ~ Holds(t, key)
    <3>1. renewing'[key] = renewing[key]
      BY <2>3 DEF Released
    <3>2. ~ InQueue(t, renewing[key])
      BY <2>3 DEF LocksOrderly, Waiting
    <3> QED  BY <2>1, <3>1, <3>2 DEF Holds
  <2> QED  BY <2>2, <2>3
<1>4. ASSUME NEW u \in Task, task'[u].at \in AlonePast
      PROVE  Holds(u, task[u].key)'
  <2>1. u # t /\ task'[u] = task[u]
    BY <1>1, <1>2, <1>4 DEF AlonePast, RenewSteps
  <2>2. Holds(u, task[u].key) /\ task[u].key \in Key
    BY <1>4, <2>1, TaskShapes DEF LocksOrderly, AlonePast, RenewSteps, StoreState, TypeOK
  <2> QED  BY <1>3, <2>1, <2>2
<1>5. ASSUME NEW key \in Key, NEW u \in Task, InQueue(u, renewing'[key])
      PROVE  /\ task'[u].at \in RenewSteps
             /\ task'[u].key = key
             /\ task'[u].at # "check_stored" => Holds(u, key)'
  <2>1. u # t /\ task'[u] = task[u] /\ InQueue(u, renewing[key])
    BY <1>1, <1>3, <1>5
  <2> QED  BY <1>3, <2>1 DEF LocksOrderly
<1> QED  BY <1>3, <1>4, <1>5 DEF LocksOrderly

\* A request joins the queue of the connection it is going to renew.
LEMMA JoinerStep ==
    ASSUME TypeOK, LocksOrderly, NEW t \in Task, NEW k \in Key, NEW r, task[t].at \notin RenewSteps,
           task' = [task EXCEPT ![t] = r], r.at = "check_stored", r.key = k,
           renewing' = [renewing EXCEPT ![k] = Append(@, t)]
    PROVE  LocksOrderly'
<1>1. \A u \in Task : u # t => task'[u] = task[u]
  BY DEF TypeOK
<1>2. task'[t] = r
  BY DEF TypeOK
<1>3. \A key \in Key : ~ InQueue(t, renewing[key])
  BY DEF LocksOrderly
<1>4. renewing'[k] = Append(renewing[k], t) /\ \A key \in Key : key # k => renewing'[key] = renewing[key]
  BY DEF TypeOK
<1>5. /\ OnceEach(renewing'[k])
      /\ \A u : InQueue(u, renewing'[k]) <=> InQueue(u, renewing[k]) \/ u = t
      /\ \A u : Holds(u, k) => Holds(u, k)'
  <2>1. renewing[k] \in Seq(Task) /\ OnceEach(renewing[k])
    BY DEF TypeOK, LocksOrderly
  <2> QED  BY <1>3, <1>4, <2>1, QueueAppend DEF Holds
<1>6. \A key \in Key, u \in Task : Holds(u, key) => Holds(u, key)'
  BY <1>4, <1>5 DEF Holds
<1>7. ASSUME NEW u \in Task, task'[u].at \in AlonePast
      PROVE  Holds(u, task[u].key)'
  <2>1. u # t /\ task'[u] = task[u]
    BY <1>1, <1>2, <1>7 DEF AlonePast
  <2>2. Holds(u, task[u].key) /\ task[u].key \in Key
    BY <1>7, <2>1, TaskShapes DEF LocksOrderly, AlonePast, RenewSteps, StoreState, TypeOK
  <2> QED  BY <1>6, <2>1, <2>2
<1>8. ASSUME NEW key \in Key, NEW u \in Task, InQueue(u, renewing'[key])
      PROVE  /\ task'[u].at \in RenewSteps
             /\ task'[u].key = key
             /\ task'[u].at # "check_stored" => Holds(u, key)'
  <2>1. CASE u = t
    <3>1. key = k
      BY <1>3, <1>4, <1>8, <2>1
    <3> QED  BY <1>2, <2>1, <3>1 DEF RenewSteps
  <2>2. CASE u # t
    <3>1. InQueue(u, renewing[key])
      BY <1>4, <1>5, <1>8, <2>2
    <3> QED  BY <1>1, <1>6, <2>2, <3>1 DEF LocksOrderly
  <2> QED  BY <2>1, <2>2
<1>9. \A key \in Key : OnceEach(renewing'[key])
  BY <1>4, <1>5 DEF LocksOrderly
<1> QED  BY <1>7, <1>8, <1>9 DEF LocksOrderly

\* The locks stay orderly in every step.
LEMMA LocksStep ==
    ASSUME TypeOK, LocksOrderly, [Next]_vars
    PROVE  LocksOrderly'
<1>1. CASE UNCHANGED vars
  BY <1>1 DEF vars, LocksOrderly, Holds
<1>2. CASE PurgeFlows \/ Tick \/ \E p \in Profile : CreateProfile(p)
  BY <1>2 DEF PurgeFlows, Tick, CreateProfile, LocksOrderly, Holds
<1>3. CASE Restart
  BY <1>3 DEF Restart, LocksOrderly, Holds, InQueue, OnceEach, Idle, AlonePast
<1>4. ASSUME NEW t \in Task, StartRequest(t)
      PROVE  LocksOrderly'
  <2>1. task[t].at \notin RenewSteps
    BY <1>4, StartStates DEF Idle, RenewSteps
  <2>2. PICK r : task' = [task EXCEPT ![t] = r] /\ r.at \notin AlonePast
    BY <1>4, StartStates DEF AlonePast
  <2>3. renewing' = renewing
    BY <1>4, StartStates
  <2> QED  BY <2>1, <2>2, <2>3, OutsiderStep
<1>5. ASSUME NEW t \in Task, Finish(t), ~ Waiting(t)
      PROVE  LocksOrderly'
  BY <1>5, LeaverStep DEF Finish, Idle, RenewSteps
<1>6. ASSUME NEW t \in Task, NEW port, NEW conn, NEW secret, HandOver(t, port, conn, secret),
             ~ Waiting(t)
      PROVE  LocksOrderly'
  <2> DEFINE r == IF Serves(port, conn) /\ Requires(conn, secret)
                  THEN [at |-> "answer", port |-> port, carries |-> secret.kind] ELSE Idle
  <2>1. r.at \in {"idle", "answer"}
    BY DEF Idle
  <2>2. task' = [task EXCEPT ![t] = r] /\ renewing' = Released(t)
    BY <1>6 DEF HandOver
  <2> HIDE DEF r
  <2>3. r.at \notin RenewSteps
    BY <2>1 DEF RenewSteps
  <2> QED  BY <1>6, <2>2, <2>3, LeaverStep
<1>7. ASSUME NEW t \in Task, task[t].at # "check_stored"
      PROVE  ~ Waiting(t)
  BY <1>7 DEF Waiting
<1>8. ASSUME NEW t \in Task,
             \/ DeleteSecrets(t) \/ PutPending(t) \/ Answer(t) \/ RecordFailure(t)
             \/ RemoveConnection(t) \/ Fail(t)
      PROVE  LocksOrderly'
  BY <1>5, <1>7, <1>8
  DEF DeleteSecrets, PutPending, Answer, RecordFailure, RemoveConnection, Fail
<1>9. ASSUME NEW t \in Task, NEW r, Continue(t, r), task[t].at \notin RenewSteps,
             r.at \notin AlonePast
      PROVE  LocksOrderly'
  BY <1>9, OutsiderStep DEF Continue
<1>10. ASSUME NEW t \in Task, NEW r, Continue(t, r), task[t].at \in RenewSteps,
              r.at \in RenewSteps \ {"check_stored"}, r.key = task[t].key,
              r.at \in AlonePast \/ task[t].at = "check_stored" => Holds(t, task[t].key)
       PROVE  LocksOrderly'
  BY <1>10, HolderStep DEF Continue
<1>11. ASSUME NEW t \in Task, FindProfile(t)
       PROVE  LocksOrderly'
  <2>1. task[t] \in FlowState
    BY <1>11, TaskShapes DEF FindProfile, TypeOK
  <2>2. [task[t] EXCEPT !.at = "exchange"].at \notin AlonePast /\ Idle.at \notin AlonePast
        /\ task[t].at \notin RenewSteps
    BY <2>1 DEF FlowState, AlonePast, Idle, RenewSteps
  <2> QED  BY <1>9, <1>11, <2>2 DEF FindProfile
<1>12. ASSUME NEW t \in Task, ExchangeCode(t)
       PROVE  LocksOrderly'
  <2>1. task[t].at = "exchange" /\ task[t].at \notin RenewSteps
    BY <1>12 DEF ExchangeCode, RenewSteps
  <2>2. \A c, s : Step("put_connection", task[t].key, c, s).at \notin AlonePast
    BY DEF Step, AlonePast
  <2> QED  BY <1>5, <1>7, <1>9, <1>12, <2>1, <2>2 DEF ExchangeCode
<1>13. ASSUME NEW t \in Task, DeleteSecret(t)
       PROVE  LocksOrderly'
  <2>1. task[t] \in MarkState /\ task[t].at = "delete_secret"
    BY <1>13, TaskShapes DEF DeleteSecret, TypeOK, MarkSteps
  <2>2. [task[t] EXCEPT !.at = "remove_connection"].at \notin AlonePast /\ task[t].at \notin RenewSteps
    BY <2>1 DEF MarkState, AlonePast, RenewSteps
  <2> QED  BY <1>9, <1>13, <2>2 DEF DeleteSecret
<1>14. ASSUME NEW t \in Task, PutSecret(t)
       PROVE  LocksOrderly'
  BY <1>5, <1>6, <1>7, <1>14 DEF PutSecret
<1>15. ASSUME NEW t \in Task, task[t].at \in RenewSteps
       PROVE  /\ task[t] \in StoreState
              /\ \A at : /\ [task[t] EXCEPT !.at = at].at = at
                         /\ [task[t] EXCEPT !.at = at].key = task[t].key
              /\ task[t].at \in AlonePast => Holds(t, task[t].key)
  BY <1>15, TaskShapes DEF TypeOK, StoreState, LocksOrderly
<1>16. ASSUME NEW t \in Task, PutConnection(t)
       PROVE  LocksOrderly'
  <2>1. task[t].at \in RenewSteps /\ task[t].at = "put_connection"
    BY <1>16 DEF PutConnection, RenewSteps
  <2>2. "put_secret" \in RenewSteps \ {"check_stored"} /\ "put_secret" \notin AlonePast
    BY DEF RenewSteps, AlonePast
  <2>3. \/ Continue(t, [task[t] EXCEPT !.at = "put_secret"])
        \/ Finish(t)
    BY <1>16 DEF PutConnection
  <2> QED  BY <1>5, <1>7, <1>10, <1>15, <2>1, <2>2, <2>3
<1>17. ASSUME NEW t \in Task, LoadSecret(t)
       PROVE  LocksOrderly'
  <2> DEFINE n == Step("check_stored", task[t].key, task[t].conn, secrets[task[t].key])
  <2>1. task[t] \in LoadState
    BY <1>17, TaskShapes DEF LoadSecret, TypeOK
  <2>2. task[t].at \notin RenewSteps /\ task[t].at # "check_stored" /\ task[t].key \in Key
    BY <2>1 DEF LoadState, RenewSteps
  <2>3. n.at = "check_stored" /\ n.key = task[t].key
    BY DEF Step
  <2>4. \/ Finish(t)
        \/ \E port, conn, secret : HandOver(t, port, conn, secret)
        \/ /\ task' = [task EXCEPT ![t] = n]
           /\ renewing' = [renewing EXCEPT ![task[t].key] = Append(@, t)]
    BY <1>17 DEF LoadSecret
  <2> HIDE DEF n
  <2> QED  BY <1>5, <1>6, <1>7, <2>2, <2>3, <2>4, JoinerStep
<1>18. ASSUME NEW t \in Task, CheckStored(t)
       PROVE  LocksOrderly'
  <2>1. task[t].at = "check_stored" /\ task[t].at \in RenewSteps /\ Holds(t, task[t].key)
    BY <1>18 DEF CheckStored, MayRenew, RenewSteps
  <2>2. ~ Waiting(t)
    BY <2>1 DEF Waiting
  <2>3. \/ \E port, conn, secret : HandOver(t, port, conn, secret)
        \/ Continue(t, [task[t] EXCEPT !.at = "record_failure"])
        \/ Continue(t, [task[t] EXCEPT !.at = "refresh"])
    BY <1>18 DEF CheckStored
  <2>4. {"record_failure", "refresh"} \subseteq RenewSteps \ {"check_stored"}
    BY DEF RenewSteps
  <2> QED  BY <1>6, <1>10, <1>15, <2>1, <2>2, <2>3, <2>4
<1>19. ASSUME NEW t \in Task, Refresh(t) \/ Recheck(t)
       PROVE  LocksOrderly'
  <2>1. task[t].at \in {"refresh", "recheck"} /\ task[t].at \in RenewSteps /\ task[t].at # "check_stored"
    BY <1>19 DEF Refresh, Recheck, RenewSteps
  <2>2. task[t] \in StoreState /\ Holds(t, task[t].key)
    BY <1>15, <2>1 DEF AlonePast
  <2>3. /\ \A s : /\ [task[t] EXCEPT !.at = "recheck", !.secret = s].at = "recheck"
                  /\ [task[t] EXCEPT !.at = "recheck", !.secret = s].key = task[t].key
        /\ \A c : /\ [task[t] EXCEPT !.at = "put_connection", !.conn = c].at = "put_connection"
                  /\ [task[t] EXCEPT !.at = "put_connection", !.conn = c].key = task[t].key
        /\ [task[t] EXCEPT !.at = "record_failure"].at = "record_failure"
        /\ [task[t] EXCEPT !.at = "record_failure"].key = task[t].key
    BY <2>2 DEF StoreState
  <2>4. {"recheck", "put_connection", "record_failure"} \subseteq RenewSteps \ {"check_stored"}
    BY DEF RenewSteps
  <2>5. \/ Finish(t)
        \/ \E s : Continue(t, [task[t] EXCEPT !.at = "recheck", !.secret = s])
        \/ \E c : Continue(t, [task[t] EXCEPT !.at = "put_connection", !.conn = c])
        \/ Continue(t, [task[t] EXCEPT !.at = "record_failure"])
    BY <1>19 DEF Refresh, Recheck
  <2>6. CASE Finish(t)
    BY <1>5, <1>7, <2>1, <2>6
  <2>7. ASSUME NEW s, Continue(t, [task[t] EXCEPT !.at = "recheck", !.secret = s])
        PROVE  LocksOrderly'
    BY <1>10, <2>1, <2>2, <2>3, <2>4, <2>7
  <2>8. ASSUME NEW c, Continue(t, [task[t] EXCEPT !.at = "put_connection", !.conn = c])
        PROVE  LocksOrderly'
    <3> DEFINE n == [task[t] EXCEPT !.at = "put_connection", !.conn = c]
    <3>1. n.at = "put_connection" /\ n.key = task[t].key /\ Continue(t, n)
      BY <2>3, <2>8
    <3> HIDE DEF n
    <3> QED  BY <1>10, <2>1, <2>2, <2>4, <3>1
  <2>9. CASE Continue(t, [task[t] EXCEPT !.at = "record_failure"])
    BY <1>10, <2>1, <2>2, <2>3, <2>4, <2>9
  <2> QED  BY <2>5, <2>6, <2>7, <2>8, <2>9
<1> QED  BY <1>1, <1>2, <1>3, <1>4, <1>8, <1>11, <1>12, <1>13, <1>14, <1>16, <1>17, <1>18, <1>19
         DEF Next, ContinueRequest

LEMMA LocksAlwaysOrderly == Spec => []LocksOrderly
<1>1. Init => LocksOrderly
  BY DEF Init, LocksOrderly, InQueue, OnceEach, Idle, AlonePast
<1> QED  BY <1>1, LocksStep, VaultTypeCorrect, PTL DEF Spec

(***************************************************************************)
(* Renewals of one grant take turns, however many requests find it due,    *)
(* replace it or die.  The invariant is about the queues: nobody is in one *)
(* twice, so leaving the head of it is leaving it; and whoever is past the *)
(* re-read is at its head.                                                 *)
(***************************************************************************)
THEOREM RenewalsTakeTurnsTheorem == Spec => []RenewalsTakeTurns
<1>1. LocksOrderly => RenewalsTakeTurns
  <2> SUFFICES ASSUME LocksOrderly, NEW t \in Task, NEW u \in Task, NEW key \in Key,
                      Renewing(t, key), Renewing(u, key)
               PROVE  t = u
    BY DEF RenewalsTakeTurns
  <2>1. ASSUME NEW v \in Task, Renewing(v, key)
        PROVE  Holds(v, key)
    BY <2>1 DEF Renewing, Renewals, LocksOrderly, InQueue
  <2> QED  BY <2>1 DEF Holds
<1> QED  BY <1>1, LocksAlwaysOrderly, PTL

-----------------------------------------------------------------------------
(* Tokens that were rotated away *)

\* Nothing is removed, no request dies and no answer is lost.
Undisturbed ==
    /\ Ops \cap {"delete", "revoke", "fail", "restart"} = {}
    /\ Lossy = FALSE

\* A secret on its way to the store.
CarrySteps == {"recheck", "put_connection", "put_secret"}

\* Where the secrets of a connection are: in the store, and with the requests.
Copies ==
    {<<key, secrets[key]>> : key \in DOMAIN secrets}
    \cup {<<task[t].key, task[t].secret>> : t \in {u \in Task : task[u].at \in RenewSteps}}

\* Every copy goes back to what the provider sent once: an access token names
\* one refresh token, and a refresh token one connection.
TokensTraced ==
    /\ \A n \in spent : n <= tokens
    /\ \A c \in Copies :
          /\ c[2].access = None \/ c[2].access <= tokens
          /\ c[2].refresh = None \/ c[2].refresh <= tokens
          /\ c[2].access = None => c[2].refresh = None
    /\ \A c, d \in Copies :
          /\ c[2].access # None /\ c[2].access = d[2].access => c[2].refresh = d[2].refresh
          /\ c[2].refresh # None /\ c[2].refresh = d[2].refresh => c[1] = d[1]

\* What a renewal is about stays where it is.
NothingRemoved ==
    \A t \in Task :
        /\ task[t].at \notin {"delete_secrets", "delete_secret", "remove_connection"}
        /\ task[t].at = "load_secret" => task[t].key \in DOMAIN connections
        /\ task[t].at = "check_stored" =>
              task[t].key \in DOMAIN secrets /\ InQueue(t, renewing[task[t].key])
        /\ task[t].at \in RenewSteps /\ InQueue(t, renewing[task[t].key]) =>
              task[t].key \in DOMAIN connections

\* A secret that was not renewed, but entered or consented to, and is not stored yet.
Newcomer(t) == task[t].at \in CarrySteps /\ ~ InQueue(t, renewing[task[t].key])

\* A spent token is stored only while the renewal that spent it has still to store
\* what it got, and no other copy of it is going to be presented or stored.
SpentInTurn ==
    /\ \A t \in Task : task[t].at \in CarrySteps \cup {"refresh"} => task[t].secret.refresh \notin spent
    /\ \A key \in DOMAIN secrets :
          secrets[key].refresh \in spent =>
              \E t \in Task : /\ task[t].at \in CarrySteps /\ task[t].key = key
                              /\ InQueue(t, renewing[key])
    /\ \A t \in Task :
          Newcomer(t) /\ task[t].secret.refresh # None =>
              /\ \A key \in DOMAIN secrets : secrets[key].refresh # task[t].secret.refresh
              /\ \A u \in Task \ {t} : task[u].at \in RenewSteps =>
                    task[u].secret.refresh # task[t].secret.refresh

\* A request that joins or leaves a queue takes nobody else in or out.
OthersStay(t) ==
    \A u \in Task \ {t}, key \in Key : InQueue(u, renewing'[key]) <=> InQueue(u, renewing[key])

LEMMA QueueOthers ==
    ASSUME TypeOK, NEW t \in Task,
           \/ renewing' = renewing
           \/ renewing' = Released(t)
           \/ \E k \in Key : renewing' = [renewing EXCEPT ![k] = Append(@, t)]
    PROVE  OthersStay(t)
<1> SUFFICES ASSUME NEW u \in Task \ {t}, NEW key \in Key
             PROVE  InQueue(u, renewing'[key]) <=> InQueue(u, renewing[key])
  BY DEF OthersStay
<1>1. renewing[key] \in Seq(Task)
  BY DEF TypeOK
<1>2. CASE renewing' = Released(t)
  BY <1>1, <1>2, QueueTail DEF Released, Holds
<1>3. ASSUME NEW k \in Key, renewing' = [renewing EXCEPT ![k] = Append(@, t)]
      PROVE  InQueue(u, renewing'[key]) <=> InQueue(u, renewing[key])
  BY <1>1, <1>3, QueueAppend DEF TypeOK
<1> QED  BY <1>2, <1>3

LEMMA CopiesTyped ==
    ASSUME TypeOK, NEW c \in Copies
    PROVE  /\ c[1] \in Key /\ c[2] \in Secret
           /\ c[2].access \in Nat \cup {None} /\ c[2].refresh \in Nat \cup {None}
<1>1. ASSUME NEW key \in DOMAIN secrets, c = <<key, secrets[key]>>
      PROVE  c[1] \in Key /\ c[2] \in Secret
  BY <1>1 DEF TypeOK
<1>2. ASSUME NEW t \in Task, task[t].at \in RenewSteps, c = <<task[t].key, task[t].secret>>
      PROVE  c[1] \in Key /\ c[2] \in Secret
  BY <1>2, TaskShapes DEF TypeOK, StoreState
<1>3. c[1] \in Key /\ c[2] \in Secret
  BY <1>1, <1>2 DEF Copies
<1> QED  BY <1>3 DEF Secret

\* What a request that renews holds, and what is stored, are copies.
LEMMA IsCopy ==
    /\ \A key \in DOMAIN secrets : <<key, secrets[key]>> \in Copies
    /\ \A t \in Task : task[t].at \in RenewSteps => <<task[t].key, task[t].secret>> \in Copies
BY DEF Copies

\* A step that makes no copy of anything new.
LEMMA TracedStep ==
    ASSUME TypeOK, TypeOK', TokensTraced, Copies' \subseteq Copies, tokens <= tokens',
           \A n \in spent' : n \in spent \/ \E c \in Copies : n # None /\ n = c[2].refresh
    PROVE  TokensTraced'
<1>1. tokens \in Nat /\ tokens' \in Nat /\ spent \subseteq Nat
  BY DEF TypeOK
<1>2. \A c \in Copies : c[2].access \in Nat \cup {None} /\ c[2].refresh \in Nat \cup {None}
  BY CopiesTyped
<1>3. ASSUME NEW n \in spent'
      PROVE  n <= tokens'
  <2>1. CASE n \in spent
    <3>1. n \in Nat /\ n <= tokens
      BY <1>1, <2>1 DEF TokensTraced
    <3> QED  BY <1>1, <3>1
  <2>2. ASSUME NEW c \in Copies, n # None, n = c[2].refresh
        PROVE  n <= tokens'
    <3>1. n \in Nat /\ n <= tokens
      BY <1>2, <2>2 DEF TokensTraced
    <3> QED  BY <1>1, <3>1
  <2> QED  BY <2>1, <2>2
<1>4. \A c \in Copies' :
         /\ c[2].access = None \/ c[2].access <= tokens'
         /\ c[2].refresh = None \/ c[2].refresh <= tokens'
         /\ c[2].access = None => c[2].refresh = None
  BY <1>1, <1>2 DEF TokensTraced
<1>5. \A c, d \in Copies' :
         /\ c[2].access # None /\ c[2].access = d[2].access => c[2].refresh = d[2].refresh
         /\ c[2].refresh # None /\ c[2].refresh = d[2].refresh => c[1] = d[1]
  BY DEF TokensTraced
<1> QED  BY <1>3, <1>4, <1>5 DEF TokensTraced

\* A step that brings a new secret: one with no tokens in it, or one whose access
\* token was never seen and whose refresh token is as new or the connection's own.
Fresh(key, secret) ==
    \/ secret.access = None /\ secret.refresh = None
    \/ /\ secret.access = tokens + 1
       /\ \/ secret.refresh \in {None, tokens + 1}
          \/ \E c \in Copies : c[1] = key /\ c[2].refresh = secret.refresh

LEMMA TracedFresh ==
    ASSUME TypeOK, TokensTraced, NEW key, NEW secret, Fresh(key, secret),
           Copies' \subseteq Copies \cup {<<key, secret>>}, tokens' = tokens + 1,
           \A n \in spent' : n \in spent \/ \E c \in Copies : n # None /\ n = c[2].refresh
    PROVE  TokensTraced'
<1>1. tokens \in Nat /\ spent \subseteq Nat
  BY DEF TypeOK
<1>2. \A c \in Copies : c[2].access \in Nat \cup {None} /\ c[2].refresh \in Nat \cup {None}
  BY CopiesTyped
<1>3. ASSUME NEW n \in spent'
      PROVE  n <= tokens'
  <2>1. CASE n \in spent
    <3>1. n \in Nat /\ n <= tokens
      BY <1>1, <2>1 DEF TokensTraced
    <3> QED  BY <1>1, <3>1
  <2>2. ASSUME NEW c \in Copies, n # None, n = c[2].refresh
        PROVE  n <= tokens'
    <3>1. n \in Nat /\ n <= tokens
      BY <1>2, <2>2 DEF TokensTraced
    <3> QED  BY <1>1, <3>1
  <2> QED  BY <2>1, <2>2
<1>4. \A c \in Copies :
         /\ c[2].access = None \/ (c[2].access \in Nat /\ c[2].access <= tokens)
         /\ c[2].refresh = None \/ (c[2].refresh \in Nat /\ c[2].refresh <= tokens)
         /\ c[2].access = None => c[2].refresh = None
  BY <1>2 DEF TokensTraced
<1>5. /\ secret.access = None \/ secret.access = tokens + 1
      /\ secret.refresh = None \/ (secret.refresh \in Nat /\ secret.refresh <= tokens + 1)
      /\ secret.access = None => secret.refresh = None
  BY <1>1, <1>4, NoneAssumption DEF Fresh
<1>6. \A c \in Copies' :
         /\ c[2].access = None \/ c[2].access <= tokens'
         /\ c[2].refresh = None \/ c[2].refresh <= tokens'
         /\ c[2].access = None => c[2].refresh = None
  BY <1>1, <1>4, <1>5
<1>7. ASSUME NEW c \in Copies
      PROVE  /\ c[2].access # None => c[2].access # secret.access
             /\ c[2].refresh # None /\ c[2].refresh = secret.refresh => c[1] = key
  <2>1. c[2].access # None => c[2].access # secret.access
    BY <1>1, <1>4, <1>5
  <2>2. c[2].refresh # None => c[2].refresh # tokens + 1
    BY <1>1, <1>4
  <2>3. ASSUME NEW d \in Copies, d[1] = key, d[2].refresh = secret.refresh,
               c[2].refresh # None, c[2].refresh = secret.refresh
        PROVE  c[1] = key
    BY <2>3 DEF TokensTraced
  <2> QED  BY <2>1, <2>2, <2>3 DEF Fresh
<1>8. \A c, d \in Copies' :
         /\ c[2].access # None /\ c[2].access = d[2].access => c[2].refresh = d[2].refresh
         /\ c[2].refresh # None /\ c[2].refresh = d[2].refresh => c[1] = d[1]
  <2> SUFFICES ASSUME NEW c \in Copies', NEW d \in Copies'
               PROVE  /\ c[2].access # None /\ c[2].access = d[2].access => c[2].refresh = d[2].refresh
                      /\ c[2].refresh # None /\ c[2].refresh = d[2].refresh => c[1] = d[1]
    OBVIOUS
  <2>1. CASE c \in Copies /\ d \in Copies
    BY <2>1 DEF TokensTraced
  <2>2. CASE c = <<key, secret>> /\ d = <<key, secret>>
    BY <2>2
  <2>3. CASE c \in Copies /\ d = <<key, secret>>
    BY <1>7, <2>3
  <2>4. CASE c = <<key, secret>> /\ d \in Copies
    BY <1>7, <2>4
  <2> QED  BY <2>1, <2>2, <2>3, <2>4
<1> QED  BY <1>3, <1>6, <1>8 DEF TokensTraced

\* What one request's move does to the copies.
LEMMA CopiesMove ==
    ASSUME TypeOK, NEW t \in Task, NEW r, task' = [task EXCEPT ![t] = r], secrets' = secrets
    PROVE  /\ Copies' \subseteq Copies \cup {<<r.key, r.secret>>}
           /\ r.at \notin RenewSteps => Copies' \subseteq Copies
BY DEF TypeOK, Copies

\* What must hold for a rotated token to stay unused, and the shapes of the steps
\* that keep it: t is the request that moves, and r what it becomes.
Replayless == TokensTraced /\ NothingRemoved /\ SpentInTurn

\* No step of an undisturbed system takes a connection or a secret away.
TablesGrow ==
    DOMAIN connections \subseteq DOMAIN connections' /\ DOMAIN secrets \subseteq DOMAIN secrets'

LEMMA RemovedKept ==
    ASSUME TypeOK, NothingRemoved, TablesGrow, NEW t \in Task, NEW r,
           task' = [task EXCEPT ![t] = r], OthersStay(t),
           r.at \notin {"delete_secrets", "delete_secret", "remove_connection"},
           r.at = "load_secret" => r.key \in DOMAIN connections',
           r.at = "check_stored" => r.key \in DOMAIN secrets' /\ InQueue(t, renewing'[r.key]),
           r.at \in RenewSteps /\ InQueue(t, renewing'[r.key]) => r.key \in DOMAIN connections'
    PROVE  NothingRemoved'
<1>1. task'[t] = r
  BY DEF TypeOK
<1>2. ASSUME NEW u \in Task \ {t}
      PROVE  /\ task'[u] = task[u]
             /\ task[u].at \in RenewSteps =>
                   (InQueue(u, renewing'[task[u].key]) <=> InQueue(u, renewing[task[u].key]))
  <2>1. task[u].at \in RenewSteps => task[u].key \in Key
    BY TaskShapes DEF TypeOK, StoreState
  <2> QED  BY <2>1 DEF TypeOK, OthersStay
<1>3. "check_stored" \in RenewSteps
  BY DEF RenewSteps
<1>4. ASSUME NEW u \in Task
      PROVE  /\ task'[u].at \notin {"delete_secrets", "delete_secret", "remove_connection"}
             /\ task'[u].at = "load_secret" => task'[u].key \in DOMAIN connections'
             /\ task'[u].at = "check_stored" =>
                   task'[u].key \in DOMAIN secrets' /\ InQueue(u, renewing'[task'[u].key])
             /\ task'[u].at \in RenewSteps /\ InQueue(u, renewing'[task'[u].key]) =>
                   task'[u].key \in DOMAIN connections'
  <2>1. CASE u = t
    BY <1>1, <2>1
  <2>2. CASE u # t
    BY <1>2, <1>3, <2>2 DEF NothingRemoved, TablesGrow
  <2> QED  BY <2>1, <2>2
<1> QED  BY <1>4 DEF NothingRemoved

\* Ends, or starts something that stores nothing, not having a renewed secret to store.
LEMMA ReplaylessEnds ==
    ASSUME TypeOK, TypeOK', LocksOrderly, Replayless, TablesGrow, NEW t \in Task, NEW r,
           task' = [task EXCEPT ![t] = r], OthersStay(t), r.at \notin RenewSteps,
           r.at \notin {"delete_secrets", "delete_secret", "remove_connection"},
           r.at = "load_secret" => r.key \in DOMAIN connections',
           task[t].at \in CarrySteps => ~ InQueue(t, renewing[task[t].key]),
           UNCHANGED <<secrets, tokens, spent>>
    PROVE  Replayless'
<1> USE DEF Replayless
<1>1. TokensTraced'
  <2>1. Copies' \subseteq Copies
    BY CopiesMove
  <2>2. tokens <= tokens'
    BY DEF TypeOK
  <2> QED  BY <2>1, <2>2, TracedStep
<1>2. NothingRemoved'
  BY RemovedKept DEF RenewSteps
<1>3. SpentInTurn'
  <2>1. task'[t] = r /\ \A u \in Task \ {t} : task'[u] = task[u]
    BY DEF TypeOK
  <2>2. CarrySteps \cup {"refresh"} \subseteq RenewSteps
    BY DEF CarrySteps, RenewSteps
  <2>3. \A u \in Task \ {t} : task[u].at \in RenewSteps => task[u].key \in Key
    BY TaskShapes DEF TypeOK, StoreState
  <2>4. \A u \in Task : Newcomer(u)' => u # t /\ Newcomer(u)
    BY <2>1, <2>2, <2>3 DEF Newcomer, OthersStay
  <2>5. \A u \in Task : task'[u].at \in CarrySteps \cup {"refresh"} => task'[u].secret.refresh \notin spent'
    BY <2>1, <2>2 DEF SpentInTurn
  <2>6. ASSUME NEW key \in DOMAIN secrets', secrets'[key].refresh \in spent'
        PROVE  \E u \in Task : /\ task'[u].at \in CarrySteps /\ task'[u].key = key
                               /\ InQueue(u, renewing'[key])
    <3>1. PICK u \in Task : /\ task[u].at \in CarrySteps /\ task[u].key = key
                            /\ InQueue(u, renewing[key])
      BY <2>6 DEF SpentInTurn
    <3>2. u # t /\ key \in Key
      BY <2>6, <3>1 DEF TypeOK
    <3> QED  BY <2>1, <3>1, <3>2 DEF OthersStay
  <2>7. ASSUME NEW u \in Task, Newcomer(u)', task'[u].secret.refresh # None
        PROVE  /\ \A key \in DOMAIN secrets' : secrets'[key].refresh # task'[u].secret.refresh
               /\ \A v \in Task \ {u} : task'[v].at \in RenewSteps =>
                     task'[v].secret.refresh # task'[u].secret.refresh
    BY <2>1, <2>4, <2>7 DEF SpentInTurn
  <2> QED  BY <2>5, <2>6, <2>7 DEF SpentInTurn
<1> QED  BY <1>1, <1>2, <1>3

\* Has a secret of its own to store, from the person or from the provider.
LEMMA ReplaylessEnters ==
    ASSUME TypeOK, TypeOK', LocksOrderly, Replayless, TablesGrow, NEW t \in Task, NEW r,
           task' = [task EXCEPT ![t] = r], renewing' = renewing, task[t].at \notin RenewSteps,
           r.at = "put_connection", tokens' = tokens + 1, UNCHANGED <<secrets, spent>>,
           \/ r.secret.access = None /\ r.secret.refresh = None
           \/ r.secret.access = tokens + 1 /\ r.secret.refresh \in {None, tokens + 1}
    PROVE  Replayless'
<1> USE DEF Replayless
<1>0. OthersStay(t)
  BY QueueOthers
<1>1. TokensTraced'
  <2>1. Copies' \subseteq Copies \cup {<<r.key, r.secret>>}
    BY CopiesMove
  <2>2. Fresh(r.key, r.secret)
    BY DEF Fresh
  <2> QED  BY <2>1, <2>2, TracedFresh
<1>2. \A key \in Key : ~ InQueue(t, renewing[key])
  BY DEF LocksOrderly
<1>3. task'[t] = r /\ \A u \in Task \ {t} : task'[u] = task[u]
  BY DEF TypeOK
<1>4. r.key \in Key
  BY <1>3, TaskShapes DEF TypeOK, StoreState, RenewSteps
<1>5. NothingRemoved'
  BY <1>0, <1>2, <1>4, RemovedKept
<1>6. CarrySteps \cup {"refresh"} \subseteq RenewSteps
  BY DEF CarrySteps, RenewSteps
<1>7. tokens \in Nat /\ spent \subseteq Nat /\ tokens + 1 \notin spent /\ None \notin spent
  <2>1. tokens \in Nat /\ spent \subseteq Nat /\ None \notin spent
    BY NoneAssumption DEF TypeOK
  <2>2. \A n \in spent : n \in Nat /\ n <= tokens
    BY <2>1 DEF TokensTraced
  <2> QED  BY <2>1, <2>2
<1>8. r.secret.refresh \notin spent
  BY <1>7
<1>9. ASSUME NEW c \in Copies
      PROVE  r.secret.refresh # None => c[2].refresh # r.secret.refresh
  <2>1. c[2].refresh = None \/ (c[2].refresh \in Nat /\ c[2].refresh <= tokens)
    BY CopiesTyped DEF TokensTraced
  <2> QED  BY <1>7, <2>1
<1>10. /\ \A key \in DOMAIN secrets : r.secret.refresh # None => secrets[key].refresh # r.secret.refresh
       /\ \A u \in Task : task[u].at \in RenewSteps /\ r.secret.refresh # None =>
             task[u].secret.refresh # r.secret.refresh
  BY <1>9, IsCopy
<1>11. SpentInTurn'
  <2>1. \A u \in Task : task'[u].at \in CarrySteps \cup {"refresh"} => task'[u].secret.refresh \notin spent'
    BY <1>3, <1>8 DEF SpentInTurn
  <2>2. ASSUME NEW key \in DOMAIN secrets', secrets'[key].refresh \in spent'
        PROVE  \E u \in Task : /\ task'[u].at \in CarrySteps /\ task'[u].key = key
                               /\ InQueue(u, renewing'[key])
    <3>1. PICK u \in Task : /\ task[u].at \in CarrySteps /\ task[u].key = key
                            /\ InQueue(u, renewing[key])
      BY <2>2 DEF SpentInTurn
    <3>2. u # t
      BY <1>6, <3>1
    <3> QED  BY <1>3, <3>1, <3>2
  <2>3. ASSUME NEW u \in Task, Newcomer(u)', task'[u].secret.refresh # None
        PROVE  /\ \A key \in DOMAIN secrets' : secrets'[key].refresh # task'[u].secret.refresh
               /\ \A v \in Task \ {u} : task'[v].at \in RenewSteps =>
                     task'[v].secret.refresh # task'[u].secret.refresh
    <3>1. CASE u = t
      BY <1>3, <1>10, <2>3, <3>1
    <3>2. CASE u # t
      <4>1. Newcomer(u) /\ task'[u] = task[u] /\ task[u].at \in RenewSteps
        BY <1>3, <1>6, <2>3, <3>2 DEF Newcomer
      <4>2. task[u].secret.refresh # r.secret.refresh
        BY <1>10, <2>3, <4>1
      <4> QED  BY <1>3, <2>3, <4>1, <4>2 DEF SpentInTurn
    <3> QED  BY <3>1, <3>2
  <2> QED  BY <2>1, <2>2, <2>3 DEF SpentInTurn
<1> QED  BY <1>1, <1>5, <1>11

\* Takes a copy of what is stored into the queue.
LEMMA ReplaylessJoins ==
    ASSUME TypeOK, TypeOK', LocksOrderly, Replayless, TablesGrow, NEW t \in Task, NEW r,
           task' = [task EXCEPT ![t] = r], task[t].at = "load_secret",
           r.key = task[t].key, r.at = "check_stored", r.key \in DOMAIN secrets,
           r.secret = secrets[r.key],
           renewing' = [renewing EXCEPT ![r.key] = Append(@, t)],
           UNCHANGED <<secrets, tokens, spent>>
    PROVE  Replayless'
<1> USE DEF Replayless
<1>0. r.key \in Key /\ OthersStay(t)
  BY QueueOthers DEF TypeOK
<1>1. TokensTraced'
  <2>1. Copies' \subseteq Copies
    <3>1. Copies' \subseteq Copies \cup {<<r.key, r.secret>>}
      BY CopiesMove
    <3>2. <<r.key, r.secret>> \in Copies
      BY IsCopy
    <3> QED  BY <3>1, <3>2
  <2>2. tokens <= tokens'
    BY DEF TypeOK
  <2> QED  BY <2>1, <2>2, TracedStep
<1>2. InQueue(t, renewing'[r.key])
  BY <1>0, QueueAppend DEF TypeOK
<1>3. r.key \in DOMAIN connections'
  BY DEF NothingRemoved, TablesGrow
<1>4. NothingRemoved'
  BY <1>0, <1>2, <1>3, RemovedKept
<1>5. task'[t] = r /\ \A u \in Task \ {t} : task'[u] = task[u]
  BY DEF TypeOK
<1>6. /\ r.at \notin CarrySteps \cup {"refresh"} /\ task[t].at \notin CarrySteps
      /\ CarrySteps \subseteq RenewSteps
  BY DEF CarrySteps, RenewSteps
<1>7. SpentInTurn'
  <2>1. \A u \in Task : task'[u].at \in CarrySteps \cup {"refresh"} => task'[u].secret.refresh \notin spent'
    BY <1>5, <1>6 DEF SpentInTurn
  <2>2. ASSUME NEW key \in DOMAIN secrets', secrets'[key].refresh \in spent'
        PROVE  \E u \in Task : /\ task'[u].at \in CarrySteps /\ task'[u].key = key
                               /\ InQueue(u, renewing'[key])
    <3>1. PICK u \in Task : /\ task[u].at \in CarrySteps /\ task[u].key = key
                            /\ InQueue(u, renewing[key])
      BY <2>2 DEF SpentInTurn
    <3>2. u # t /\ key \in Key
      BY <1>6, <2>2, <3>1 DEF TypeOK
    <3> QED  BY <1>0, <1>5, <3>1, <3>2 DEF OthersStay
  <2>3. ASSUME NEW u \in Task, Newcomer(u)', task'[u].secret.refresh # None
        PROVE  /\ \A key \in DOMAIN secrets' : secrets'[key].refresh # task'[u].secret.refresh
               /\ \A v \in Task \ {u} : task'[v].at \in RenewSteps =>
                     task'[v].secret.refresh # task'[u].secret.refresh
    <3>1. u # t /\ task'[u] = task[u] /\ task[u].at \in CarrySteps
      BY <1>5, <1>6, <2>3 DEF Newcomer
    <3>2. task[u].key \in Key
      BY <1>6, <3>1, TaskShapes DEF TypeOK, StoreState
    <3>3. Newcomer(u)
      BY <1>0, <2>3, <3>1, <3>2 DEF Newcomer, OthersStay
    <3> QED  BY <1>5, <2>3, <3>1, <3>3 DEF SpentInTurn
  <2> QED  BY <2>1, <2>2, <2>3 DEF SpentInTurn
<1> QED  BY <1>1, <1>4, <1>7

\* Goes on with the same secret, which is to be presented or stored only if unspent.
LEMMA ReplaylessGoesOn ==
    ASSUME TypeOK, TypeOK', LocksOrderly, Replayless, TablesGrow, NEW t \in Task, NEW r,
           task' = [task EXCEPT ![t] = r], renewing' = renewing,
           task[t].at \in RenewSteps, r.at \in RenewSteps \ {"check_stored"},
           r.key = task[t].key, r.secret = task[t].secret,
           task[t].at \in CarrySteps => r.at \in CarrySteps,
           r.at \in CarrySteps => task[t].at \in CarrySteps,
           r.at = "refresh" => r.secret.refresh \notin spent,
           UNCHANGED <<secrets, tokens, spent>>
    PROVE  Replayless'
<1> USE DEF Replayless
<1>0. OthersStay(t)
  BY QueueOthers
<1>1. TokensTraced'
  <2>1. Copies' \subseteq Copies
    BY CopiesMove, IsCopy
  <2>2. tokens <= tokens'
    BY DEF TypeOK
  <2> QED  BY <2>1, <2>2, TracedStep
<1>2. r.at # "load_secret" /\ r.at # "check_stored"
      /\ r.at \notin {"delete_secrets", "delete_secret", "remove_connection"}
  BY DEF RenewSteps
<1>3. InQueue(t, renewing'[r.key]) => r.key \in DOMAIN connections'
  BY DEF NothingRemoved, TablesGrow
<1>4. NothingRemoved'
  BY <1>0, <1>2, <1>3, RemovedKept
<1>5. task'[t] = r /\ \A u \in Task \ {t} : task'[u] = task[u]
  BY DEF TypeOK
<1>6. SpentInTurn'
  <2>1. \A u \in Task : task'[u].at \in CarrySteps \cup {"refresh"} => task'[u].secret.refresh \notin spent'
    BY <1>5 DEF SpentInTurn
  <2>2. ASSUME NEW key \in DOMAIN secrets', secrets'[key].refresh \in spent'
        PROVE  \E u \in Task : /\ task'[u].at \in CarrySteps /\ task'[u].key = key
                               /\ InQueue(u, renewing'[key])
    <3>1. PICK u \in Task : /\ task[u].at \in CarrySteps /\ task[u].key = key
                            /\ InQueue(u, renewing[key])
      BY <2>2 DEF SpentInTurn
    <3> QED  BY <1>5, <3>1
  <2>3. ASSUME NEW u \in Task, Newcomer(u)', task'[u].secret.refresh # None
        PROVE  /\ \A key \in DOMAIN secrets' : secrets'[key].refresh # task'[u].secret.refresh
               /\ \A v \in Task \ {u} : task'[v].at \in RenewSteps =>
                     task'[v].secret.refresh # task'[u].secret.refresh
    <3>1. Newcomer(u) /\ task[u].secret = task'[u].secret
      BY <1>5, <2>3 DEF Newcomer
    <3>2. \A v \in Task : task'[v].at \in RenewSteps =>
             task[v].at \in RenewSteps /\ task[v].secret = task'[v].secret
      BY <1>5
    <3> QED  BY <2>3, <3>1, <3>2 DEF SpentInTurn
  <2> QED  BY <2>1, <2>2, <2>3 DEF SpentInTurn
<1> QED  BY <1>1, <1>4, <1>6

\* The token that the holder of the lock is about to present is nobody else's to
\* present or to store.
LEMMA HolderAlone ==
    ASSUME TypeOK, LocksOrderly, Replayless, NEW t \in Task, task[t].at = "refresh",
           task[t].secret.refresh # None, NEW u \in Task \ {t},
           task[u].at \in CarrySteps \cup {"refresh"}
    PROVE  task[u].secret.refresh # task[t].secret.refresh
<1> SUFFICES ASSUME task[u].secret.refresh = task[t].secret.refresh
             PROVE  FALSE
  OBVIOUS
<1>1. task[t].at \in RenewSteps /\ task[u].at \in RenewSteps
  BY DEF RenewSteps, CarrySteps
<1>2. task[u].key = task[t].key /\ task[t].key \in Key
  <2>1. <<task[u].key, task[u].secret>> \in Copies /\ <<task[t].key, task[t].secret>> \in Copies
    BY <1>1, IsCopy
  <2>2. \A c, d \in Copies : c[2].refresh # None /\ c[2].refresh = d[2].refresh => c[1] = d[1]
    BY DEF Replayless, TokensTraced
  <2>3. <<task[u].key, task[u].secret>>[1] = <<task[t].key, task[t].secret>>[1]
    BY <2>1, <2>2
  <2>4. task[t].key \in Key
    BY <1>1, TaskShapes DEF TypeOK, StoreState
  <2> QED  BY <2>3, <2>4
<1>3. Holds(t, task[t].key)
  BY DEF LocksOrderly, AlonePast
<1>4. CASE task[u].at = "refresh"
  <2>1. Holds(u, task[u].key)
    BY <1>4 DEF LocksOrderly, AlonePast
  <2> QED  BY <1>2, <1>3, <2>1 DEF Holds
<1>5. CASE task[u].at \in CarrySteps /\ InQueue(u, renewing[task[u].key])
  <2>1. Holds(u, task[u].key)
    BY <1>2, <1>5 DEF LocksOrderly, CarrySteps
  <2> QED  BY <1>2, <1>3, <2>1 DEF Holds
<1>6. CASE Newcomer(u)
  BY <1>1, <1>6 DEF Replayless, SpentInTurn
<1> QED  BY <1>4, <1>5, <1>6 DEF Newcomer

\* Gets an answer of the provider, which may have rotated the token.
LEMMA ReplaylessRenews ==
    ASSUME TypeOK, TypeOK', LocksOrderly, Replayless, TablesGrow, RefreshHasToken,
           NEW t \in Task, NEW r,
           task' = [task EXCEPT ![t] = r], renewing' = renewing, task[t].at = "refresh",
           r.at = "recheck", r.key = task[t].key, r.secret.access = tokens + 1,
           task[t].secret.refresh \notin spent, tokens' = tokens + 1, secrets' = secrets,
           \/ r.secret.refresh = task[t].secret.refresh /\ spent' = spent
           \/ r.secret.refresh = tokens + 1 /\ spent' = spent \cup {task[t].secret.refresh}
    PROVE  Replayless'
<1> USE DEF Replayless
<1> DEFINE old == task[t].secret.refresh
<1>1. task[t].at \in RenewSteps /\ <<r.key, task[t].secret>> \in Copies /\ old # None
  <2>1. task[t].at \in RenewSteps
    BY DEF RenewSteps
  <2> QED  BY <2>1, IsCopy DEF RefreshHasToken
<1>2. OthersStay(t)
  BY QueueOthers
<1>3. TokensTraced'
  <2>1. Copies' \subseteq Copies \cup {<<r.key, r.secret>>}
    BY CopiesMove
  <2>2. <<r.key, task[t].secret>>[1] = r.key /\ <<r.key, task[t].secret>>[2].refresh = old
    OBVIOUS
  <2>3. Fresh(r.key, r.secret)
    BY <1>1, <2>2 DEF Fresh
  <2>4. \A n \in spent' : n \in spent \/ \E c \in Copies : n # None /\ n = c[2].refresh
    BY <1>1, <2>2
  <2> QED  BY <2>1, <2>3, <2>4, TracedFresh
<1>4. Holds(t, r.key) /\ r.key \in Key
  BY <1>1, TaskShapes DEF LocksOrderly, AlonePast, TypeOK, StoreState
<1>5. InQueue(t, renewing[r.key])
  <2>1. renewing[r.key] \in Seq(Task) /\ renewing[r.key] # <<>> /\ renewing[r.key][1] = t
    BY <1>4 DEF Holds, TypeOK
  <2>2. 1 \in 1 .. Len(renewing[r.key])
    BY <2>1
  <2> QED  BY <2>1, <2>2 DEF InQueue
<1>6. NothingRemoved'
  <2>1. r.key \in DOMAIN connections'
    BY <1>1, <1>5 DEF NothingRemoved, TablesGrow
  <2> QED  BY <1>2, <2>1, RemovedKept
<1>7. task'[t] = r /\ \A u \in Task \ {t} : task'[u] = task[u]
  BY DEF TypeOK
<1>8. /\ tokens \in Nat /\ old \in Nat /\ old <= tokens
      /\ \A n \in spent : n \in Nat /\ n <= tokens
  <2>1. <<r.key, task[t].secret>>[2].refresh = old
    OBVIOUS
  <2>2. old \in Nat /\ old <= tokens
    BY <1>1, <2>1, CopiesTyped DEF TokensTraced
  <2> QED  BY <2>2 DEF TypeOK, TokensTraced
<1>9. tokens + 1 \notin spent \cup {old}
  BY <1>8
<1>10. \A c \in Copies : c[2].refresh = None \/ (c[2].refresh \in Nat /\ c[2].refresh <= tokens)
  BY CopiesTyped DEF TokensTraced
<1>11. CarrySteps \cup {"refresh"} \subseteq RenewSteps /\ r.at \in CarrySteps
       /\ task[t].at \notin CarrySteps
  BY DEF CarrySteps, RenewSteps
<1>12. SpentInTurn'
  <2>1. ASSUME NEW u \in Task, task'[u].at \in CarrySteps \cup {"refresh"}
        PROVE  task'[u].secret.refresh \notin spent'
    <3>1. CASE u = t
      BY <1>7, <1>9, <3>1
    <3>2. CASE u # t
      BY <1>1, <1>7, <2>1, <3>2, HolderAlone DEF SpentInTurn
    <3> QED  BY <3>1, <3>2
  <2>2. ASSUME NEW key \in DOMAIN secrets', secrets'[key].refresh \in spent'
        PROVE  \E u \in Task : /\ task'[u].at \in CarrySteps /\ task'[u].key = key
                               /\ InQueue(u, renewing'[key])
    <3>1. CASE secrets[key].refresh = old
      <4>1. <<key, secrets[key]>> \in Copies
        BY <2>2, IsCopy
      <4>2. \A c, d \in Copies : c[2].refresh # None /\ c[2].refresh = d[2].refresh => c[1] = d[1]
        BY DEF TokensTraced
      <4>3. <<key, secrets[key]>>[1] = <<r.key, task[t].secret>>[1]
        BY <1>1, <3>1, <4>1, <4>2
      <4> QED  BY <1>5, <1>7, <1>11, <4>3
    <3>2. CASE secrets[key].refresh \in spent
      <4>1. PICK u \in Task : /\ task[u].at \in CarrySteps /\ task[u].key = key
                              /\ InQueue(u, renewing[key])
        BY <2>2, <3>2 DEF SpentInTurn
      <4> QED  BY <1>7, <1>11, <4>1
    <3> QED  BY <2>2, <3>1, <3>2
  <2>3. ASSUME NEW u \in Task, Newcomer(u)', task'[u].secret.refresh # None
        PROVE  /\ \A key \in DOMAIN secrets' : secrets'[key].refresh # task'[u].secret.refresh
               /\ \A v \in Task \ {u} : task'[v].at \in RenewSteps =>
                     task'[v].secret.refresh # task'[u].secret.refresh
    <3>1. u # t
      BY <1>5, <1>7, <2>3 DEF Newcomer
    <3>2. Newcomer(u) /\ task'[u] = task[u] /\ task[u].at \in RenewSteps
      BY <1>7, <1>11, <2>3, <3>1 DEF Newcomer
    <3>3. /\ \A key \in DOMAIN secrets : secrets[key].refresh # task[u].secret.refresh
          /\ \A v \in Task \ {u} : task[v].at \in RenewSteps =>
                task[v].secret.refresh # task[u].secret.refresh
      BY <2>3, <3>2 DEF SpentInTurn
    <3>4. r.secret.refresh # task[u].secret.refresh
      <4>1. <<task[u].key, task[u].secret>> \in Copies
        BY <3>2, IsCopy
      <4>2. task[u].secret.refresh \in Nat /\ task[u].secret.refresh <= tokens
        BY <1>10, <2>3, <3>2, <4>1
      <4>3. task[u].secret.refresh # old
        BY <1>1, <3>1, <3>3
      <4> QED  BY <1>8, <4>2, <4>3
    <3> QED  BY <1>7, <3>1, <3>2, <3>3, <3>4
  <2> QED  BY <2>1, <2>2, <2>3 DEF SpentInTurn
<1> QED  BY <1>3, <1>6, <1>12

\* Stores what it carries, and is done.
LEMMA ReplaylessStores ==
    ASSUME TypeOK, TypeOK', LocksOrderly, Replayless, TablesGrow, NEW t \in Task, NEW r,
           task' = [task EXCEPT ![t] = r], OthersStay(t), r.at \in {"idle", "answer"},
           task[t].at = "put_secret", secrets' = Put(secrets, task[t].key, task[t].secret),
           UNCHANGED <<tokens, spent>>
    PROVE  Replayless'
<1> USE DEF Replayless
<1> DEFINE k == task[t].key
           s == task[t].secret
<1>1. task'[t] = r /\ \A u \in Task \ {t} : task'[u] = task[u]
  BY DEF TypeOK
<1>2. task[t].at \in RenewSteps /\ task[t].at \in CarrySteps /\ r.at \notin RenewSteps
      /\ CarrySteps \cup {"refresh"} \subseteq RenewSteps
  BY DEF RenewSteps, CarrySteps
<1>3. /\ DOMAIN secrets' = DOMAIN secrets \cup {k} /\ secrets'[k] = s
      /\ \A key \in DOMAIN secrets : key # k => secrets'[key] = secrets[key]
  BY DEF Put
<1>4. TokensTraced'
  <2>1. \A key \in DOMAIN secrets' : <<key, secrets'[key]>> \in Copies
    BY <1>2, <1>3, IsCopy
  <2>2. \A u \in Task : task'[u].at \in RenewSteps => <<task'[u].key, task'[u].secret>> \in Copies
    BY <1>1, <1>2, IsCopy
  <2>3. Copies' \subseteq Copies
    BY <2>1, <2>2 DEF Copies
  <2>4. tokens <= tokens'
    BY DEF TypeOK
  <2> QED  BY <2>3, <2>4, TracedStep
<1>5. NothingRemoved'
  BY <1>2, RemovedKept
<1>6. SpentInTurn'
  <2>1. \A u \in Task : task'[u].at \in CarrySteps \cup {"refresh"} => task'[u].secret.refresh \notin spent'
    BY <1>1, <1>2 DEF SpentInTurn
  <2>2. ASSUME NEW key \in DOMAIN secrets', secrets'[key].refresh \in spent'
        PROVE  \E u \in Task : /\ task'[u].at \in CarrySteps /\ task'[u].key = key
                               /\ InQueue(u, renewing'[key])
    <3>1. s.refresh \notin spent
      BY <1>2 DEF SpentInTurn
    <3>2. key # k /\ key \in DOMAIN secrets /\ secrets[key].refresh \in spent /\ key \in Key
      BY <1>3, <2>2, <3>1 DEF TypeOK
    <3>3. PICK u \in Task : /\ task[u].at \in CarrySteps /\ task[u].key = key
                            /\ InQueue(u, renewing[key])
      BY <3>2 DEF SpentInTurn
    <3> QED  BY <1>1, <3>2, <3>3 DEF OthersStay
  <2>3. ASSUME NEW u \in Task, Newcomer(u)', task'[u].secret.refresh # None
        PROVE  /\ \A key \in DOMAIN secrets' : secrets'[key].refresh # task'[u].secret.refresh
               /\ \A v \in Task \ {u} : task'[v].at \in RenewSteps =>
                     task'[v].secret.refresh # task'[u].secret.refresh
    <3>1. u # t /\ task'[u] = task[u] /\ task[u].at \in CarrySteps
      BY <1>1, <1>2, <2>3 DEF Newcomer
    <3>2. task[u].key \in Key
      BY <1>2, <3>1, TaskShapes DEF TypeOK, StoreState
    <3>3. Newcomer(u)
      BY <2>3, <3>1, <3>2 DEF Newcomer, OthersStay
    <3>4. /\ \A key \in DOMAIN secrets : secrets[key].refresh # task[u].secret.refresh
          /\ \A v \in Task \ {u} : task[v].at \in RenewSteps =>
                task[v].secret.refresh # task[u].secret.refresh
      BY <2>3, <3>1, <3>3 DEF SpentInTurn
    <3>5. s.refresh # task[u].secret.refresh
      BY <1>2, <3>1, <3>4
    <3> QED  BY <1>1, <1>2, <1>3, <3>1, <3>4, <3>5
  <2> QED  BY <2>1, <2>2, <2>3 DEF SpentInTurn
<1> QED  BY <1>4, <1>5, <1>6

\* The tables grow, as long as nothing is deleted or revoked.
LEMMA GrowStep ==
    ASSUME TypeOK, Undisturbed, NothingRemoved, [Next]_vars
    PROVE  TablesGrow
<1> USE DEF tables
<1>1. CASE UNCHANGED vars
  BY <1>1 DEF vars, TablesGrow
<1>2. CASE PurgeFlows \/ Tick \/ Restart \/ \E p \in Profile : CreateProfile(p)
  BY <1>2 DEF PurgeFlows, Tick, Restart, CreateProfile, TablesGrow
<1>3. ASSUME NEW t \in Task, StartRequest(t)
      PROVE  TablesGrow
  <2>1. \A p \in Profile : ~ DeleteProfile(t, p)
    BY DEF DeleteProfile, Start, Undisturbed
  <2> QED  BY <1>3, <2>1 DEF StartRequest, PutDirect, Resolve, Revoke, BeginAuthorization, Redeem,
                             TablesGrow
<1>4. ASSUME NEW t \in Task, ContinueRequest(t) \/ Fail(t)
      PROVE  TablesGrow
  <2>1. ~ DeleteSecrets(t) /\ ~ DeleteSecret(t) /\ ~ RemoveConnection(t)
    BY DEF NothingRemoved, DeleteSecrets, DeleteSecret, RemoveConnection
  <2>2. CASE FindProfile(t) \/ ExchangeCode(t) \/ LoadSecret(t) \/ Answer(t) \/ CheckStored(t)
             \/ Refresh(t) \/ Recheck(t) \/ Fail(t)
    BY <2>2 DEF FindProfile, ExchangeCode, LoadSecret, Answer, CheckStored, Refresh, Recheck, Fail,
                TablesGrow
  <2>3. CASE PutConnection(t) \/ PutSecret(t) \/ PutPending(t) \/ RecordFailure(t)
    BY <2>3 DEF PutConnection, PutSecret, PutPending, RecordFailure, Put, TablesGrow
  <2> QED  BY <1>4, <2>1, <2>2, <2>3 DEF ContinueRequest
<1> QED  BY <1>1, <1>2, <1>3, <1>4 DEF Next

\* Every step of an undisturbed system is one of those.
LEMMA ReplaylessStep ==
    ASSUME TypeOK, TypeOK', RefreshHasToken, LocksOrderly, Replayless, Undisturbed, [Next]_vars
    PROVE  Replayless'
<1>0. TablesGrow
  BY GrowStep DEF Replayless
<1>1. ASSUME UNCHANGED <<secrets, tokens, spent, task, renewing>>
      PROVE  Replayless'
  <2>1. TokensTraced'
    BY <1>1 DEF Replayless, TokensTraced, Copies
  <2>2. NothingRemoved'
    BY <1>0, <1>1 DEF Replayless, NothingRemoved, TablesGrow
  <2>3. SpentInTurn'
    BY <1>1 DEF Replayless, SpentInTurn, Newcomer
  <2> QED  BY <2>1, <2>2, <2>3 DEF Replayless
<1>2. CASE PurgeFlows \/ Tick \/ (\E p \in Profile : CreateProfile(p)) \/ UNCHANGED vars
  BY <1>1, <1>2 DEF PurgeFlows, Tick, CreateProfile, vars, tables, provider
<1>3. ~ Restart /\ \A t \in Task : ~ Fail(t)
  BY DEF Restart, Fail, Undisturbed
<1>4. ASSUME NEW t \in Task, NEW r, task' = [task EXCEPT ![t] = r], r.at \notin RenewSteps,
             renewing' = renewing \/ renewing' = Released(t),
             r.at \notin {"delete_secrets", "delete_secret", "remove_connection"},
             r.at = "load_secret" => r.key \in DOMAIN connections,
             task[t].at \in CarrySteps => ~ InQueue(t, renewing[task[t].key]),
             UNCHANGED <<secrets, tokens, spent>>
      PROVE  Replayless'
  <2>1. OthersStay(t)
    BY <1>4, QueueOthers
  <2>2. r.at = "load_secret" => r.key \in DOMAIN connections'
    BY <1>0, <1>4 DEF TablesGrow
  <2> QED  BY <1>0, <1>4, <2>1, <2>2, ReplaylessEnds
<1>5. ASSUME NEW t \in Task, Finish(t) \/ Continue(t, Idle), UNCHANGED <<secrets, tokens, spent>>,
             task[t].at \in CarrySteps => ~ InQueue(t, renewing[task[t].key])
      PROVE  Replayless'
  <2>1. Idle.at = "idle"
    BY DEF Idle
  <2> HIDE DEF Idle
  <2> QED  BY <1>4, <1>5, <2>1 DEF Finish, Continue, RenewSteps
<1>6. ASSUME NEW t \in Task, NEW port, NEW conn, NEW secret, HandOver(t, port, conn, secret),
             UNCHANGED <<secrets, tokens, spent>>, task[t].at \notin CarrySteps
      PROVE  Replayless'
  <2> DEFINE r == IF Serves(port, conn) /\ Requires(conn, secret)
                  THEN [at |-> "answer", port |-> port, carries |-> secret.kind] ELSE Idle
  <2>1. r.at \in {"idle", "answer"}
    BY DEF Idle
  <2>2. task' = [task EXCEPT ![t] = r] /\ renewing' = Released(t)
    BY <1>6 DEF HandOver
  <2> HIDE DEF r
  <2> QED  BY <1>4, <1>6, <2>1, <2>2 DEF RenewSteps
<1>7. ASSUME NEW t \in Task, StartRequest(t)
      PROVE  Replayless'
  <2>0. task[t].at \notin RenewSteps /\ task[t].at \notin CarrySteps /\ renewing' = renewing
    BY <1>7, StartStates DEF Idle, RenewSteps, CarrySteps
  <2>1. ASSUME NEW key \in Key, NEW kind \in Kind, PutDirect(t, key, kind)
        PROVE  Replayless'
    <3> DEFINE s == [kind |-> kind, access |-> None, refresh |-> None, grant |-> tokens']
               r == Step("put_connection", key, DirectConnection(kind), s)
    <3>1. /\ task' = [task EXCEPT ![t] = r] /\ tokens' = tokens + 1 /\ UNCHANGED <<secrets, spent>>
      BY <2>1 DEF PutDirect, Start, tables
    <3>2. r.at = "put_connection" /\ r.secret.access = None /\ r.secret.refresh = None
      BY DEF Step
    <3> HIDE DEF r
    <3> QED  BY <1>0, <2>0, <3>1, <3>2, ReplaylessEnters
  <2>2. ASSUME NEW key \in Key, NEW port \in Port, Resolve(t, key, port)
        PROVE  Replayless'
    <3> DEFINE r == [at |-> "load_secret", key |-> key, conn |-> connections[key], port |-> port]
    <3>1. /\ task' = [task EXCEPT ![t] = r] /\ UNCHANGED <<secrets, tokens, spent>>
          /\ key \in DOMAIN connections
      BY <2>2 DEF Resolve, Start, tables, provider
    <3>2. r.at = "load_secret" /\ r.key = key
      OBVIOUS
    <3> HIDE DEF r
    <3> QED  BY <1>4, <2>0, <3>1, <3>2 DEF RenewSteps
  <2>3. ASSUME NEW key \in Key, NEW st \in State, BeginAuthorization(t, key, st)
        PROVE  Replayless'
    <3>1. /\ \/ task' = [task EXCEPT ![t] = Idle]
             \/ task' = [task EXCEPT ![t] = Step("put_pending", key, Pending, None)]
          /\ UNCHANGED <<secrets, tokens, spent>>
      BY <2>3 DEF BeginAuthorization, Start, tables, provider
    <3>2. Idle.at = "idle" /\ Step("put_pending", key, Pending, None).at = "put_pending"
      BY DEF Idle, Step
    <3> QED  BY <1>4, <2>0, <3>1, <3>2 DEF RenewSteps
  <2>4. ASSUME NEW st \in State, Redeem(t, st)
        PROVE  Replayless'
    <3>1. /\ \/ task' = [task EXCEPT ![t] = Idle]
             \/ task' = [task EXCEPT ![t] =
                    [at |-> "find_profile", key |-> flows[st].key, state |-> st]]
          /\ UNCHANGED <<secrets, tokens, spent>>
      BY <2>4 DEF Redeem, Start, tables, provider
    <3>2. Idle.at = "idle"
      BY DEF Idle
    <3> QED  BY <1>4, <2>0, <3>1, <3>2 DEF RenewSteps
  <2>5. /\ \A key \in Key : ~ Revoke(t, key)
        /\ \A p \in Profile : ~ DeleteProfile(t, p)
    BY DEF Revoke, DeleteProfile, Start, Undisturbed
  <2> QED  BY <1>7, <2>1, <2>2, <2>3, <2>4, <2>5 DEF StartRequest
<1>8. ASSUME NEW t \in Task, task[t].at \in RenewSteps
      PROVE  /\ task[t] \in StoreState /\ task[t].key \in Key
             /\ \A at : /\ [task[t] EXCEPT !.at = at].at = at
                        /\ [task[t] EXCEPT !.at = at].key = task[t].key
                        /\ [task[t] EXCEPT !.at = at].secret = task[t].secret
  BY <1>8, TaskShapes DEF TypeOK, StoreState
<1>9. ASSUME NEW t \in Task, PutPending(t) \/ Answer(t) \/ RecordFailure(t)
      PROVE  Replayless'
  <2>1. task[t].at \notin CarrySteps /\ UNCHANGED <<secrets, tokens, spent>> /\ Finish(t)
    BY <1>9 DEF PutPending, Answer, RecordFailure, CarrySteps, tables, provider
  <2> QED  BY <1>5, <2>1
<1>10. ASSUME NEW t \in Task, DeleteSecrets(t) \/ DeleteSecret(t) \/ RemoveConnection(t)
       PROVE  FALSE
  BY <1>10 DEF Replayless, NothingRemoved, DeleteSecrets, DeleteSecret, RemoveConnection
<1>11. ASSUME NEW t \in Task, FindProfile(t)
       PROVE  Replayless'
  <2>1. task[t] \in FlowState
    BY <1>11, TaskShapes DEF FindProfile, TypeOK
  <2> DEFINE r == [task[t] EXCEPT !.at = "exchange"]
  <2>2. r.at = "exchange" /\ task[t].at \notin CarrySteps
    BY <2>1 DEF FlowState, CarrySteps
  <2>3. Continue(t, r) \/ Continue(t, Idle)
    BY <1>11 DEF FindProfile
  <2>4. UNCHANGED <<secrets, tokens, spent>>
    BY <1>11 DEF FindProfile, tables, provider
  <2> HIDE DEF r
  <2> QED  BY <1>4, <1>5, <2>2, <2>3, <2>4 DEF Continue, RenewSteps
<1>12. ASSUME NEW t \in Task, ExchangeCode(t)
       PROVE  Replayless'
  <2>1. task[t].at \notin RenewSteps /\ task[t].at \notin CarrySteps /\ UNCHANGED <<secrets, spent>>
    BY <1>12 DEF ExchangeCode, RenewSteps, CarrySteps, tables
  <2>2. CASE Finish(t) /\ UNCHANGED tokens
    BY <1>5, <2>1, <2>2
  <2>3. ASSUME NEW f \in {tokens', None}, tokens' = tokens + 1,
               Continue(t, Step("put_connection", task[t].key, ActiveConnection,
                                [kind |-> "oauth2", access |-> tokens', refresh |-> f,
                                 grant |-> tokens']))
        PROVE  Replayless'
    <3> DEFINE s == [kind |-> "oauth2", access |-> tokens', refresh |-> f, grant |-> tokens']
               r == Step("put_connection", task[t].key, ActiveConnection, s)
    <3>1. r.at = "put_connection" /\ r.secret.access = tokens + 1 /\ r.secret.refresh \in {None, tokens + 1}
      BY <2>3 DEF Step
    <3>2. task' = [task EXCEPT ![t] = r] /\ renewing' = renewing
      BY <2>3 DEF Continue
    <3> HIDE DEF r
    <3> QED  BY <1>0, <2>1, <2>3, <3>1, <3>2, ReplaylessEnters
  <2> QED  BY <1>12, <2>2, <2>3 DEF ExchangeCode
<1>13. ASSUME NEW t \in Task, LoadSecret(t)
       PROVE  Replayless'
  <2> DEFINE r == Step("check_stored", task[t].key, task[t].conn, secrets[task[t].key])
  <2>1. task[t].at = "load_secret" /\ task[t].at \notin CarrySteps /\ UNCHANGED <<secrets, tokens, spent>>
    BY <1>13 DEF LoadSecret, CarrySteps, tables, provider
  <2>2. /\ r.at = "check_stored" /\ r.key = task[t].key /\ r.secret = secrets[task[t].key]
    BY DEF Step
  <2>3. \/ Finish(t)
        \/ \E port, conn, secret : HandOver(t, port, conn, secret)
        \/ /\ task' = [task EXCEPT ![t] = r] /\ task[t].key \in DOMAIN secrets
           /\ renewing' = [renewing EXCEPT ![task[t].key] = Append(@, t)]
    BY <1>13 DEF LoadSecret
  <2> HIDE DEF r
  <2> QED  BY <1>0, <1>5, <1>6, <2>1, <2>2, <2>3, ReplaylessJoins
<1>14. ASSUME NEW t \in Task, CheckStored(t)
       PROVE  Replayless'
  <2>1. /\ task[t].at = "check_stored" /\ task[t].at \in RenewSteps /\ task[t].at \notin CarrySteps
        /\ Holds(t, task[t].key) /\ UNCHANGED <<secrets, tokens, spent>>
    BY <1>14 DEF CheckStored, MayRenew, RenewSteps, CarrySteps, tables, provider
  <2>2. CASE StoredByAnother(task[t])
    BY <1>6, <1>14, <2>1, <2>2 DEF CheckStored
  <2>3. CASE ~ StoredByAnother(task[t])
    <3> DEFINE at == IF task[t].secret.refresh = None THEN "record_failure" ELSE "refresh"
               r  == [task[t] EXCEPT !.at = at]
    <3>1. /\ r.at = at /\ r.key = task[t].key /\ r.secret = task[t].secret
          /\ task[t].key \in Key
      BY <1>8, <2>1
    <3>2. task' = [task EXCEPT ![t] = r] /\ renewing' = renewing
      BY <1>14, <2>3 DEF CheckStored, Continue
    <3>3. at \in RenewSteps \ {"check_stored"} /\ at \notin CarrySteps
      BY DEF RenewSteps, CarrySteps
    <3>4. ASSUME at = "refresh"
          PROVE  task[t].secret.refresh \notin spent
      <4>1. task[t].key \in DOMAIN secrets /\ task[t].secret.refresh # None
        BY <2>1, <3>4 DEF Replayless, NothingRemoved
      <4>2. secrets[task[t].key].access = task[t].secret.access
        BY <2>3, <4>1 DEF StoredByAnother
      <4>3. secrets[task[t].key].refresh = task[t].secret.refresh
        <5>1. /\ <<task[t].key, secrets[task[t].key]>> \in Copies
              /\ <<task[t].key, task[t].secret>> \in Copies
          BY <2>1, <4>1, IsCopy
        <5>2. task[t].secret.access # None
          BY <4>1, <5>1 DEF Replayless, TokensTraced
        <5> QED  BY <4>2, <5>1, <5>2 DEF Replayless, TokensTraced
      <4>4. ASSUME NEW u \in Task, task[u].at \in CarrySteps, task[u].key = task[t].key,
                   InQueue(u, renewing[task[t].key])
            PROVE  FALSE
        <5>1. Holds(u, task[t].key)
          BY <3>1, <4>4 DEF LocksOrderly, CarrySteps
        <5>2. u = t
          BY <2>1, <5>1 DEF Holds
        <5> QED  BY <2>1, <4>4, <5>2
      <4> QED  BY <4>1, <4>3, <4>4 DEF Replayless, SpentInTurn
    <3> HIDE DEF r, at
    <3> QED  BY <1>0, <2>1, <3>1, <3>2, <3>3, <3>4, ReplaylessGoesOn
  <2> QED  BY <2>2, <2>3
<1>15. ASSUME NEW t \in Task, Refresh(t)
       PROVE  Replayless'
  <2> DEFINE old == task[t].secret.refresh
  <2>1. /\ task[t].at = "refresh" /\ task[t].at \in RenewSteps /\ task[t].at \notin CarrySteps
        /\ secrets' = secrets
    BY <1>15 DEF Refresh, RenewSteps, CarrySteps, tables
  <2>2. task[t] \in StoreState
    BY <1>8, <2>1
  <2>3. ASSUME Continue(t, [task[t] EXCEPT !.at = "record_failure"]), UNCHANGED <<tokens, spent>>
        PROVE  Replayless'
    <3> DEFINE r == [task[t] EXCEPT !.at = "record_failure"]
    <3>1. r.at = "record_failure" /\ r.key = task[t].key /\ r.secret = task[t].secret
      BY <1>8, <2>1
    <3>2. task' = [task EXCEPT ![t] = r] /\ renewing' = renewing
      BY <2>3 DEF Continue
    <3>3. r.at \in RenewSteps \ {"check_stored"} /\ r.at \notin CarrySteps /\ r.at # "refresh"
      BY <3>1 DEF RenewSteps, CarrySteps
    <3> HIDE DEF r
    <3> QED  BY <1>0, <2>1, <2>3, <3>1, <3>2, <3>3, ReplaylessGoesOn
  <2>4. ASSUME NEW f, Continue(t, [task[t] EXCEPT !.at = "recheck", !.secret = Renewed(@, f)]),
               old \notin spent, tokens' = tokens + 1,
               (f = old /\ spent' = spent) \/ (f = tokens + 1 /\ spent' = spent \cup {old})
        PROVE  Replayless'
    <3> DEFINE r == [task[t] EXCEPT !.at = "recheck", !.secret = Renewed(@, f)]
    <3>1. /\ r.at = "recheck" /\ r.key = task[t].key
          /\ r.secret.access = tokens + 1 /\ r.secret.refresh = f
      BY <2>2 DEF StoreState, Renewed
    <3>2. task' = [task EXCEPT ![t] = r] /\ renewing' = renewing
      BY <2>4 DEF Continue
    <3> HIDE DEF r
    <3> QED  BY <1>0, <2>1, <2>4, <3>1, <3>2, ReplaylessRenews
  <2>5. Lossy = FALSE
    BY DEF Undisturbed
  <2> DEFINE Got(f) == Continue(t, [task[t] EXCEPT !.at = "recheck", !.secret = Renewed(@, f)])
             Refused == Continue(t, [task[t] EXCEPT !.at = "record_failure"])
  <2>6. \/ old \notin spent /\ tokens' = tokens + 1 /\ Got(old) /\ UNCHANGED spent
        \/ old \notin spent /\ tokens' = tokens + 1 /\ Got(tokens') /\ spent' = spent \cup {old}
        \/ /\ Refused /\ UNCHANGED tokens
           /\ spent' \in {spent} \cup (IF Lossy THEN {spent \cup {old}} ELSE {})
    BY <1>15, Zenon DEF Refresh
  <2>7. CASE old \notin spent /\ tokens' = tokens + 1 /\ Got(old) /\ UNCHANGED spent
    <3>1. spent' = spent
      BY <2>7
    <3> QED  BY <2>4, <2>7, <3>1, Zenon
  <2>8. CASE old \notin spent /\ tokens' = tokens + 1 /\ Got(tokens') /\ spent' = spent \cup {old}
    BY <2>4, <2>8, Zenon
  <2>9. CASE Refused /\ UNCHANGED <<spent, tokens>>
    BY <2>3, <2>9, Zenon
  <2> HIDE DEF Got, Refused
  <2> QED  BY <2>5, <2>6, <2>7, <2>8, <2>9
<1>16. ASSUME NEW t \in Task, Recheck(t)
       PROVE  Replayless'
  <2>1. /\ task[t].at = "recheck" /\ task[t].at \in RenewSteps /\ task[t].at \in AlonePast
        /\ task[t].at \in CarrySteps /\ UNCHANGED <<secrets, tokens, spent>>
    BY <1>16 DEF Recheck, RenewSteps, CarrySteps, AlonePast, tables, provider
  <2>2. Holds(t, task[t].key) /\ task[t] \in StoreState /\ task[t].key \in Key
    BY <1>8, <2>1 DEF LocksOrderly
  <2>3. InQueue(t, renewing[task[t].key])
    <3>1. renewing[task[t].key] \in Seq(Task) /\ renewing[task[t].key] # <<>>
          /\ renewing[task[t].key][1] = t
      BY <2>2 DEF Holds, TypeOK
    <3>2. 1 \in 1 .. Len(renewing[task[t].key])
      BY <3>1
    <3> QED  BY <3>1, <3>2 DEF InQueue
  <2>4. task[t].key \in DOMAIN connections
    BY <2>1, <2>3 DEF Replayless, NothingRemoved
  <2> DEFINE r == [task[t] EXCEPT !.at = "put_connection", !.conn = ActiveConnection]
  <2>5. r.at = "put_connection" /\ r.key = task[t].key /\ r.secret = task[t].secret
    BY <2>2 DEF StoreState
  <2>6. task' = [task EXCEPT ![t] = r] /\ renewing' = renewing
    BY <1>16, <2>4 DEF Recheck, Continue
  <2>7. r.at \in RenewSteps \ {"check_stored"} /\ r.at \in CarrySteps /\ r.at # "refresh"
    BY <2>5 DEF RenewSteps, CarrySteps
  <2> HIDE DEF r
  <2> QED  BY <1>0, <2>1, <2>5, <2>6, <2>7, ReplaylessGoesOn
<1>17. ASSUME NEW t \in Task, PutConnection(t)
       PROVE  Replayless'
  <2>1. /\ task[t].at = "put_connection" /\ task[t].at \in RenewSteps
        /\ task[t].at \in CarrySteps /\ UNCHANGED <<secrets, tokens, spent>>
    BY <1>17 DEF PutConnection, RenewSteps, CarrySteps, tables, provider
  <2>2. task[t].key \in Key
    BY <1>8, <2>1
  <2>3. CASE CanPut(task[t].key)
    <3> DEFINE r == [task[t] EXCEPT !.at = "put_secret"]
    <3>1. r.at = "put_secret" /\ r.key = task[t].key /\ r.secret = task[t].secret
      BY <1>8, <2>1
    <3>2. task' = [task EXCEPT ![t] = r] /\ renewing' = renewing
      BY <1>17, <2>3 DEF PutConnection, Continue
    <3>3. r.at \in RenewSteps \ {"check_stored"} /\ r.at \in CarrySteps /\ r.at # "refresh"
      BY <3>1 DEF RenewSteps, CarrySteps
    <3> HIDE DEF r
    <3> QED  BY <1>0, <2>1, <3>1, <3>2, <3>3, ReplaylessGoesOn
  <2>4. CASE ~ CanPut(task[t].key)
    <3>1. task[t].key \notin DOMAIN connections
      BY <2>2, <2>4 DEF CanPut, TypeOK
    <3>2. ~ InQueue(t, renewing[task[t].key])
      BY <2>1, <3>1 DEF Replayless, NothingRemoved
    <3>3. Finish(t)
      BY <1>17, <2>4 DEF PutConnection
    <3> QED  BY <1>5, <2>1, <3>2, <3>3
  <2> QED  BY <2>3, <2>4
<1>18. ASSUME NEW t \in Task, PutSecret(t)
       PROVE  Replayless'
  <2>1. /\ task[t].at = "put_secret" /\ UNCHANGED <<tokens, spent>>
        /\ secrets' = Put(secrets, task[t].key, task[t].secret)
    BY <1>18 DEF PutSecret, provider
  <2>2. \/ Finish(t)
        \/ HandOver(t, "http", task[t].conn, task[t].secret)
    BY <1>18 DEF PutSecret
  <2>3. renewing' = Released(t)
    BY <2>2 DEF Finish, HandOver
  <2>4. OthersStay(t)
    BY <2>3, QueueOthers
  <2> DEFINE r == IF Serves("http", task[t].conn) /\ Requires(task[t].conn, task[t].secret)
                  THEN [at |-> "answer", port |-> "http", carries |-> task[t].secret.kind] ELSE Idle
  <2>5. r.at \in {"idle", "answer"} /\ Idle.at \in {"idle", "answer"}
    BY DEF Idle
  <2>6. task' = [task EXCEPT ![t] = Idle] \/ task' = [task EXCEPT ![t] = r]
    BY <2>2 DEF Finish, HandOver
  <2> HIDE DEF r
  <2> QED  BY <1>0, <2>1, <2>4, <2>5, <2>6, ReplaylessStores
<1> QED  BY <1>2, <1>3, <1>7, <1>9, <1>10, <1>11, <1>12, <1>13, <1>14, <1>15, <1>16, <1>17, <1>18
         DEF Next, ContinueRequest

\* The vault to start from holds nothing that was spent.
LEMMA ReplaylessInit == Init => Replayless
<1> SUFFICES ASSUME Init
             PROVE  Replayless
  OBVIOUS
<1>1. \A t \in Task : task[t].at = "idle"
  BY DEF Init, Idle
<1>2. Copies = {<<key, SeedSecrets[key]>> : key \in DOMAIN SeedSecrets}
  BY <1>1 DEF Init, Copies, RenewSteps
<1>3. spent = {} /\ tokens = Cardinality(DOMAIN SeedSecrets) /\ tokens \in Nat
  BY InitTyped DEF Init, TypeOK
<1>4. TokensTraced
  <2>1. ASSUME NEW c \in Copies
        PROVE  /\ c[2].access # None /\ c[2].access <= tokens
               /\ c[2].refresh = None \/ c[2].refresh <= tokens
    <3>1. PICK key \in DOMAIN SeedSecrets : c = <<key, SeedSecrets[key]>>
      BY <1>2
    <3> QED  BY <1>3, <3>1, SeedTokensAssumption, NoneAssumption
  <2>2. ASSUME NEW c \in Copies, NEW d \in Copies
        PROVE  /\ c[2].access = d[2].access => c[2].refresh = d[2].refresh
               /\ c[2].refresh # None /\ c[2].refresh = d[2].refresh => c[1] = d[1]
    <3>1. PICK k \in DOMAIN SeedSecrets : c = <<k, SeedSecrets[k]>>
      BY <1>2
    <3>2. PICK l \in DOMAIN SeedSecrets : d = <<l, SeedSecrets[l]>>
      BY <1>2
    <3> QED  BY <3>1, <3>2, SeedTokensAssumption
  <2> QED  BY <1>3, <2>1, <2>2 DEF TokensTraced
<1>5. NothingRemoved /\ SpentInTurn
  BY <1>1, <1>3 DEF NothingRemoved, SpentInTurn, Newcomer, CarrySteps, RenewSteps
<1> QED  BY <1>4, <1>5 DEF Replayless

(***************************************************************************)
(* While nothing is removed, no request dies and no answer is lost, no     *)
(* refresh token that the provider rotated away is presented again, by any *)
(* number of requests on any number of connections, however re-entered     *)
(* and newly consented credentials are stored over renewed ones.  The      *)
(* argument: the stored access token tells whether the copy a request      *)
(* queued with is the current one (StoredByAnother), because an access     *)
(* token is stored once and names one refresh token; and a spent token is  *)
(* stored only while the renewal that spent it holds the lock.             *)
(***************************************************************************)
THEOREM RotatedTokenTheorem ==
    ASSUME Undisturbed
    PROVE  Spec => []RotatedTokenNotReplayed
<1> DEFINE Inv == TypeOK /\ RefreshHasToken /\ TablesFinite /\ LocksOrderly /\ Replayless
<1>1. Init => Inv
  <2>1. Init => LocksOrderly
    BY DEF Init, LocksOrderly, InQueue, OnceEach, Idle, AlonePast
  <2> QED  BY <2>1, InitTyped, ReplaylessInit
<1>2. Inv /\ [Next]_vars => Inv'
  BY NextTyped, LocksStep, ReplaylessStep
<1>3. Inv => RotatedTokenNotReplayed
  BY DEF Replayless, SpentInTurn, RotatedTokenNotReplayed
<1> HIDE DEF Inv
<1> QED  BY <1>1, <1>2, <1>3, PTL DEF Spec
=============================================================================
