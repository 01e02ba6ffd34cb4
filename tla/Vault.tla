-------------------------------- MODULE Vault --------------------------------
(***************************************************************************)
(* credentials/service.py over profiles/sql_store.py, secrets/sql.py and   *)
(* credentials/state.py: one account's profiles, the connections in them,  *)
(* the secret behind each connection, and the OAuth flows that obtain and  *)
(* renew them.  Every table and every lock is keyed by the account first,  *)
(* so accounts do not meet here.                                           *)
(*                                                                         *)
(* As in module Accounts, an action takes a request from one await to the  *)
(* next: one transaction or one call of the provider, and the code up to   *)
(* the following one.  The flows and the renewal locks live in memory and  *)
(* change without giving way.  The vault has its master key: with a sealed *)
(* one every operation below that stores is refused before it writes.      *)
(***************************************************************************)
EXTENDS Integers, Sequences, FiniteSets

CONSTANTS
    Profile, Service,   \* normalised names
    State,              \* OAuth state tokens, never reused
    Task,               \* requests in flight at once
    Ops,                \* which requests may be made, a subset of Operations
    SeedSecrets,        \* OAuth secrets to start from, by connection
    MaxProfiles,        \* Settings.max_profiles_per_account
    MaxConnections,     \* Settings.max_connections_per_profile
    AccessTtl,          \* expires_in of the provider's answers
    Margin,             \* Settings.oauth_refresh_margin_seconds
    StateTtl,           \* Settings.oauth_state_ttl_seconds
    Lossy,              \* whether an answer of the provider may be lost
    None,               \* the absent value
    MaxTime, MaxTokens  \* bounds on the clock and on what the provider issues

Operations ==
    {"create", "delete", "direct", "authorize", "callback", "resolve", "revoke",
     "sweep", "fail", "restart"}

Key == Profile \X Service

Kind == {"api_key", "password", "oauth2"}

\* kind stands for the fields there are, as nothing else in a secret says it; and
\* grant, which is not stored, names the consent or the entry it goes back to.
Secret == [kind: Kind, access: Nat \cup {None}, refresh: Nat \cup {None}, grant: Nat]

ConnectionRow ==
    [kind: Kind, status: {"active", "pending", "expired"},
     expires: Nat \cup {None}]

ASSUME OpsAssumption == Ops \subseteq Operations /\ Lossy \in BOOLEAN
ASSUME NoneAssumption == None \notin Nat
ASSUME BoundAssumption ==
    /\ MaxProfiles \in Nat /\ MaxConnections \in Nat /\ MaxTime \in Nat /\ MaxTokens \in Nat
    /\ AccessTtl \in Nat /\ Margin \in Nat /\ StateTtl \in Nat
\* The vault to start from is one that the store could have written.
ASSUME SeedAssumption ==
    /\ DOMAIN SeedSecrets \subseteq Key /\ IsFiniteSet(DOMAIN SeedSecrets)
    /\ SeedSecrets \in [DOMAIN SeedSecrets -> Secret]
    /\ Cardinality({key[1] : key \in DOMAIN SeedSecrets}) <= MaxProfiles
    /\ \A p \in Profile :
          Cardinality(DOMAIN SeedSecrets \cap ({p} \X Service)) <= MaxConnections

\* What is in it came from the provider, which gave no token to two of them.
ASSUME SeedTokensAssumption ==
    \A key \in DOMAIN SeedSecrets :
        LET s == SeedSecrets[key] IN
        /\ s.access \in 0 .. Cardinality(DOMAIN SeedSecrets)
        /\ s.refresh \in 0 .. Cardinality(DOMAIN SeedSecrets) \cup {None}
        /\ \A other \in DOMAIN SeedSecrets \ {key} :
              /\ s.access # SeedSecrets[other].access
              /\ s.refresh = None \/ s.refresh # SeedSecrets[other].refresh

VARIABLES
    profiles,       \* the names in the profiles table
    connections,    \* the connections table
    secrets,        \* the secrets table, decrypted
    flows,          \* InMemoryOAuthStateStore._flows
    issued,         \* every state handed out so far
    renewing,       \* _renewing: who holds a key's lock and who waits, in order
    tokens,         \* how many tokens and typed entries there were so far
    spent,          \* the provider: the refresh tokens it has rotated away
    now,
    task            \* what each request is about to do, and what it has read

tables == <<profiles, connections, secrets>>
provider == <<tokens, spent>>
vars == <<profiles, connections, secrets, flows, issued, renewing, tokens, spent, now, task>>

Idle == [at |-> "idle"]

\* conn and secret are what the request has read or is about to write.
Step(at, key, conn, secret) == [at |-> at, key |-> key, conn |-> conn, secret |-> secret]

Start(t, op, r) == op \in Ops /\ task[t] = Idle /\ task' = [task EXCEPT ![t] = r]

Put(table, key, row) ==
    [k \in DOMAIN table \cup {key} |-> IF k = key THEN row ELSE table[k]]

Without(table, keys) == [k \in DOMAIN table \ keys |-> table[k]]

KeysOf(p) == {p} \X Service

-----------------------------------------------------------------------------
(* domain/profiles.py *)

NeedsRefresh(conn) == conn.expires # None /\ now >= conn.expires - Margin

\* Only OAuth connections expire, and theirs is the kind that can refresh.
IsUsable(conn) == conn.status = "active"

WithError(conn) == [conn EXCEPT !.status = "expired"]

Pending == [kind |-> "oauth2", status |-> "pending", expires |-> None]

DirectConnection(kind) == [kind |-> kind, status |-> "active", expires |-> None]

ActiveConnection == [kind |-> "oauth2", status |-> "active", expires |-> now + AccessTtl]

-----------------------------------------------------------------------------
(* The renewal locks: asyncio.Lock wakes its waiters in order *)

Holds(t, key) == renewing[key] # <<>> /\ renewing[key][1] = t

Renewals(t) == {key \in Key : \E i \in 1 .. Len(renewing[key]) : renewing[key][i] = t}

\* Leaving the async with block, by whatever way.
Released(t) ==
    [key \in Key |-> IF Holds(t, key) THEN Tail(renewing[key]) ELSE renewing[key]]

Finish(t) == task' = [task EXCEPT ![t] = Idle] /\ renewing' = Released(t)

Continue(t, r) == task' = [task EXCEPT ![t] = r] /\ UNCHANGED renewing

Init ==
    /\ profiles = {key[1] : key \in DOMAIN SeedSecrets}
    /\ secrets = SeedSecrets
    /\ connections = [key \in DOMAIN SeedSecrets |->
                         [kind |-> "oauth2", status |-> "active", expires |-> AccessTtl]]
    /\ flows = [st \in {} |-> None]
    /\ issued = {}
    /\ renewing = [key \in Key |-> <<>>]
    /\ tokens = Cardinality(DOMAIN SeedSecrets)
    /\ spent = {}
    /\ now = 0
    /\ task = [t \in Task |-> Idle]

-----------------------------------------------------------------------------
(* Profiles *)

\* create_profile: SqlProfileStore.add checks the name and the cap.
CreateProfile(p) ==
    /\ "create" \in Ops
    /\ p \notin profiles
    /\ Cardinality(profiles) < MaxProfiles
    /\ profiles' = profiles \cup {p}
    /\ UNCHANGED <<connections, secrets, flows, issued, renewing, provider, now, task>>

\* delete_profile: the connections go with the row, the secrets afterwards.
DeleteProfile(t, p) ==
    /\ p \in profiles
    /\ Start(t, "delete", [at |-> "delete_secrets", profile |-> p])
    /\ profiles' = profiles \ {p}
    /\ connections' = Without(connections, KeysOf(p))
    /\ UNCHANGED <<secrets, flows, issued, renewing, provider, now>>

DeleteSecrets(t) ==
    /\ task[t].at = "delete_secrets"
    /\ secrets' = Without(secrets, KeysOf(task[t].profile))
    /\ Finish(t)
    /\ UNCHANGED <<profiles, connections, flows, issued, provider, now>>

-----------------------------------------------------------------------------
(* credentials/kinds.py: what is handed over of a secret *)

Port == {"http", "form"}

\* Mutation of Requires: what is stored is taken to be what the connection says.
RequiresNothing(conn, secret) == TRUE

\* _require: the fields that the kind of the connection needs are there.
Requires(conn, secret) == secret.kind = conn.kind

\* Which kinds each of the two endpoints serves.
Serves(port, conn) == (port = "form") <=> (conn.kind = "password")

\* The answer is about to be sent, or refused: which kind of material is in it?
HandOver(t, port, conn, secret) ==
    /\ task' = [task EXCEPT ![t] =
                   IF Serves(port, conn) /\ Requires(conn, secret)
                   THEN [at |-> "answer", port |-> port, carries |-> secret.kind] ELSE Idle]
    /\ renewing' = Released(t)

\* It is sent; for an OAuth credential once the expiry was read, if it still can be.
Answer(t) ==
    /\ task[t].at = "answer"
    /\ Finish(t)
    /\ UNCHANGED <<tables, flows, issued, provider, now>>

-----------------------------------------------------------------------------
(* Storing: the connection first, then the secret *)

\* Mutation of CanPut: replacing and adding are not told apart.
CanPutAnyway(key) == key[1] \in profiles

\* put_connection: the profile exists, and a new connection has room.
CanPut(key) ==
    /\ key[1] \in profiles
    /\ \/ key \in DOMAIN connections
       \/ Cardinality(DOMAIN connections \cap KeysOf(key[1])) < MaxConnections

\* put_direct_credential: what the person typed is a secret of its own.
PutDirect(t, key, kind) ==
    /\ key[1] \in profiles
    /\ tokens < MaxTokens
    /\ tokens' = tokens + 1
    /\ Start(t, "direct",
             Step("put_connection", key, DirectConnection(kind),
                  [kind |-> kind, access |-> None, refresh |-> None, grant |-> tokens']))
    /\ UNCHANGED <<tables, flows, issued, renewing, spent, now>>

PutConnection(t) ==
    LET r == task[t] IN
    /\ r.at = "put_connection"
    /\ IF CanPut(r.key)
       THEN /\ connections' = Put(connections, r.key, r.conn)
            /\ Continue(t, [r EXCEPT !.at = "put_secret"])
       ELSE Finish(t) /\ UNCHANGED connections
    /\ UNCHANGED <<profiles, secrets, flows, issued, provider, now>>

\* A renewal goes on to answer with what it stored.
PutSecret(t) ==
    LET r == task[t] IN
    /\ r.at = "put_secret"
    /\ secrets' = Put(secrets, r.key, r.secret)
    /\ IF Holds(t, r.key) THEN HandOver(t, "http", r.conn, r.secret) ELSE Finish(t)
    /\ UNCHANGED <<profiles, connections, flows, issued, provider, now>>

-----------------------------------------------------------------------------
(* The OAuth consent *)

\* begin_authorization up to its write: the profile is read and a state issued.
BeginAuthorization(t, key, st) ==
    /\ key[1] \in profiles
    /\ st \in State \ issued
    /\ issued' = issued \cup {st}
    /\ flows' = Put(flows, st, [key |-> key, expires |-> now + StateTtl])
    /\ Start(t, "authorize",
             IF key \in DOMAIN connections /\ IsUsable(connections[key])
             THEN Idle ELSE Step("put_pending", key, Pending, None))
    /\ UNCHANGED <<tables, renewing, provider, now>>

PutPending(t) ==
    LET r == task[t] IN
    /\ r.at = "put_pending"
    /\ connections' = IF CanPut(r.key) THEN Put(connections, r.key, r.conn) ELSE connections
    /\ Finish(t)
    /\ UNCHANGED <<profiles, secrets, flows, issued, provider, now>>

\* Mutation of Unredeemed: the flow is read and left where it is.
StillRedeemable(st) == flows

\* OAuthStateStore.redeem pops the flow, live or not.
Unredeemed(st) == Without(flows, {st})

Redeem(t, st) ==
    /\ st \in DOMAIN flows
    /\ flows' = Unredeemed(st)
    /\ Start(t, "callback",
             IF now < flows[st].expires
             THEN [at |-> "find_profile", key |-> flows[st].key, state |-> st] ELSE Idle)
    /\ UNCHANGED <<tables, issued, renewing, provider, now>>

\* finish_authorization
FindProfile(t) ==
    LET r == task[t] IN
    /\ r.at = "find_profile"
    /\ Continue(t, IF r.key[1] \in profiles THEN [r EXCEPT !.at = "exchange"] ELSE Idle)
    /\ UNCHANGED <<tables, flows, issued, provider, now>>

\* exchange_code: refused, or a fresh pair, whose refresh token is optional.
ExchangeCode(t) ==
    LET r == task[t] IN
    /\ r.at = "exchange"
    /\ \/ Finish(t) /\ UNCHANGED tokens
       \/ /\ tokens < MaxTokens
          /\ tokens' = tokens + 1
          /\ \E refresh \in {tokens', None} :
                Continue(t, Step("put_connection", r.key, ActiveConnection,
                                 [kind |-> "oauth2", access |-> tokens', refresh |-> refresh,
                                  grant |-> tokens']))
    /\ UNCHANGED <<tables, flows, issued, spent, now>>

-----------------------------------------------------------------------------
(* resolve_http_auth, with the renewal it may call for, and                *)
(* resolve_form_secrets                                                    *)

\* _load up to the vault; a pending connection is refused.
Resolve(t, key, port) ==
    /\ key \in DOMAIN connections
    /\ connections[key].status # "pending"
    /\ Start(t, "resolve",
             [at |-> "load_secret", key |-> key, conn |-> connections[key], port |-> port])
    /\ UNCHANGED <<tables, flows, issued, renewing, provider, now>>

\* The secret is read, and where it is due the request queues up to renew it.
LoadSecret(t) ==
    LET r   == task[t]
        due == r.port = "http" /\ r.conn.kind = "oauth2" /\ NeedsRefresh(r.conn)
    IN  /\ r.at = "load_secret"
        /\ IF r.key \notin DOMAIN secrets THEN Finish(t)
           ELSE IF due
           THEN /\ task' = [task EXCEPT ![t] = Step("check_stored", r.key, r.conn, secrets[r.key])]
                /\ renewing' = [renewing EXCEPT ![r.key] = Append(@, t)]
           ELSE HandOver(t, r.port, r.conn, secrets[r.key])
        /\ UNCHANGED <<tables, flows, issued, provider, now>>

\* Mutation of StoredByAnother: what is stored is not looked at.
NeverStoredByAnother(r) == FALSE

\* Somebody stored another access token since this request read its own.
StoredByAnother(r) ==
    r.key \in DOMAIN secrets /\ secrets[r.key].access # r.secret.access

\* Mutation of MayRenew: the requests do not take turns.
MayRenewAtOnce(t) == TRUE

MayRenew(t) == Holds(t, task[t].key)

\* _refresh, once the lock is held, and _renew up to its call of the provider.
CheckStored(t) ==
    LET r == task[t] IN
    /\ r.at = "check_stored"
    /\ MayRenew(t)
    /\ IF StoredByAnother(r) THEN HandOver(t, "http", r.conn, secrets[r.key])
       ELSE Continue(t, [r EXCEPT !.at = IF r.secret.refresh = None
                                         THEN "record_failure" ELSE "refresh"])
    /\ UNCHANGED <<tables, flows, issued, provider, now>>

\* A provider that does not rotate sends no refresh token: the old one is kept.
Renewed(old, refresh) ==
    [kind |-> "oauth2", access |-> tokens + 1, refresh |-> refresh, grant |-> old.grant]

(***************************************************************************)
(* TokenEndpoint.refresh.  The provider refuses a token it rotated away,   *)
(* and may refuse or be out of reach at any time; an answer that is lost   *)
(* looks the same here, and is not the same there.                         *)
(***************************************************************************)
Refresh(t) ==
    LET r   == task[t]
        old == r.secret.refresh
    IN  /\ r.at = "refresh"
        /\ \/ /\ old \notin spent
              /\ tokens < MaxTokens
              /\ tokens' = tokens + 1
              /\ \/ /\ Continue(t, [r EXCEPT !.at = "recheck", !.secret = Renewed(@, old)])
                    /\ UNCHANGED spent
                 \/ /\ Continue(t, [r EXCEPT !.at = "recheck", !.secret = Renewed(@, tokens')])
                    /\ spent' = spent \cup {old}
           \/ /\ Continue(t, [r EXCEPT !.at = "record_failure"])
              /\ spent' \in {spent} \cup (IF Lossy THEN {spent \cup {old}} ELSE {})
              /\ UNCHANGED tokens
        /\ UNCHANGED <<tables, flows, issued, now>>

\* The re-read of _renew: a connection that is gone is not written back.
Recheck(t) ==
    LET r == task[t] IN
    /\ r.at = "recheck"
    /\ IF r.key \in DOMAIN connections
       THEN Continue(t, [r EXCEPT !.at = "put_connection", !.conn = ActiveConnection])
       ELSE Finish(t)
    /\ UNCHANGED <<tables, flows, issued, provider, now>>

\* Mutation of RecordFailure: the lock is not given back on the way out.
RecordFailureHoldingOn(t) ==
    /\ task[t].at = "record_failure"
    /\ task' = [task EXCEPT ![t] = Idle]
    /\ UNCHANGED <<tables, renewing, flows, issued, provider, now>>

\* _record_failure writes the connection the request read, marked.
RecordFailure(t) ==
    LET r == task[t] IN
    /\ r.at = "record_failure"
    /\ connections' = IF CanPut(r.key) THEN Put(connections, r.key, WithError(r.conn)) ELSE connections
    /\ Finish(t)
    /\ UNCHANGED <<profiles, secrets, flows, issued, provider, now>>

-----------------------------------------------------------------------------
(* revoke_connection *)

Revoke(t, key) ==
    /\ key \in DOMAIN connections
    /\ Start(t, "revoke", Step("delete_secret", key, connections[key], None))
    /\ UNCHANGED <<tables, flows, issued, renewing, provider, now>>

DeleteSecret(t) ==
    /\ task[t].at = "delete_secret"
    /\ secrets' = Without(secrets, {task[t].key})
    /\ Continue(t, [task[t] EXCEPT !.at = "remove_connection"])
    /\ UNCHANGED <<profiles, connections, flows, issued, provider, now>>

RemoveConnection(t) ==
    /\ task[t].at = "remove_connection"
    /\ connections' = Without(connections, {task[t].key})
    /\ Finish(t)
    /\ UNCHANGED <<profiles, secrets, flows, issued, provider, now>>

-----------------------------------------------------------------------------
(* The sweeper, the clock, failures and restarts *)

PurgeFlows ==
    /\ "sweep" \in Ops
    /\ flows' = Without(flows, {st \in DOMAIN flows : flows[st].expires <= now})
    /\ UNCHANGED <<tables, issued, renewing, provider, now, task>>

Tick ==
    /\ now < MaxTime
    /\ now' = now + 1
    /\ UNCHANGED <<tables, flows, issued, renewing, provider, task>>

\* Whether a request is only waiting for its turn, and can be hit by nothing.
Waiting(t) == task[t].at = "check_stored" /\ ~ Holds(t, task[t].key)

\* What a request awaited raised: it ends, and the lock it held is released.
Fail(t) ==
    /\ "fail" \in Ops
    /\ task[t] # Idle
    /\ ~ Waiting(t)
    /\ Finish(t)
    /\ UNCHANGED <<tables, flows, issued, provider, now>>

\* The process is replaced: the tables survive, the flows and locks do not.
Restart ==
    /\ "restart" \in Ops
    /\ task' = [t \in Task |-> Idle]
    /\ renewing' = [key \in Key |-> <<>>]
    /\ flows' = [st \in {} |-> None]
    /\ UNCHANGED <<tables, issued, provider, now>>

StartRequest(t) ==
    \/ \E p \in Profile : DeleteProfile(t, p)
    \/ \E key \in Key :
          \/ \E kind \in Kind \ {"oauth2"} : PutDirect(t, key, kind)
          \/ \E port \in Port : Resolve(t, key, port)
          \/ Revoke(t, key)
    \/ \E key \in Key, st \in State : BeginAuthorization(t, key, st)
    \/ \E st \in State : Redeem(t, st)

ContinueRequest(t) ==
    \/ DeleteSecrets(t)
    \/ PutConnection(t) \/ PutSecret(t)
    \/ PutPending(t) \/ FindProfile(t) \/ ExchangeCode(t)
    \/ LoadSecret(t) \/ Answer(t) \/ CheckStored(t) \/ Refresh(t) \/ Recheck(t) \/ RecordFailure(t)
    \/ DeleteSecret(t) \/ RemoveConnection(t)

Next ==
    \/ \E t \in Task : StartRequest(t) \/ ContinueRequest(t) \/ Fail(t)
    \/ \E p \in Profile : CreateProfile(p)
    \/ PurgeFlows \/ Tick \/ Restart

Spec == Init /\ [][Next]_vars

(***************************************************************************)
(* The event loop runs every request that is not waiting: transactions end *)
(* and calls of the provider end or time out.  Nothing is assumed of who   *)
(* makes requests.                                                         *)
(***************************************************************************)
FairSpec == Spec /\ \A t \in Task : WF_vars(ContinueRequest(t))

-----------------------------------------------------------------------------
(* Properties *)

TaskState ==
    [at: {"idle"}]
    \cup [at: {"delete_secrets"}, profile: Profile]
    \cup [at: {"find_profile", "exchange"}, key: Key, state: State]
    \cup [at: {"load_secret"}, key: Key, conn: ConnectionRow, port: Port]
    \cup [at: {"answer"}, port: Port, carries: Kind]
    \cup [at: {"put_pending", "delete_secret", "remove_connection"},
          key: Key, conn: ConnectionRow, secret: {None}]
    \cup [at: {"put_connection", "put_secret", "check_stored", "refresh", "recheck",
               "record_failure"},
          key: Key, conn: ConnectionRow, secret: Secret]

\* The tables, the flows, the locks and every request are well formed, and
\* the caps hold however many requests check them at once: the check shares
\* the transaction of the write, and a replacement needs no room.
TypeOK ==
    /\ profiles \in SUBSET Profile
    /\ DOMAIN connections \subseteq profiles \X Service
    /\ connections \in [DOMAIN connections -> ConnectionRow]
    /\ DOMAIN secrets \subseteq Key
    /\ secrets \in [DOMAIN secrets -> Secret]
    /\ DOMAIN flows \subseteq issued
    /\ Cardinality(profiles) <= MaxProfiles
    /\ \A p \in profiles : Cardinality(DOMAIN connections \cap KeysOf(p)) <= MaxConnections
    /\ flows \in [DOMAIN flows -> [key: Key, expires: Nat]]
    /\ issued \in SUBSET State
    /\ renewing \in [Key -> Seq(Task)]
    /\ tokens \in Nat
    /\ spent \in SUBSET Nat
    /\ now \in Nat
    /\ task \in [Task -> TaskState]

(***************************************************************************)
(* What a person typed for a login form reaches nobody but a caller who    *)
(* asked to fill one in, and a key or a token no form: the connection is   *)
(* read, and the secret in a later transaction, by which a credential of   *)
(* another kind may be there (_load, _refresh).                            *)
(***************************************************************************)
FormLoginsStayInForms ==
    \A t \in Task :
        task[t].at = "answer" => ((task[t].port = "form") <=> (task[t].carries = "password"))

(***************************************************************************)
(* "Consume a state exactly once" (state.py): no two callbacks act on the  *)
(* same state, and one that is being acted on cannot be presented again.   *)
(***************************************************************************)
Carries(t, st) == task[t].at \in {"find_profile", "exchange"} /\ task[t].state = st

StateRedeemedOnce ==
    \A t \in Task, st \in State :
        Carries(t, st) =>
            /\ st \notin DOMAIN flows
            /\ \A u \in Task : Carries(u, st) => u = t

(***************************************************************************)
(* "Renewals of one grant take turns" (_refresh): no two requests are past *)
(* the re-read of one connection's secret and before the end of the write. *)
(***************************************************************************)
Renewing(t, key) ==
    /\ task[t].at \in {"refresh", "recheck", "record_failure", "put_connection", "put_secret"}
    /\ task[t].key = key
    /\ key \in Renewals(t)

RenewalsTakeTurns ==
    \A t, u \in Task, key \in Key : Renewing(t, key) /\ Renewing(u, key) => t = u

(***************************************************************************)
(* While nothing is removed and no request dies, a refresh token that the  *)
(* provider rotated away is never presented to it again, which it would    *)
(* take for a replay and answer by revoking the grant.                     *)
(***************************************************************************)
RotatedTokenNotReplayed ==
    \A t \in Task : task[t].at = "refresh" => task[t].secret.refresh \notin spent

(***************************************************************************)
(* Every request ends, however renewals fail: a lock that one of them kept *)
(* would stop every later use of that connection.                          *)
(***************************************************************************)
RequestsEnd == \A t \in Task : task[t] # Idle ~> task[t] = Idle
=============================================================================
