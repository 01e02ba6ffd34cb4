------------------------------ MODULE Delegation ------------------------------
(***************************************************************************)
(* credentials/delegation.py over profiles/sql_delegations.py and          *)
(* accounts/signing.py, behind api/routers/delegation.py and the service   *)
(* token route of api/routers/auth.py: one person, one of their profiles,  *)
(* and the services that act for them, with tokens minted from the         *)
(* person's session, from another token, or from standing consent.         *)
(*                                                                         *)
(* An action takes a request from one await to the next.  A signed token   *)
(* cannot be taken back: it is out until it expires.  A refusal that       *)
(* writes nothing has no step, nor has the audit entry that ends creating  *)
(* and revoking a grant (the log is in module Admin).  Which service is    *)
(* calling was settled by its own credential, and a token that was not     *)
(* minted here verifies nowhere; time is in whole seconds, as exp is.      *)
(***************************************************************************)
EXTENDS Integers, FiniteSets

CONSTANTS
    Service,        \* configured services, each an audience as well
    GrantId,        \* offline grant handles, never reused
    Task,           \* requests in flight at once
    Configs,        \* what Settings.exchange_audiences may be
    AccessTtl,      \* Settings.access_token_ttl_seconds
    GrantTtl,       \* Settings.offline_grant_max_ttl_seconds
    Ttls,           \* the lifetimes requests ask for
    Visited,        \* the audiences people ask service tokens for
    Asked,          \* the audiences consent is asked for
    MaxGrants,      \* Settings.max_offline_grants_per_profile
    None,           \* the absent value
    MaxTime,        \* bound on the clock
    MaxTokens       \* bound on the tokens that are out at once

ASSUME ConfigsAssumption == Configs \subseteq [Service -> SUBSET Service] /\ Configs # {}
ASSUME TtlAssumption ==
    /\ AccessTtl \in Nat \ {0} /\ GrantTtl \in Nat \ {0} /\ MaxGrants \in Nat
    /\ Ttls \subseteq Nat \ {0} /\ Visited \subseteq Service /\ Asked \subseteq SUBSET Service
    /\ MaxTime \in Nat /\ MaxTokens \in Nat
ASSUME NoneAssumption == None \notin Nat \cup Service \cup GrantId

VARIABLES
    allowed,        \* Settings.exchange_audiences
    status,         \* the account: active or disabled
    profile,        \* whether the profile exists
    grants,         \* the offline_grants table
    recorded,       \* the handles used so far
    tokens,         \* the tokens that are out and have not expired
    ended,          \* not in the code: when each grant was revoked or deleted
    disabled,       \* not in the code: since when the account cannot act
    now,
    task            \* what each request is about to do, and what it has read

table == <<grants, recorded, ended>>
vars == <<allowed, status, profile, grants, recorded, ended, tokens, disabled, now, task>>

GrantRow == [service: Service, audiences: SUBSET Service, expires: Nat, revoked: BOOLEAN]

(***************************************************************************)
(* A token.  aud and exp are its claims; the rest is not in the code:      *)
(* permitted, whether the configuration allowed the audience to whom it    *)
(* was made for; until, how long what it was made from is good; root, the  *)
(* grant it goes back to; late, whether that grant ended between its       *)
(* reading and the token; over, whether the account was disabled while its *)
(* session got the token.                                                  *)
(***************************************************************************)
Token ==
    [aud: Service, exp: Nat, permitted: BOOLEAN, until: Nat, root: GrantId \cup {None},
     late: BOOLEAN, over: BOOLEAN]

Idle == [at |-> "idle"]

Init ==
    /\ allowed \in Configs
    /\ status = "active"
    /\ profile = TRUE
    /\ grants = [g \in {} |-> None]
    /\ recorded = {}
    /\ tokens = {}
    /\ ended = [g \in GrantId |-> None]
    /\ disabled = None
    /\ now = 0
    /\ task = [t \in Task |-> Idle]

Start(t, r) == task[t] = Idle /\ task' = [task EXCEPT ![t] = r]

Continue(t, step, r) == task[t].at = step /\ task' = [task EXCEPT ![t] = r]

Lesser(m, n) == IF m <= n THEN m ELSE n

-----------------------------------------------------------------------------
(* accounts/signing.py *)

\* Not in the code: the bound on the tokens out at once.
Room == Cardinality(tokens) < MaxTokens

\* verify_access: strict audience, and expiry by the injected clock.
Verifies(tok, service) == tok \in tokens /\ tok.aud = service /\ now < tok.exp

\* _allow
AllowedTo(service, audiences) == audiences # {} /\ audiences \subseteq allowed[service]

-----------------------------------------------------------------------------
(* issue_service_token: a session becomes a token for one audience *)

\* resolve_session finds the account active; what follows does not look again.
RequestServiceToken(t, aud) ==
    /\ status = "active"
    /\ Room
    /\ Start(t, [at |-> "issue", aud |-> aud, over |-> FALSE])
    /\ UNCHANGED <<allowed, status, profile, table, tokens, disabled, now>>

\* get_current_account, and the token.
IssueServiceToken(t) ==
    LET r == task[t] IN
    /\ Continue(t, "issue", Idle)
    /\ Room
    /\ tokens' = tokens \cup
          {[aud |-> r.aud, exp |-> now + AccessTtl, permitted |-> TRUE,
            until |-> now + AccessTtl, root |-> None, late |-> FALSE, over |-> r.over]}
    /\ UNCHANGED <<allowed, status, profile, table, disabled, now>>

-----------------------------------------------------------------------------
(* create: standing consent, recorded by the person or, with a token that  *)
(* was minted for it, by the service that will hold it                     *)

NewGrant(service, audiences, ttl) ==
    [service |-> service, audiences |-> audiences,
     expires |-> now + Lesser(ttl, GrantTtl), revoked |-> FALSE]

\* Who asks: a live session, or the service with a token of the person's.
MayAskFor(service) == status = "active" \/ \E tok \in tokens : Verifies(tok, service)

CreateGrant(t, service, audiences, ttl) ==
    /\ MayAskFor(service)
    /\ profile
    /\ AllowedTo(service, audiences)
    /\ Start(t, [at |-> "add_grant", row |-> NewGrant(service, audiences, ttl), since |-> now])
    /\ UNCHANGED <<allowed, status, profile, table, tokens, disabled, now>>

Live(g, at) == ~ grants[g].revoked /\ grants[g].expires > at

\* Mutation of HasRoom: the cap is reached one grant late.
HasRoomForOneMore(since) == Cardinality({g \in DOMAIN grants : Live(g, since)}) <= MaxGrants

\* The count of SqlDelegationStore.add, in the transaction of its insert.
HasRoom(since) == Cardinality({g \in DOMAIN grants : Live(g, since)}) < MaxGrants

AddGrant(t) ==
    LET r == task[t] IN
    /\ r.at = "add_grant"
    /\ IF profile /\ HasRoom(r.since)
       THEN \E g \in GrantId \ recorded :
               /\ grants' = [x \in DOMAIN grants \cup {g} |-> IF x = g THEN r.row ELSE grants[x]]
               /\ recorded' = recorded \cup {g}
       ELSE UNCHANGED <<grants, recorded>>
    /\ Continue(t, "add_grant", Idle)
    /\ UNCHANGED <<allowed, status, profile, tokens, ended, disabled, now>>

-----------------------------------------------------------------------------
(* revoke and revoke_for_service *)

\* revoke_for_service: with a token of the person's bound to the service, and
\* for a grant that is made to it.
MayGiveUp(g) == g \in DOMAIN grants /\ \E tok \in tokens : Verifies(tok, grants[g].service)

\* Both find the profile first.
AskToRevoke(t, g) ==
    /\ profile
    /\ g \in recorded
    /\ status = "active" \/ MayGiveUp(g)
    /\ Start(t, [at |-> "revoke", grant |-> g])
    /\ UNCHANGED <<allowed, status, profile, table, tokens, disabled, now>>

\* The exchanges that have read a grant overlap its end.
Overtaken(gs) ==
    [t \in Task |-> IF task[t].at = "load_account" /\ task[t].grant \in gs
                    THEN [task[t] EXCEPT !.late = TRUE] ELSE task[t]]

Ended(gs) == [g \in GrantId |-> IF g \in gs /\ ended[g] = None THEN now ELSE ended[g]]

\* COALESCE keeps the first revocation's time: revoking is idempotent.
Revoke(t) ==
    LET r == task[t]
        found == r.grant \in DOMAIN grants
    IN  /\ r.at = "revoke"
        /\ grants' = IF found THEN [grants EXCEPT ![r.grant].revoked = TRUE] ELSE grants
        /\ ended' = IF found THEN Ended({r.grant}) ELSE ended
        /\ task' = [Overtaken({r.grant}) EXCEPT ![t] = Idle]
        /\ UNCHANGED <<allowed, status, profile, recorded, tokens, disabled, now>>

-----------------------------------------------------------------------------
(* exchange *)

\* grant is the one the request has read, which root names as well.
Exchange(service, aud, ttl, grant, root, deadline, until, late) ==
    [at |-> "load_account", service |-> service, aud |-> aud, ttl |-> ttl, grant |-> grant,
     root |-> root, deadline |-> deadline, until |-> until, late |-> late]

\* From a user token, whose audience must be the service.
ExchangeToken(t, service, aud, ttl) ==
    /\ \E tok \in tokens :
          /\ AllowedTo(service, {aud})
          /\ Verifies(tok, service)
          /\ Start(t, Exchange(service, aud, ttl, None, tok.root, tok.exp, tok.until, tok.late))
    /\ UNCHANGED <<allowed, status, profile, table, tokens, disabled, now>>

\* Mutation of Usable: whether the grant was revoked is not looked at.
UsableOnceRevoked(row, service, aud) == row.service = service /\ aud \in row.audiences

\* What for_exchange and the checks after it ask of a grant.
Usable(row, service, aud) ==
    row.service = service /\ ~ row.revoked /\ aud \in row.audiences

\* From an offline grant; whether it expired is seen when the token is made.
ExchangeGrant(t, service, aud, ttl, g) ==
    /\ g \in DOMAIN grants
    /\ AllowedTo(service, {aud})
    /\ Usable(grants[g], service, aud)
    /\ Start(t, Exchange(service, aud, ttl, g, g, grants[g].expires, grants[g].expires, FALSE))
    /\ UNCHANGED <<allowed, status, profile, table, tokens, disabled, now>>

\* Mutation of Lifetime: what the token is minted from may expire before it.
LifetimeOfItsOwn(r) == Lesser(r.ttl, AccessTtl)

Lifetime(r) == Lesser(Lesser(r.ttl, AccessTtl), r.deadline - now)

MayAct == status = "active"

\* The account is loaded and the token made; it is not handed over yet.
Mint(t) ==
    LET r == task[t] IN
    /\ r.at = "load_account"
    /\ IF MayAct /\ Lifetime(r) > 0
       THEN Continue(t, "load_account",
                [at |-> "record",
                 token |-> [aud |-> r.aud, exp |-> now + Lifetime(r),
                            permitted |-> r.aud \in allowed[r.service], until |-> r.until,
                            root |-> r.root, late |-> r.late, over |-> FALSE]])
       ELSE Continue(t, "load_account", Idle)
    /\ UNCHANGED <<allowed, status, profile, table, tokens, disabled, now>>

\* The exchange goes on record, and only then is it answered.
Record(t) ==
    /\ Continue(t, "record", Idle)
    /\ Room
    /\ tokens' = tokens \cup {tok \in {task[t].token} : now < tok.exp}
    /\ UNCHANGED <<allowed, status, profile, table, disabled, now>>

-----------------------------------------------------------------------------
(* What else happens to the account and to the process *)

\* A request of the session that found the account active overlaps its end.
Outlived ==
    [t \in Task |-> IF task[t].at = "issue" THEN [task[t] EXCEPT !.over = TRUE] ELSE task[t]]

Disable ==
    /\ status = "active"
    /\ status' = "disabled"
    /\ disabled' = now
    /\ task' = Outlived
    /\ UNCHANGED <<allowed, profile, table, tokens, now>>

Enable ==
    /\ status = "disabled"
    /\ status' = "active"
    /\ disabled' = None
    /\ UNCHANGED <<allowed, profile, table, tokens, now, task>>

\* The grants go with the profile.
DeleteProfile ==
    /\ profile
    /\ profile' = FALSE
    /\ grants' = [g \in {} |-> None]
    /\ ended' = Ended(DOMAIN grants)
    /\ task' = Overtaken(DOMAIN grants)
    /\ UNCHANGED <<allowed, status, recorded, tokens, disabled, now>>

CreateProfile ==
    /\ status = "active"
    /\ ~ profile
    /\ profile' = TRUE
    /\ UNCHANGED <<allowed, status, table, tokens, disabled, now, task>>

\* The process starts again, with the configuration it finds.
Restart ==
    /\ allowed' \in Configs
    /\ task' = [t \in Task |-> Idle]
    /\ UNCHANGED <<status, profile, table, tokens, disabled, now>>

\* A token past its expiry is accepted by nobody.
Tick ==
    /\ now < MaxTime
    /\ now' = now + 1
    /\ tokens' = {tok \in tokens : now' < tok.exp}
    /\ UNCHANGED <<allowed, status, profile, table, disabled, task>>

\* A request dies where it awaits; a token it had made goes nowhere.
Abandon(t) ==
    /\ task[t] # Idle
    /\ task' = [task EXCEPT ![t] = Idle]
    /\ UNCHANGED <<allowed, status, profile, table, tokens, disabled, now>>

StartRequest(t) ==
    \/ \E aud \in Visited : RequestServiceToken(t, aud)
    \/ \E s \in Service, auds \in Asked, ttl \in Ttls : CreateGrant(t, s, auds, ttl)
    \/ \E g \in GrantId : AskToRevoke(t, g)
    \/ \E s, aud \in Service, ttl \in Ttls :
          \/ ExchangeToken(t, s, aud, ttl)
          \/ \E g \in GrantId : ExchangeGrant(t, s, aud, ttl, g)

ContinueRequest(t) ==
    IssueServiceToken(t) \/ AddGrant(t) \/ Revoke(t) \/ Mint(t) \/ Record(t)

Next ==
    \/ \E t \in Task : StartRequest(t) \/ ContinueRequest(t) \/ Abandon(t)
    \/ Disable \/ Enable \/ DeleteProfile \/ CreateProfile \/ Restart \/ Tick

Spec == Init /\ [][Next]_vars

-----------------------------------------------------------------------------
(* Properties *)

TaskState ==
    [at: {"idle"}]
    \cup [at: {"issue"}, aud: Service, over: BOOLEAN]
    \cup [at: {"add_grant"}, row: GrantRow, since: Nat]
    \cup [at: {"revoke"}, grant: GrantId]
    \cup [at: {"load_account"}, service: Service, aud: Service, ttl: Nat,
          grant: GrantId \cup {None}, root: GrantId \cup {None}, deadline: Nat, until: Nat,
          late: BOOLEAN]
    \cup [at: {"record"}, token: Token]

\* The tables, the tokens and every request are well formed, grants only
\* exist in a profile, and no more of them are live than the cap, however
\* many are recorded at once (SqlDelegationStore.add).
TypeOK ==
    /\ allowed \in Configs
    /\ status \in {"active", "disabled"}
    /\ profile \in BOOLEAN
    /\ DOMAIN grants \subseteq recorded
    /\ grants \in [DOMAIN grants -> GrantRow]
    /\ ~ profile => DOMAIN grants = {}
    /\ Cardinality({g \in DOMAIN grants : Live(g, now)}) <= MaxGrants
    /\ recorded \in SUBSET GrantId
    /\ tokens \in SUBSET Token
    /\ ended \in [GrantId -> Nat \cup {None}]
    /\ disabled \in Nat \cup {None}
    /\ now \in Nat
    /\ task \in [Task -> TaskState]

(***************************************************************************)
(* "The result expires no later than the delegation" and "Service          *)
(* allowlists are checked afresh on each exchange, including offline       *)
(* grants": however often a token is exchanged for another, none outlives  *)
(* the grant or the session token the first of them was made from, and     *)
(* none is for an audience that the configuration it was exchanged under   *)
(* does not allow the service, though its grant is from an earlier one.    *)
(***************************************************************************)
NoTokenExceedsItsSource == \A tok \in tokens : tok.exp <= tok.until /\ tok.permitted

(***************************************************************************)
(* "Revoke it to stop future exchanges ... already minted JWTs remain      *)
(* valid until their short expiry": one token lifetime after a grant is    *)
(* revoked, or deleted with its profile, nothing that goes back to it      *)
(* works, through whichever services it was exchanged.  Only an exchange   *)
(* that had read the grant before may still be answered afterwards.  The   *)
(* same holds of disabling the account, whose sessions and grants stay     *)
(* where they are: "the expiry is the only thing bounding how long a       *)
(* logged-out session keeps working elsewhere" (issue_service_token).      *)
(***************************************************************************)
WithdrawalTakesHold ==
    \A tok \in tokens :
        /\ tok.root # None /\ ended[tok.root] # None =>
              tok.late \/ tok.exp <= ended[tok.root] + AccessTtl
        /\ disabled # None => tok.over \/ tok.exp <= disabled + AccessTtl
=============================================================================
