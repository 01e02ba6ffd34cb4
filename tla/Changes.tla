------------------------------- MODULE Changes -------------------------------
(***************************************************************************)
(* credentials/changes.py, behind api/routers/profiles.py, the delegated   *)
(* connection routes, the OAuth callback and AdminService.delete_profile:  *)
(* who may change a stored credential of one person, in one profile, and   *)
(* whether the person hears of it.  The owner's settings are at            *)
(* settings-api, which the owner may use, and which may fail, at any time. *)
(*                                                                         *)
(* An action takes a request from one await to the next.  What is stored   *)
(* is abstracted to whether it is there: the secrets, the renewals and the *)
(* caps are module Vault's business, and refusals that read and write      *)
(* nothing have no step.                                                   *)
(***************************************************************************)
EXTENDS Preferences, FiniteSets

CONSTANTS
    Service,        \* normalised service names
    State,          \* OAuth state tokens, never reused
    Task,           \* requests in flight at once
    Choices,        \* what the owner may have chosen at settings-api
    Damaged,        \* what a settings-api with a bug may answer
    Threshold,      \* Settings.lockout_threshold
    MaxPending,     \* MAX_PENDING of the outbox
    MaxRequests     \* bound on the requests made

ASSUME ChoicesAssumption == Choices \subseteq Resolved /\ Damaged \subseteq Resolved

\* settings-api is the authority on the switch: a bug there may make it
\* unreadable, and where it says that it is off nobody can know better.
ASSUME DamageAssumption == \A d \in Damaged : d.reauth \notin {FALSE, Missing}
ASSUME BoundAssumption ==
    /\ Threshold \in Nat \ {0} /\ MaxPending \in Nat /\ MaxRequests \in Nat
    /\ IsFiniteSet(Task)

\* Requester: what each can ask for.  Only a person can send a password along.
PersonRequests ==
    [does: {"store", "authorize", "revoke", "remove"}, who: {"person"},
     sent: {"nothing", "right", "wrong"}]

ServiceRequests == [does: {"authorize", "revoke"}, who: {"service"}, sent: {"nothing"}]

AdministratorRequests == [does: {"remove"}, who: {"administrator"}, sent: {"nothing"}]

Requests == PersonRequests \cup ServiceRequests \cup AdministratorRequests

VARIABLES
    chosen,         \* settings-api: the owner's choices as they are now
    account,        \* the owner's row, or none once it is deleted
    profile,        \* whether the profile exists
    connections,    \* the status of each connection in it
    secrets,        \* the services with a stored secret
    flows,          \* InMemoryOAuthStateStore._flows
    issued,         \* the states handed out so far
    outbox,         \* messages pending in the outbox
    stamp,          \* lifetimes and cap the latest session was opened with
    requests,       \* how many requests were made
    owed, told, missed,     \* not in the code: changes to announce, and what became of them
    task            \* what each request is about to do, and what it has read

tables == <<profile, connections, secrets>>
notices == <<outbox, owed, told, missed>>
vars == <<chosen, account, profile, connections, secrets, flows, issued, outbox, stamp,
          requests, owed, told, missed, task>>

AtRest == [at |-> "idle"]

AccountRow ==
    [status: {"active", "disabled"}, failed: 0 .. Threshold, locked: BOOLEAN]

\* What a login takes from the preferences for the session and for its cap.
Stamp(p) == [idle |-> p.idle, absolute |-> p.absolute, cap |-> p.cap]

NoConnections == [s \in Service |-> "none"]

Init ==
    /\ chosen \in Choices
    /\ account = {[status |-> "active", failed |-> 0, locked |-> FALSE]}
    /\ profile = TRUE
    /\ connections = NoConnections
    /\ secrets = {}
    /\ flows = [st \in {} |-> AtRest]
    /\ issued = {}
    /\ outbox = 0
    /\ stamp = Stamp(Deployment)
    /\ requests = 0
    /\ owed = 0 /\ told = 0 /\ missed = 0
    /\ task = [t \in Task |-> AtRest]

(***************************************************************************)
(* A request in flight.  off, proved and warranted are not in the code:    *)
(* whether the owner had re-authentication off at some moment since the    *)
(* request was made, whether the request proved the password, and, for a   *)
(* callback, whether the request that began the consent could.             *)
(***************************************************************************)
Going(at, r, service) ==
    [at |-> at, does |-> r.does, who |-> r.who, sent |-> r.sent, service |-> service,
     announces |-> FALSE, empty |-> FALSE, row |-> {},
     off |-> chosen.reauth # TRUE, proved |-> FALSE, warranted |-> FALSE]

Continue(t, step, r) == task[t].at = step /\ task' = [task EXCEPT ![t] = r]

Then(r, step) == [r EXCEPT !.at = step]

Start(t, r) ==
    /\ task[t] = AtRest
    /\ requests < MaxRequests
    /\ requests' = requests + 1
    /\ task' = [task EXCEPT ![t] = r]

Active == \E row \in account : row.status = "active"

Connected == {s \in Service : connections[s] # "none"}

-----------------------------------------------------------------------------
(* settings-api, external *)

\* The owner changes their mind; requests in flight live through it.
Choose(c) ==
    /\ chosen' = c
    /\ task' = [t \in Task |->
                  IF task[t] # AtRest /\ c.reauth # TRUE
                  THEN [task[t] EXCEPT !.off = TRUE] ELSE task[t]]
    /\ UNCHANGED <<account, tables, flows, issued, notices, stamp, requests>>

(***************************************************************************)
(* What a request may be answered: the choices as they are; ones kept from *)
(* earlier, in which an entry that refuses to be guessed cannot be read;   *)
(* values no owner can have chosen; or nothing.                            *)
(***************************************************************************)
Answers ==
    {[outcome |-> "resolved", values |-> chosen]}
    \cup {[outcome |-> "resolved", values |-> [c EXCEPT !.reauth = Refused]] : c \in Choices}
    \cup {[outcome |-> "resolved", values |-> d] : d \in Damaged}
    \cup {[outcome |-> "unavailable"], [outcome |-> "rejected"]}

-----------------------------------------------------------------------------
(* The routes: a request begins with a live session, a verified user token *)
(* or an administrator's permission                                        *)

\* store_direct, begin_authorization and remove_connection start with _admit.
RequestChange(t, r, s) ==
    /\ Active
    /\ r.does # "remove"
    /\ Start(t, Going("admit", r, s))
    /\ UNCHANGED <<chosen, account, tables, flows, issued, notices, stamp>>

\* remove_profile reads the profile first: one that holds nothing needs no password.
HoldsNothing == Connected = {}

RequestRemoval(t, r) ==
    /\ r.who = "administrator" \/ Active
    /\ r.does = "remove"
    /\ profile
    /\ \E s \in Service :
          LET g == Going("admit", r, s) IN
          Start(t, IF HoldsNothing THEN [g EXCEPT !.at = "delete_profile", !.empty = TRUE] ELSE g)
    /\ UNCHANGED <<chosen, account, tables, flows, issued, notices, stamp>>

\* The first step of each change once it is admitted.
First == [store |-> "read_profile", authorize |-> "issue_state",
          revoke |-> "read_connection", remove |-> "delete_profile"]

Admitted(r) == Then(r, First[r.does])

\* Mutation of Allowed: what is not known to be on is taken to be off.
AllowedUnlessOn(p) == p.reauth # TRUE

Allowed(p) == p.reauth = FALSE

\* _admit, with the password still to be checked where one was sent.
Admit(t) ==
    LET r == task[t] IN
    /\ \E answer \in Answers :
          LET p == ForAccount(answer)
              g == [r EXCEPT !.announces = AnnouncesCredentialChanges(p)]
          IN  IF Rejected(answer) THEN Continue(t, "admit", AtRest)
              ELSE Continue(t, "admit",
                       IF r.who = "administrator" THEN Admitted(g)
                       ELSE IF r.sent # "nothing" THEN Then(g, "confirm")
                       ELSE IF Allowed(p) THEN Admitted(g) ELSE AtRest)
    /\ UNCHANGED <<chosen, account, tables, flows, issued, notices, stamp, requests>>

-----------------------------------------------------------------------------
(* confirm_password *)

MayAuthenticate(row) == ~ row.locked /\ row.status = "active"

WithFailure(row) ==
    [row EXCEPT !.failed = IF @ < Threshold THEN @ + 1 ELSE @,
                !.locked = row.failed + 1 >= Threshold]

WithSuccess(row) == [row EXCEPT !.failed = 0, !.locked = FALSE]

Confirm(t) ==
    LET r == task[t] IN
    /\ IF \E row \in account : MayAuthenticate(row)
       THEN LET row == CHOOSE row \in account : TRUE
                g   == [r EXCEPT !.proved = TRUE]
            IN  Continue(t, "confirm",
                    IF r.sent = "wrong"
                    THEN [r EXCEPT !.at = "record_failure", !.row = {WithFailure(row)}]
                    ELSE IF row.failed > 0
                    THEN [g EXCEPT !.at = "clear_failures", !.row = {WithSuccess(row)}]
                    ELSE Admitted(g))
       ELSE Continue(t, "confirm", AtRest)
    /\ UNCHANGED <<chosen, account, tables, flows, issued, notices, stamp, requests>>

\* AccountStore.save of a row read earlier, which raises once it is deleted.
Save(t, step, next) ==
    /\ Continue(t, step, IF account = {} THEN AtRest ELSE next)
    /\ account' = IF account = {} THEN {} ELSE task[t].row
    /\ UNCHANGED <<chosen, tables, flows, issued, notices, stamp, requests>>

RecordFailure(t) == Save(t, "record_failure", AtRest)
ClearFailures(t) == Save(t, "clear_failures", Admitted(task[t]))

-----------------------------------------------------------------------------
(* _announce, and what is left of a request once it made its change *)

\* The change is made: its owner is to hear of it, or nobody asked to.
Made(t, step, r, announces) ==
    /\ Continue(t, step, IF announces THEN Then(r, "announce") ELSE AtRest)
    /\ owed' = IF announces THEN owed + 1 ELSE owed
    /\ UNCHANGED <<outbox, told, missed>>

\* Mutation of Announce: the change is announced once more.
AnnounceAgain(t) ==
    /\ task[t].at = "announce"
    /\ account # {}
    /\ outbox < MaxPending
    /\ outbox' = outbox + 1 /\ told' = told + 1
    /\ UNCHANGED <<owed, missed, chosen, account, tables, flows, issued, stamp, requests, task>>

\* Outbox.enqueue, for an account that is still there.
Announce(t) ==
    /\ Continue(t, "announce", AtRest)
    /\ IF account # {} /\ outbox < MaxPending
       THEN outbox' = outbox + 1 /\ told' = told + 1 /\ UNCHANGED missed
       ELSE missed' = missed + 1 /\ UNCHANGED <<outbox, told>>
    /\ UNCHANGED <<owed, chosen, account, tables, flows, issued, stamp, requests>>

\* A send that ended, one way or the other.
Delivered ==
    /\ outbox > 0
    /\ outbox' = outbox - 1
    /\ UNCHANGED <<owed, told, missed, chosen, account, tables, flows, issued, stamp, requests, task>>

-----------------------------------------------------------------------------
(* CredentialService: the changes themselves *)

\* put_direct_credential and finish_authorization find the profile first.
ReadProfile(t) ==
    LET r == task[t] IN
    /\ Continue(t, "read_profile",
            IF ~ profile THEN AtRest
            ELSE Then(r, IF r.who = "provider" THEN "exchange" ELSE "put_connection"))
    /\ UNCHANGED <<chosen, account, tables, flows, issued, notices, stamp, requests>>

ExchangeCode(t) ==
    /\ \E next \in {AtRest, Then(task[t], "put_connection")} : Continue(t, "exchange", next)
    /\ UNCHANGED <<chosen, account, tables, flows, issued, notices, stamp, requests>>

Stored(s, status) == IF profile THEN [connections EXCEPT ![s] = status] ELSE connections

PutConnection(t) ==
    LET r == task[t] IN
    /\ Continue(t, "put_connection", IF profile THEN Then(r, "put_secret") ELSE AtRest)
    /\ connections' = Stored(r.service, "active")
    /\ UNCHANGED <<chosen, account, profile, secrets, flows, issued, notices, stamp, requests>>

\* The foreign key refuses a secret of a deleted account.
PutSecret(t) ==
    LET r == task[t] IN
    /\ IF account # {}
       THEN Made(t, "put_secret", r, r.announces) /\ secrets' = secrets \cup {r.service}
       ELSE Continue(t, "put_secret", AtRest) /\ UNCHANGED <<secrets, notices>>
    /\ UNCHANGED <<chosen, account, profile, connections, flows, issued, stamp, requests>>

Warrant(r) == r.off \/ r.proved

\* begin_authorization up to its write.
IssueState(t, st) ==
    LET r == task[t] IN
    /\ IF profile
       THEN /\ Continue(t, "issue_state",
                   IF connections[r.service] = "active" THEN AtRest ELSE Then(r, "put_pending"))
            /\ st \in State \ issued
            /\ issued' = issued \cup {st}
            /\ flows' = [x \in DOMAIN flows \cup {st} |->
                           IF x = st THEN [service |-> r.service, warranted |-> Warrant(r)]
                           ELSE flows[x]]
       ELSE Continue(t, "issue_state", AtRest) /\ UNCHANGED <<flows, issued>>
    /\ UNCHANGED <<chosen, account, tables, notices, stamp, requests>>

PutPending(t) ==
    /\ Continue(t, "put_pending", AtRest)
    /\ connections' = Stored(task[t].service, "pending")
    /\ UNCHANGED <<chosen, account, profile, secrets, flows, issued, notices, stamp, requests>>

\* complete_authorization: the state is redeemed, then the settings are read.
RedeemState(t, st) ==
    /\ st \in DOMAIN flows
    /\ Start(t, [Going("read_settings",
                       [does |-> "store", who |-> "provider", sent |-> "nothing"],
                       flows[st].service) EXCEPT !.warranted = flows[st].warranted])
    /\ flows' = [x \in DOMAIN flows \ {st} |-> flows[x]]
    /\ UNCHANGED <<chosen, account, tables, issued, notices, stamp>>

ReadSettings(t) ==
    /\ \E answer \in Answers :
          Continue(t, "read_settings",
              IF Rejected(answer) THEN AtRest
              ELSE [task[t] EXCEPT !.at = "read_profile",
                        !.announces = AnnouncesCredentialChanges(ForAccount(answer))])
    /\ UNCHANGED <<chosen, account, tables, flows, issued, notices, stamp, requests>>

\* revoke_connection
ReadConnection(t) ==
    LET r == task[t] IN
    /\ Continue(t, "read_connection",
            IF profile /\ r.service \in Connected THEN Then(r, "delete_secret") ELSE AtRest)
    /\ UNCHANGED <<chosen, account, tables, flows, issued, notices, stamp, requests>>

DeleteSecret(t) ==
    LET r == task[t] IN
    /\ Continue(t, "delete_secret", Then(r, "remove_connection"))
    /\ secrets' = secrets \ {r.service}
    /\ UNCHANGED <<chosen, account, profile, connections, flows, issued, notices, stamp, requests>>

\* True even where another request removed it first: each announces it.
RemoveConnection(t) ==
    LET r == task[t] IN
    /\ Made(t, "remove_connection", r, r.announces)
    /\ connections' = [connections EXCEPT ![r.service] = "none"]
    /\ UNCHANGED <<chosen, account, profile, secrets, flows, issued, stamp, requests>>

\* delete_profile
DeleteProfile(t) ==
    LET r == task[t] IN
    /\ Continue(t, "delete_profile", IF profile THEN Then(r, "delete_secrets") ELSE AtRest)
    /\ profile' = FALSE
    /\ connections' = NoConnections
    /\ UNCHANGED <<chosen, account, secrets, flows, issued, notices, stamp, requests>>

DeleteSecrets(t) ==
    LET r == task[t] IN
    /\ Made(t, "delete_secrets", r, r.announces)
    /\ secrets' = {}
    /\ UNCHANGED <<chosen, account, profile, connections, flows, issued, stamp, requests>>

-----------------------------------------------------------------------------
(* What else happens to the account *)

CreateProfile ==
    /\ Active
    /\ ~ profile
    /\ profile' = TRUE
    /\ UNCHANGED <<chosen, account, connections, secrets, flows, issued, notices, stamp, requests, task>>

\* _open_session: the preferences are stamped on the session at its creation.
OpenSession ==
    /\ Active
    /\ requests < MaxRequests
    /\ requests' = requests + 1
    /\ \E answer \in Answers :
          /\ ~ Rejected(answer)
          /\ LET p == ForAccount(answer) IN
             /\ stamp' = Stamp(p)
             /\ IF AnnouncesNewSessions(p) /\ outbox < MaxPending
                THEN outbox' = outbox + 1 ELSE UNCHANGED outbox
    /\ UNCHANGED <<chosen, account, tables, flows, issued, owed, told, missed, task>>

\* Time passes: a lockout ends.
Unlock ==
    /\ \E row \in account : row.locked /\ account' = {[row EXCEPT !.locked = FALSE]}
    /\ UNCHANGED <<chosen, tables, flows, issued, notices, stamp, requests, task>>

Disable ==
    /\ \E row \in account : row.status = "active" /\ account' = {[row EXCEPT !.status = "disabled"]}
    /\ UNCHANGED <<chosen, tables, flows, issued, notices, stamp, requests, task>>

\* Everything the account owns goes with its row, in one transaction.
DeleteAccount ==
    /\ account # {}
    /\ account' = {}
    /\ profile' = FALSE
    /\ connections' = NoConnections
    /\ secrets' = {}
    /\ UNCHANGED <<chosen, flows, issued, notices, stamp, requests, task>>

\* A request dies where it awaits; a notice it had still to queue is lost.
Abandon(t) ==
    /\ task[t] # AtRest
    /\ task' = [task EXCEPT ![t] = AtRest]
    /\ missed' = IF task[t].at = "announce" THEN missed + 1 ELSE missed
    /\ UNCHANGED <<chosen, account, tables, flows, issued, outbox, owed, told, stamp, requests>>

ContinueRequest(t) ==
    \/ Admit(t) \/ Confirm(t) \/ RecordFailure(t) \/ ClearFailures(t) \/ Announce(t)
    \/ ReadProfile(t) \/ ExchangeCode(t) \/ PutConnection(t) \/ PutSecret(t)
    \/ \E st \in State : IssueState(t, st)
    \/ PutPending(t) \/ ReadSettings(t)
    \/ ReadConnection(t) \/ DeleteSecret(t) \/ RemoveConnection(t)
    \/ DeleteProfile(t) \/ DeleteSecrets(t)

Next ==
    \/ \E t \in Task :
          \/ \E r \in Requests, s \in Service : RequestChange(t, r, s)
          \/ \E r \in Requests : RequestRemoval(t, r)
          \/ \E st \in State : RedeemState(t, st)
          \/ ContinueRequest(t)
          \/ Abandon(t)
    \/ \E c \in Choices : Choose(c)
    \/ Delivered \/ CreateProfile \/ OpenSession \/ Unlock \/ Disable \/ DeleteAccount

Spec == Init /\ [][Next]_vars

-----------------------------------------------------------------------------
(* Properties *)

Step ==
    {"admit", "confirm", "record_failure", "clear_failures", "announce", "read_profile",
     "exchange", "put_connection", "put_secret", "issue_state", "put_pending", "read_settings",
     "read_connection", "delete_secret", "remove_connection", "delete_profile", "delete_secrets"}

RequestState ==
    [at: Step, does: {"store", "authorize", "revoke", "remove"},
     who: {"person", "service", "administrator", "provider"},
     sent: {"nothing", "right", "wrong"}, service: Service, announces: BOOLEAN,
     empty: BOOLEAN, row: SUBSET AccountRow, off: BOOLEAN, proved: BOOLEAN, warranted: BOOLEAN]

\* The settings, the tables, the flows and every request are well formed.
TypeOK ==
    /\ chosen \in Choices
    /\ account \in SUBSET AccountRow
    /\ profile \in BOOLEAN
    /\ connections \in [Service -> {"none", "pending", "active"}]
    /\ ~ profile => connections = NoConnections
    /\ secrets \in SUBSET Service
    /\ issued \in SUBSET State
    /\ DOMAIN flows \subseteq issued
    /\ flows \in [DOMAIN flows -> [service: Service, warranted: BOOLEAN]]
    /\ outbox \in Nat /\ owed \in Nat /\ told \in Nat /\ missed \in Nat /\ requests \in Nat
    /\ stamp \in [idle: Nat, absolute: Nat, cap: Nat]
    /\ task \in [Task -> {AtRest} \cup RequestState]

(***************************************************************************)
(* "A person who turned it on must not find it off": a request that brings *)
(* no password changes nothing, and begins no consent, while the owner has *)
(* require_reauth_for_credential_changes on from its first moment to its   *)
(* last, whatever settings-api answers, and whoever asks.  Exempt are an   *)
(* administrator, a consent that was begun with a warrant, the deletion of *)
(* the account, and the removal of a profile that held nothing when the    *)
(* request looked (remove_profile), though it may by then.                 *)
(***************************************************************************)
Warranted(r) ==
    \/ Warrant(r)
    \/ r.who = "administrator"
    \/ r.who = "provider" /\ r.warranted
    \/ r.does = "remove" /\ r.empty

NoUnprovenChange ==
    [][(<<connections, secrets>>' # <<connections, secrets>> \/ DOMAIN flows' \ DOMAIN flows # {}) =>
          account' = {} \/ \E t \in Task : task'[t] # task[t] /\ Warranted(task[t])]_vars

(***************************************************************************)
(* "On, the owner is mailed after the change": every change made for an    *)
(* owner who asked to hear of it is announced exactly once, unless the     *)
(* request died first, the outbox was full, or nobody is left to tell.     *)
(***************************************************************************)
EachChangeAnnouncedOnce ==
    owed = told + missed + Cardinality({t \in Task : task[t].at = "announce"})

(***************************************************************************)
(* "A person may narrow a ceiling and never raise it", and can never get a *)
(* session that is dead on arrival: whatever settings-api answers, login   *)
(* stamps lifetimes and a cap that are usable and within the deployment's. *)
(***************************************************************************)
StampWithinDeployment ==
    /\ stamp.idle \in 1 .. Idle
    /\ stamp.absolute \in stamp.idle .. Absolute
    /\ stamp.cap \in 1 .. Cap
=============================================================================
