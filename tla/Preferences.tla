----------------------------- MODULE Preferences -----------------------------
(***************************************************************************)
(* core/preferences.py: what one person has chosen at settings-api, and    *)
(* what keyring makes of the answer it gets, or does not get.  Operators   *)
(* only: an answer goes in, the preferences a login or a credential change *)
(* works with come out.                                                    *)
(***************************************************************************)
EXTENDS Integers

CONSTANTS
    Idle, Absolute, Cap,    \* Settings: session_ttl_seconds, ..._absolute_..., max_sessions_...
    Day,                    \* SECONDS_PER_DAY
    IdleDaysMax,            \* SESSION_TTL_DAYS_MAX
    AbsoluteDaysMax,        \* SESSION_ABSOLUTE_TTL_DAYS_MAX
    SessionsMax,            \* MAX_SESSIONS_MAX
    Missing,                \* settings-api has no such entry
    Garbage,                \* a value of the wrong shape
    Refused,                \* reading the entry raises SettingsRefused
    Unknown                 \* None, where a setting must not be guessed

\* What the configuration admits (_check_lifetimes, PositiveInt).
ASSUME DeploymentAssumption ==
    /\ Idle \in Nat \ {0} /\ Absolute \in Nat \ {0} /\ Cap \in Nat \ {0}
    /\ Idle <= Absolute
ASSUME CatalogueAssumption ==
    /\ Day \in Nat \ {0}
    /\ IdleDaysMax \in Nat \ {0} /\ AbsoluteDaysMax \in Nat \ {0} /\ SessionsMax \in Nat \ {0}
ASSUME DistinctAssumption ==
    /\ Missing \notin Nat /\ Garbage \notin Nat
    /\ {Missing, Garbage, Refused, Unknown} \cap BOOLEAN = {}
    /\ Missing # Garbage /\ Refused # Missing

Number == Nat \cup {Missing, Garbage}
Switched == BOOLEAN \cup {Missing, Garbage}

\* One person's resolved namespace, as the settings client hands it over.
Resolved ==
    [idle: Number, absolute: Number, sessions: Number, mail: Switched, notify_session: Switched,
     notify_change: Switched, reauth: Switched \cup {Refused}]

\* What HttpSettingsClient.resolve returns or raises.
Answer == [outcome: {"resolved"}, values: Resolved] \cup [outcome: {"unavailable", "rejected"}]

Preference ==
    [idle: Nat, absolute: Nat, cap: Nat, mail: BOOLEAN, notify_session: BOOLEAN,
     notify_change: BOOLEAN, reauth: BOOLEAN \cup {Unknown}]

\* deployment_preferences
Deployment ==
    [idle |-> Idle, absolute |-> Absolute, cap |-> Cap, mail |-> TRUE,
     notify_session |-> FALSE, notify_change |-> FALSE, reauth |-> FALSE]

Lesser(m, n) == IF m <= n THEN m ELSE n
Greater(m, n) == IF m >= n THEN m ELSE n

\* _whole_number: anything but a number of at least one counts as not given.
Given(value) == value \notin {Missing, Garbage} /\ value >= 1

\* _narrow_ttl; the catalogue's minimum is one day.
NarrowTtl(deployment, days, most) ==
    IF Given(days) THEN Lesser(deployment, Greater(1, Lesser(days, most)) * Day) ELSE deployment

\* _narrow_count; the catalogue's minimum is one session.
NarrowCount(deployment, chosen, most) ==
    IF Given(chosen) THEN Lesser(deployment, Greater(1, Lesser(chosen, most))) ELSE deployment

\* _switch
Switch(value, default) == IF value \in {Missing, Garbage} THEN default ELSE value

\* Mutation of Reauthentication: an unusable answer is the deployment's, as in _switch.
ReauthenticationGuessed(value) == IF value \in {Missing, Garbage, Refused} THEN FALSE ELSE value

\* _reauthentication: off only where no choice could ever have been stored.
Reauthentication(value) ==
    IF value = Missing THEN FALSE
    ELSE IF value \in {Garbage, Refused} THEN Unknown ELSE value

\* Mutation of Apply: each lifetime is narrowed by itself.
ApplyApart(r) ==
    [idle |-> NarrowTtl(Idle, r.idle, IdleDaysMax),
     absolute |-> NarrowTtl(Absolute, r.absolute, AbsoluteDaysMax),
     cap |-> NarrowCount(Cap, r.sessions, SessionsMax),
     mail |-> Switch(r.mail, TRUE), notify_session |-> Switch(r.notify_session, FALSE),
     notify_change |-> Switch(r.notify_change, FALSE), reauth |-> Reauthentication(r.reauth)]

\* _apply: a ceiling below the idle window gives way to it.
Apply(r) ==
    LET idle == NarrowTtl(Idle, r.idle, IdleDaysMax) IN
    [idle |-> idle,
     absolute |-> Greater(idle, NarrowTtl(Absolute, r.absolute, AbsoluteDaysMax)),
     cap |-> NarrowCount(Cap, r.sessions, SessionsMax),
     mail |-> Switch(r.mail, Deployment.mail),
     notify_session |-> Switch(r.notify_session, Deployment.notify_session),
     notify_change |-> Switch(r.notify_change, Deployment.notify_change),
     reauth |-> Reauthentication(r.reauth)]

\* A refusal is not an outage: no preferences come of it, and the request fails.
Rejected(answer) == answer.outcome = "rejected"

\* SettingsApiPreferences.for_account, of an answer that is not a refusal.
ForAccount(answer) ==
    IF answer.outcome = "resolved" THEN Apply(answer.values)
    ELSE [Deployment EXCEPT !.reauth = Unknown]

AnnouncesNewSessions(p) == p.mail /\ p.notify_session
AnnouncesCredentialChanges(p) == p.mail /\ p.notify_change
=============================================================================
