----------------------------- MODULE MCAccounts -----------------------------
(***************************************************************************)
(* Values for the constants of Accounts.                                   *)
(***************************************************************************)
EXTENDS IsolatedAccounts, TLC

CONSTANTS a1, a2, a3, e1, e2, p1, p2

MCAccount == {a1, a2}
ThreeAccounts == {a1, a2, a3}
MCEmail == {e1, e2}
MCPassword == {p1, p2}

Row(email, roleNames) ==
    [email |-> email, password |-> p1, status |-> "active",
     failed |-> 0, locked |-> 0, roles |-> roleNames]

\* A fresh deployment; one with its owner; one with an owner and a member.
NoAccounts == [a \in {} |-> None]
OneOwner == a1 :> Row(e1, {OWNER})
OwnerAndMember == a1 :> Row(e1, {OWNER}) @@ a2 :> Row(e2, {MEMBER})

\* Differing idle windows; and a person who kept the deployment's own.
TwoPrefs == {[idle |-> 1, absolute |-> 2, cap |-> 1], [idle |-> 2, absolute |-> 2, cap |-> 2]}
OnePref == {[idle |-> 2, absolute |-> 3, cap |-> 2]}

\* Requests, sessions, grants and accounts to come are interchangeable.
MCSymmetry ==
    Permutations(Task) \cup Permutations(SessionId) \cup Permutations(GrantId)
        \cup Permutations(Account \ DOMAIN Seed)

SessionOps == {"login", "resolve", "logout", "delete", "sweep"}
OwnerOps == {"confirm", "set_status", "set_roles", "delete", "sweep"}
GrantOps ==
    {"login", "invite", "request_reset", "redeem", "change_password", "delete", "sweep"}
IsolatedOps == Operations \ {"resolve", "logout", "set_roles", "sweep"}
=============================================================================
