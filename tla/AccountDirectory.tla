-------------------------- MODULE AccountDirectory --------------------------
(***************************************************************************)
(* What the account operations promise of the accounts table, if each took *)
(* effect at once and touched only what it is about: a failed login adds   *)
(* one failure, a successful one clears them, a password change changes    *)
(* the password, and nothing else about the account moves.  Demotion and   *)
(* deletion spare the last owner, an address is held once, and only the    *)
(* first account is born an owner.                                         *)
(***************************************************************************)
EXTENDS Integers

CONSTANTS Account, Email, Password, Role, OWNER, MEMBER, Threshold, Lockout, Seed

VARIABLES accounts, now

OtherOwner(a) ==
    \E b \in DOMAIN accounts \ {a} : OWNER \in accounts[b].roles

Change(a, row) ==
    /\ a \in DOMAIN accounts
    /\ accounts' = [accounts EXCEPT ![a] = row]

Register(a, email, password) ==
    /\ a \in Account \ DOMAIN accounts
    /\ \A b \in DOMAIN accounts : accounts[b].email # email
    /\ DOMAIN accounts' = DOMAIN accounts \cup {a}
    /\ \A b \in DOMAIN accounts : accounts'[b] = accounts[b]
    /\ accounts'[a] =
          [email |-> email, password |-> password, status |-> "active",
           failed |-> 0, locked |-> 0,
           roles |-> IF DOMAIN accounts = {} THEN {OWNER} ELSE {MEMBER}]

\* A failure at the threshold locks the account for at most the lockout.
Fail(a) ==
    \E until \in 0 .. now + Lockout :
        /\ IF accounts[a].failed + 1 >= Threshold
           THEN until > accounts[a].locked
           ELSE until = accounts[a].locked
        /\ Change(a, [accounts[a] EXCEPT !.failed = @ + 1, !.locked = until])

Succeed(a) == Change(a, [accounts[a] EXCEPT !.failed = 0, !.locked = 0])

SetPassword(a, new) ==
    Change(a, [accounts[a] EXCEPT !.password = new, !.failed = 0, !.locked = 0])

SetStatus(a, status) == Change(a, [accounts[a] EXCEPT !.status = status])

SetRoles(a, wanted) ==
    /\ OWNER \in accounts[a].roles \ wanted => OtherOwner(a)
    /\ Change(a, [accounts[a] EXCEPT !.roles = wanted])

Remove(a) ==
    /\ a \in DOMAIN accounts
    /\ OWNER \in accounts[a].roles => OtherOwner(a)
    /\ accounts' = [b \in DOMAIN accounts \ {a} |-> accounts[b]]

Operation ==
    \/ \E a \in Account, e \in Email, p \in Password : Register(a, e, p)
    \/ \E a \in DOMAIN accounts :
          \/ Fail(a)
          \/ Succeed(a)
          \/ \E p \in Password : SetPassword(a, p)
          \/ \E s \in {"active", "disabled"} : SetStatus(a, s)
          \/ \E wanted \in SUBSET Role : SetRoles(a, wanted)
          \/ Remove(a)

Init == accounts = Seed /\ now = 1

Next ==
    \/ Operation /\ now' = now
    \/ now' = now + 1 /\ accounts' = accounts

Spec == Init /\ [][Next]_<<accounts, now>>
=============================================================================
