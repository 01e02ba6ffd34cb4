-------------------------- MODULE IsolatedAccounts --------------------------
(***************************************************************************)
(* The account operations while requests do not get in each other's way,   *)
(* and what they promise of the accounts table then.                       *)
(***************************************************************************)
EXTENDS Accounts

(***************************************************************************)
(* The same system as long as requests leave each other alone: while one   *)
(* about an account is in flight, no other changes that account's row or   *)
(* adds to its sessions and reset links; and while one is about to add an  *)
(* account, no other adds the first.                                       *)
(***************************************************************************)
Isolated ==
    \A t \in Task :
        task'[t] = task[t] =>
            /\ ("acct" \in DOMAIN task[t] /\ task[t].acct \in DOMAIN accounts') =>
                  LET a == task[t].acct IN
                  /\ accounts'[a] = accounts[a]
                  /\ SessionsOf(a)' \subseteq SessionsOf(a)
                  /\ ResetsOf(a)' \subseteq ResetsOf(a)
            /\ task[t].at = "add_account" =>
                  ((DOMAIN accounts' = {}) <=> (DOMAIN accounts = {}))

IsolatedSpec == Init /\ [][Next /\ Isolated]_vars

\* What the directory sees of the system: its accounts and the clock. The
\* sessions, the links and the requests in flight are not part of it.
Directory ==
    INSTANCE AccountDirectory WITH
        Account <- Account, Email <- Email, Password <- Password, Role <- Role,
        OWNER <- OWNER, MEMBER <- MEMBER, Threshold <- Threshold,
        Lockout <- Lockout, Seed <- Seed, accounts <- accounts, now <- now

(***************************************************************************)
(* Requests that leave each other's account alone implement the account    *)
(* directory: every write is one operation on one account, and no write    *)
(* changes anything else about it.                                         *)
(***************************************************************************)
ImplementsDirectory == Directory!Spec
=============================================================================
