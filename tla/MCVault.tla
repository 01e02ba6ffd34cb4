------------------------------- MODULE MCVault -------------------------------
(***************************************************************************)
(* Values for the constants of Vault.                                      *)
(***************************************************************************)
EXTENDS Vault, TLC

CONSTANTS p1, p2, s1, s2

\* A new account's vault, and one with a connection that can be renewed.
EmptyVault == [key \in {} |-> None]
OneConnection == <<p1, s1>> :> [kind |-> "oauth2", access |-> 1, refresh |-> 1, grant |-> 1]

VaultOps == Operations
RenewalOps == {"resolve", "direct", "authorize", "callback", "sweep"}

\* From an empty vault everything with a name is interchangeable.
MCSymmetry ==
    Permutations(Task) \cup Permutations(State)
        \cup Permutations(Profile) \cup Permutations(Service)
=============================================================================
