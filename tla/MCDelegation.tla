---------------------------- MODULE MCDelegation ----------------------------
(***************************************************************************)
(* Values for the constants of Delegation: two services, each of which may *)
(* hand on to the other, until a restart takes that from the first.        *)
(***************************************************************************)
EXTENDS Delegation, TLC

CONSTANTS s1, s2

Wide == s1 :> {s2} @@ s2 :> {s1}
Narrow == s1 :> {} @@ s2 :> {s1}

MCConfigs == {Wide, Narrow}

MCSymmetry == Permutations(Task) \cup Permutations(GrantId)
=============================================================================
