---------------------------- MODULE MCJwksClient ----------------------------
(***************************************************************************)
(* Values for the constants of JwksClient are in the configuration: two    *)
(* requests, two keys keyring signs with and one id it never published.    *)
(***************************************************************************)
EXTENDS JwksClient, TLC

Interchangeable == Permutations(Task) \cup Permutations(Signing)
=============================================================================
