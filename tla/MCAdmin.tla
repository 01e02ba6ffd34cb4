------------------------------- MODULE MCAdmin -------------------------------
(***************************************************************************)
(* Values for the constants of Admin: an owner who makes no request, a     *)
(* manager who may do all but read the audit log, and an editor who only   *)
(* writes roles.  Of the built-in roles there are the owner's and one that *)
(* allows what neither of the two may do.                                  *)
(***************************************************************************)
EXTENDS Admin, TLC

CONSTANTS o, a, b, AUDITOR, MANAGER, EDITOR

MCPermission ==
    {"roles:write", "roles:assign", "accounts:invite", "audit:read"} \cup {Needs[act] : act \in Against}

MCBuiltin == OWNER :> MCPermission @@ AUDITOR :> {"audit:read"}
MCRoles ==
    MCBuiltin @@ MANAGER :> (MCPermission \ {"audit:read"})
              @@ EDITOR :> {"roles:write"}
MCHeld == o :> {OWNER} @@ a :> {MANAGER} @@ b :> {EDITOR}

\* A role as strong as its writer, and one beyond the ceiling.
MCWanted == {{"roles:write"}, {"audit:read"}}

\* Requests are interchangeable.
MCSymmetry == Permutations(Task)
=============================================================================
