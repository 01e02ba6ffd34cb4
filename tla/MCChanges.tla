------------------------------ MODULE MCChanges ------------------------------
(***************************************************************************)
(* Values for the constants of Changes.  A deployment with an idle window  *)
(* of one day and a half, a ceiling of three, and two sessions.            *)
(***************************************************************************)
EXTENDS Changes, TLC

Chosen(idle, absolute, sessions, mail, reauth) ==
    [idle |-> idle, absolute |-> absolute, sessions |-> sessions, mail |-> mail,
     notify_session |-> TRUE, notify_change |-> TRUE, reauth |-> reauth]

\* An owner who asks for the password and for mail, with a ceiling under the
\* idle window; and one who asks for neither and for more than there is.
MCChoices == {Chosen(2, 1, 1, TRUE, TRUE), Chosen(9, 9, 9, TRUE, FALSE)}

\* Values of the wrong shape, and numbers nobody can have chosen.
MCDamaged == {Chosen(Garbage, 0, 0, Garbage, Garbage)}

MCSymmetry == Permutations(Task)
=============================================================================
