---------------------------- MODULE MCRateLimiter ----------------------------
(***************************************************************************)
(* Budgets for RateLimiter: a login budget a success wipes and the budget  *)
(* of mail to one address, which nothing wipes.                            *)
(***************************************************************************)
EXTENDS RateLimiter

Budget(login, mail) == [login |-> login, mail |-> mail]

MCScope == {"login", "mail"}
MCLimit == Budget(2, 1)
MCWindow == Budget(3, 2)
=============================================================================
