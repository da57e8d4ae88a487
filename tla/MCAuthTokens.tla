------------------------------ MODULE MCAuthTokens ------------------------------
(* Instances of AuthTokens for TLC. *)
EXTENDS AuthTokens, TLC

CONSTANTS admin, user, p, q, r

DefaultAccount(isAdmin) ==
  [admin |-> isAdmin, active |-> TRUE, password |-> p, profile |-> r]

\* The two accounts of USERS_DB.
DefaultAccounts == (admin :> DefaultAccount(TRUE)) @@ (user :> DefaultAccount(FALSE))
===============================================================================
