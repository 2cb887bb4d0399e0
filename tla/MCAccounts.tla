---------------------------- MODULE MCAccounts ----------------------------
(***************************************************************************)
(* One account to begin with and rows for two signups, which may want the  *)
(* same e-mail or the same wallet.                                         *)
(***************************************************************************)
EXTENDS Accounts

CONSTANTS u1, u2, u3
=============================================================================
