----------------------------- MODULE MCAccounts -----------------------------
(***************************************************************************)
(* Accounts with two workers, so that two of them seed the first admin at  *)
(* once, and two calls under way at a time.                                *)
(***************************************************************************)
EXTENDS Accounts

MCIds == 1..5
=============================================================================
