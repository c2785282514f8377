----------------------------- MODULE MCAccounts -----------------------------
(* Accounts with two requests at once. *)
EXTENDS Accounts

CONSTANTS h1, h2
MCHandler == {h1, h2}
=============================================================================
