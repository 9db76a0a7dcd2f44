----------------------------- MODULE MCAccounts -----------------------------
(***************************************************************************)
(* Instances of Accounts for TLC.                                          *)
(***************************************************************************)
EXTENDS Accounts

MCHash == [p \in Passwords |-> <<"sha256", p>>]
=============================================================================
