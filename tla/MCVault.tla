------------------------------ MODULE MCVault ------------------------------
(* Instances of Vault for TLC. *)
EXTENDS Vault

CONSTANTS r1, r2, foreign, malformed, hello

MCRoot == {r1, r2}

TwoPrimaries == {<<"p">>, <<"q">>}

NoSecondary == {<< >>}

(* The personal wallet and two vaults.                                     *)
TwoContexts == {"", "v1", "v2"}
=============================================================================
