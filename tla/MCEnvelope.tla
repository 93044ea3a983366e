----------------------------- MODULE MCEnvelope -----------------------------
(* Instances of Envelope for TLC. *)
EXTENDS Envelope

CONSTANTS r1, r2

MCRoot == {r1, r2}

OnePrimary == {<<"p">>}

(* Each wallet has a mnemonic without and one with a secondary passphrase. *)
NoneOrSome == {<< >>, <<"q">>}
=============================================================================
