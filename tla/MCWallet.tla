------------------------------ MODULE MCWallet ------------------------------
(* Instances of Wallet for TLC. *)
EXTENDS Wallet

CONSTANTS r1, r2, foreign, malformed, hello, s1

MCRoot == {r1, r2}

TwoPrimaries == {<<"p">>, <<"q">>}
NoneOrSome == {<< >>, <<"q">>}

(* Two strings of bytes from C that are not UTF-8 ("p" and "q" with an     *)
(* accent in Latin-1); from WASM, a passphrase with a NUL inside: "p\0q".  *)
Latin1 == {"p^", "q^"}
AnyPrimaries == {<<"">>, <<"p">>, <<"p", "q">>, <<"p^">>, <<"q^">>}
AnySecondaries == {<< >>, <<"">>, <<"q">>, <<"q^">>}
=============================================================================
