------------------------------ MODULE MCBitcoin ------------------------------
(* An instance of BitcoinTransaction for TLC: two wallets, one of them     *)
(* with an odd key; two outpoints whose ids are each other's reverse.      *)
EXTENDS BitcoinTransaction

MCCheck(bytes) == <<FoldLeft(LAMBDA sum, b : (sum * 7 + b + 3) % 256, 0, bytes)>>

OutpointA == [txid |-> <<1, 2>>, vout |-> 0]
OutpointB == [txid |-> <<2, 1>>, vout |-> 0]

(* A payment for each kind of address and each way to spell it.            *)
Pay(outpoint, key, kind, testnet, spelling) ==
    [outpoint |-> outpoint, key |-> key, kind |-> kind, testnet |-> testnet,
     spelling |-> spelling, value |-> 300]

MCPayment ==
    {Pay(o, 1, "wpkh", FALSE, "shown") : o \in {OutpointA, OutpointB}}
      \cup {Pay(o, 2, "tr", TRUE, "converted") : o \in {OutpointA, OutpointB}}
      \cup {Pay(OutpointA, 1, "tr", FALSE, "shown"), Pay(OutpointB, 2, "raw", FALSE, "shown"),
            Pay(OutpointA, 1, "wpkh", TRUE, "bech32"), Pay(OutpointB, 2, "tr", FALSE, "mistyped"),
            Pay(OutpointA, 2, "pkh", FALSE, "shown"), Pay(OutpointB, 2, "pkh", FALSE, "stripped"),
            Pay(OutpointA, 1, "pkh", TRUE, "mistyped")}

(* Scripts that an application knows: of the coins, of a payee, and a long *)
(* one at the boundary of its length.                                      *)
Wpkh1 == p2wpkh_script_pubkey(Hash160(1))
Tr2 == <<81, 3, 2, 1, 1>>
Payee == p2sh_script_pubkey(<<9>>)
Long == [i \in 1..253 |-> 7]

In(txid, script) ==
    [txid |-> txid, vout |-> {0}, value |-> {300}, sequence |-> {}, script_pubkey |-> script]
Out(value, script) == [value |-> {value}, script_pubkey |-> {script}]

Json(ins, outs) == [inputs |-> {ins}, outputs |-> {outs}, version |-> {}, locktime |-> {}]

Plain == Json(<<In(<<2, 1>>, {})>>, <<Out(299, Payee)>>)

MCBtcJson ==
    {Plain,
     [Plain EXCEPT !.version = {1}, !.locktime = {5}],
     [Plain EXCEPT !.version = {258}],
     [Plain EXCEPT !.inputs = {}],
     [Plain EXCEPT !.outputs = {}],
     Json(<<>>, <<Out(299, Payee)>>),
     Json(<<[In(<<2, 1>>, {}) EXCEPT !.txid = <<256>>]>>, <<Out(299, Payee)>>),
     Json(<<[In(<<2, 1>>, {}) EXCEPT !.vout = {256}]>>, <<Out(299, Payee)>>),
     Json(<<[In(<<2, 1>>, {}) EXCEPT !.vout = {}]>>, <<Out(299, Payee)>>),
     Json(<<[In(<<2, 1>>, {}) EXCEPT !.value = {600}]>>, <<Out(599, Payee)>>),
     Json(<<[In(<<2, 1>>, {}) EXCEPT !.value = {299}, !.sequence = {0}]>>, <<Out(299, Payee)>>),
     Json(<<In(<<1, 2>>, {Wpkh1})>>, <<Out(100, Payee), Out(200, Wpkh1)>>),
     Json(<<In(<<1, 2>>, {})>>, <<Out(0, Payee)>>),
     Json(<<In(<<2, 1>>, {}), In(<<1, 2>>, {})>>, <<Out(599, Long)>>),
     Json(<<In(<<2, 1>>, {}), In(<<2, 1>>, {})>>, <<Out(599, Payee)>>),
     Json(<<In(<<2, 1>>, {Tr2})>>, <<Out(299, Long)>>),
     Json(<<In(<<2, 1>>, {Tr2}), In(<<1, 2>>, {Tr2})>>, <<Out(600, Payee)>>),
     Json(<<[In(<<2, 1>>, {Tr2}) EXCEPT !.value = {600}]>>, <<Out(299, Payee)>>),
     Json(<<In(<<2, 1>>, {Tr2}), In(<<1, 2>>, {})>>, <<Out(600, Payee)>>),
     Json(<<In(<<1, 2>>, {<<81, 3, 2, 0, 0>>})>>, <<Out(299, Payee)>>)}
=============================================================================
