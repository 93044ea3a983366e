-------------------------------- MODULE MCEvm --------------------------------
(* An instance of EvmTransaction for TLC: numbers of two and three bytes,  *)
(* accounts of two; the data reaches over the boundaries of RLP.           *)
EXTENDS EvmTransaction

MCTronCheck(bytes) == <<FoldLeft(LAMBDA sum, b : (sum * 7 + b + 3) % 256, 0, bytes)>>

Account == <<0, 1, 10, 11>>

Tx == [kind |-> "eip1559", key |-> 1, chain |-> 1, nonce |-> <<0>>, fees |-> <<<<2>>, <<8, 0>>>>,
       gas |-> <<5, 2, 0, 8>>, to |-> Account, value |-> <<1>>, data |-> << >>, call |-> {}]

Filled(size) == [i \in 1..(2 * size) |-> i % 3]

(* Requests that differ from one in a field or two.                        *)
Variants(tx) ==
    {tx,
     [tx EXCEPT !.chain = 300],
     [tx EXCEPT !.chain = 40000],
     [tx EXCEPT !.nonce = <<1>>],
     [tx EXCEPT !.nonce = << >>, !.value = <<0, 8, 0>>],
     [tx EXCEPT !.nonce = <<1, 0, 0, 0, 0>>],
     [tx EXCEPT !.fees = <<<<>>, <<1, 2, 3, 4, 5, 6>>>>, !.value = <<1, 0, 0, 0, 0>>],
     [tx EXCEPT !.fees = <<<<16>>, <<1>>>>],
     [tx EXCEPT !.gas = <<7, 15>>, !.to = <<1, 2, 3>>],
     [tx EXCEPT !.gas = <<7, 15>>, !.to = <<1, 2>>],
     [tx EXCEPT !.data = <<0>>],
     [tx EXCEPT !.data = Filled(40)],
     [tx EXCEPT !.data = Filled(55)],
     [tx EXCEPT !.data = Filled(56)],
     [tx EXCEPT !.data = Filled(256)],
     [tx EXCEPT !.key = 2]}

Bytes9 == [i \in 1..9 |-> 49]
Bytes11 == [i \in 1..11 |-> 49]

Ask(kind, key, message) == [kind |-> kind, key |-> key, message |-> message, call |-> {}]
AskHash(kind, hash) == [kind |-> kind, key |-> 1, hash |-> hash, call |-> {}]

TronAccount == <<65, 0, 27>> \o MCTronCheck(<<65, 0, 27>>)

Call(token, to, amount) == {[token |-> token, to |-> to, amount |-> amount]}

MCEvmRequest ==
    Variants(Tx) \cup Variants([Tx EXCEPT !.kind = "type0", !.fees = <<<<9>>, << >>>>])
      \cup {[Tx EXCEPT !.call = Call("transfer", Account, <<3, 0, 0>>)],
            [Tx EXCEPT !.kind = "type0", !.call = Call("approve", Account, [i \in 1..6 |-> 15])]}
      \cup {[kind |-> "tron_raw", key |-> 3, raw |-> << >>, call |-> Call("trc20", a, 5)] :
              a \in {[TronAccount EXCEPT ![3] = 28]} \cup
                    UNION {hex_to_address(h) : h \in address_to_hex(TronAccount)}}
      \cup {Ask("personal_message", 1, Bytes9), Ask("personal_message", 1, Bytes11),
            Ask("personal_message", 2, <<49>> \o Bytes9), Ask("tron_message", 3, Bytes9),
            AskHash("typed_data", {}), AskHash("typed_data", {Keccak(<<25, 1>>)}),
            AskHash("tron_transaction", {Sha256(<<7>>)}),
            AskHash("tron_message_hash", {tron_message_hash(<<7>>)})}

MCEvmMessage == {Bytes9, Bytes11, <<49>> \o Bytes9, <<49, 49>> \o Bytes9, <<49>>}

MCSignature ==
    {[y |-> 0, r |-> <<0, 0, 1>>, s |-> <<200, 0, 1>>], [y |-> 1, r |-> <<130, 0, 2>>, s |-> <<0, 0, 2>>],
     [y |-> 0, r |-> <<0, 3, 3>>, s |-> <<7, 0, 3>>]}
=============================================================================
