-------------------------- MODULE BitcoinTransaction --------------------------
(***************************************************************************)
(* Bitcoin: the addresses that a wallet shows, and the transactions that   *)
(* it signs from the JSON of an application (bitcoin_signer.rs, and the    *)
(* parser that wasm.rs and ffi.rs each have).  Whether coins that arrive   *)
(* at a shown address can be spent, and whether a signed transaction       *)
(* spends what was asked for, shows only when the network reads the bytes  *)
(* and recomputes the hashes from its own coins.  The network is outside   *)
(* the repository; it is modelled by its wire format and the consensus     *)
(* rules of BIP143, BIP340 and BIP341.                                     *)
(*                                                                         *)
(* Transactions are bytes, up to their witnesses, which hold symbolic      *)
(* signatures.  Hashes are their preimages.  Text that is not hex is a     *)
(* sequence with a member that is not a byte.                              *)
(***************************************************************************)
EXTENDS Bytes, FiniteSets

CONSTANTS
  TxidSize,       (* Bytes of a transaction id: 32.                       *)
  WordSize,       (* Bytes of a u32: 4.                                   *)
  ValueSize,      (* Bytes of a u64: 8.                                   *)
  KeyHashSize,    (* Bytes of hash160: 20.                                *)
  XOnlySize,      (* Bytes of an x coordinate: 32.                        *)
  CheckSize,      (* Bytes of a Base58 checksum: 4.                       *)
  Check(_),       (* The Base58 checksum of bytes.                        *)
  BtcKey,         (* Secret keys, one per wallet, each a byte.            *)
  OddKey,         (* Those whose public key has an odd y.                 *)
  WasmBuild,      (* The build for wasm32 shows the addresses.            *)
  Payment,        (* Payments that may arrive.                            *)
  BtcJson,        (* What applications may ask a wallet to sign.          *)
  MaxWaiting      (* Bound: transactions signed and not yet confirmed.    *)

ASSUME BtcAssumption ==
    /\ {TxidSize, WordSize, ValueSize, KeyHashSize, XOnlySize, CheckSize} \subseteq Nat \ {0}
    /\ {KeyHashSize, XOnlySize} \subseteq Octet
    /\ BtcKey \subseteq Octet \ {0}
    /\ OddKey \subseteq BtcKey
    /\ WasmBuild \in BOOLEAN

VARIABLES
  btcCoins,       (* From outpoints to unspent coins.                     *)
  btcWaiting,     (* Signed transactions, with what was asked for.        *)
  btcConfirmed    (* Confirmed transactions, with what was asked for.     *)

btcVars == <<btcCoins, btcWaiting, btcConfirmed>>

-----------------------------------------------------------------------------
(* Keys *)

(* A scalar is a key or its negation, with the tweak of the key's x        *)
(* coordinate added or not.                                                *)
SecretScalar(key) == [key |-> key, negated |-> FALSE, tweaked |-> FALSE]

(* The x coordinate of a scalar's point: a point and its negation share it.*)
XOnly(scalar) ==
    LET kind == IF ~scalar.tweaked THEN 0 ELSE IF scalar.negated THEN 1 ELSE 2
    IN [i \in 1..XOnlySize |-> IF i = 1 THEN scalar.key ELSE kind]

Hash160(key) == [i \in 1..KeyHashSize |-> key]

(* The tweaked key of BIP341: the tweak is added to the secret of the      *)
(* point that has the same x and an even y.                                *)
taproot_tweak_seckey(key) ==
    [key |-> key, negated |-> key \in OddKey, tweaked |-> TRUE]

-----------------------------------------------------------------------------
(* Scripts and addresses *)

p2wpkh_script_pubkey(hash) == <<0, KeyHashSize>> \o hash
p2pkh_script_pubkey(hash) == <<118, 169, KeyHashSize>> \o hash \o <<136, 172>>
p2sh_script_pubkey(hash) == <<169, KeyHashSize>> \o hash \o <<135>>

is_p2tr_script(script) ==
    Len(script) = XOnlySize + 2 /\ script[1] = 81 /\ script[2] = XOnlySize

(* Groups of from bits regrouped into groups of to bits.                   *)
convert_bits(data, from, to, pad) ==
    LET bits == FlattenSeq([i \in DOMAIN data |-> DigitsIn(2, data[i], from)])
        whole == Len(bits) \div to
        rest == SubSeq(bits, whole * to + 1, Len(bits))
        groups == [i \in 1..whole |-> NumberIn(2, SubSeq(bits, (i - 1) * to + 1, i * to))]
        last == IF rest = << >> THEN << >>
                ELSE <<NumberIn(2, rest) * Power(2, to - Len(rest))>>
    IN {result \in {IF pad THEN groups \o last ELSE groups} :
          /\ \A i \in DOMAIN data : data[i] < Power(2, from)
          /\ pad \/ (Len(rest) < from /\ NumberIn(2, rest) = 0)}

(* A Bech32 text: a checksum commits to what it is over and to which of    *)
(* the two constants was used.                                             *)
encode_bech32(hrp, version, program) ==
    {[format |-> "bech32", hrp |-> hrp, data |-> <<version>> \o groups,
      check  |-> [hrp |-> hrp, data |-> <<version>> \o groups, bech32m |-> version # 0]] :
       groups \in convert_bits(program, 8, 5, TRUE)}

(* The witness version and program of an address.                          *)
decode_bech32_address(address) ==
    LET data == address.data
        Sizes(version) == CASE version = 0 -> {KeyHashSize, XOnlySize}
                            [] version = 1 -> {XOnlySize}
                            [] OTHER -> 2..40
    IN IF \/ address.format # "bech32" \/ data = << >>
          \/ address.check.hrp # address.hrp \/ address.check.data # data
       THEN {}
       ELSE {[version |-> data[1], program |-> program] :
               program \in {p \in convert_bits(Tail(data), 5, 8, FALSE) :
                              /\ data[1] <= 16
                              /\ address.check.bech32m = (data[1] # 0)
                              /\ Len(p) \in Sizes(data[1])}}

bitcoin_convert_address_network(address, testnet) ==
    UNION {encode_bech32(IF testnet THEN "tb" ELSE "bc", w.version, w.program) :
             w \in decode_bech32_address(address)}

(* The digits of a number to base 58; a one is the digit zero.             *)
encode_base58(bytes) ==
    LET n == Number(bytes)
        size == CHOOSE size \in 0..(2 * Len(bytes)) :
                  n < Power(58, size) /\ (size = 0 \/ n >= Power(58, size - 1))
    IN [i \in 1..LeadingZeros(bytes) |-> 0] \o DigitsIn(58, n, size)

encode_base58check(version, hash) ==
    [format |-> "base58",
     digits |-> encode_base58(<<version>> \o hash \o Check(<<version>> \o hash))]

(* Mutant of decode_base58check_address: missing leading bytes are not     *)
(* filled in, and the checksum is not verified.                            *)
DecodeUnchecked(address) ==
    LET digits == address.digits
        n == NumberIn(58, digits)
        bytes == [i \in 1..LeadingZeros(digits) |-> 0] \o MinimalBytes(n)
    IN IF Len(bytes) # 1 + KeyHashSize + CheckSize THEN {}
       ELSE {[version |-> bytes[1], hash |-> SubSeq(bytes, 2, 1 + KeyHashSize)]}

LegacyVersion == {0, 5, 111, 196}

(* The version byte and hash of a legacy address.  Bytes that are missing  *)
(* at the front are filled in with zeros.                                  *)
decode_base58check_address(address) ==
    LET size == 1 + KeyHashSize + CheckSize
        digits == address.digits
        n == NumberIn(58, digits)
        filled == size - Len(MinimalBytes(n))
        zeros == IF LeadingZeros(digits) < filled THEN filled ELSE LeadingZeros(digits)
        bytes == [i \in 1..zeros |-> 0] \o MinimalBytes(n)
        payload == SubSeq(bytes, 1, 1 + KeyHashSize)
    IN IF \/ Len(bytes) # size
          \/ Check(payload) # SubSeq(bytes, 2 + KeyHashSize, size)
          \/ payload[1] \notin LegacyVersion
       THEN {}
       ELSE {[version |-> payload[1], hash |-> Tail(payload)]}

address_to_script_pubkey(address) ==
    IF address.format = "bech32"
    THEN {<<IF w.version = 0 THEN 0 ELSE 80 + w.version, Len(w.program)>> \o w.program :
            w \in {w \in decode_bech32_address(address) : address.hrp \in {"bc", "tb"}}}
    ELSE {IF a.version \in {0, 111} THEN p2pkh_script_pubkey(a.hash)
                                    ELSE p2sh_script_pubkey(a.hash) :
            a \in decode_base58check_address(address)}

pubkey_to_p2wpkh_address(key, testnet) ==
    encode_bech32(IF testnet THEN "tb" ELSE "bc", 0, Hash160(key))

pubkey_to_p2pkh_address(key, testnet) ==
    {encode_base58check(IF testnet THEN 111 ELSE 0, Hash160(key))}

(* The build for wasm32 adds the tweak to the public key as it is; the     *)
(* native one calls Address::p2tr, which takes the point with an even y.   *)
derive_btc_taproot_address_for_network(key, testnet) ==
    LET output == IF WasmBuild THEN [key |-> key, negated |-> FALSE, tweaked |-> TRUE]
                               ELSE [key |-> key, negated |-> key \in OddKey, tweaked |-> TRUE]
    IN encode_bech32(IF testnet THEN "tb" ELSE "bc", 1, XOnly(output))

-----------------------------------------------------------------------------
(* The JSON of a transaction *)

IsHex(s) == \A i \in DOMAIN s : s[i] \in 0..255

(* A field is the set of its value, empty when it is missing or of a type  *)
(* that the parser does not take.  A number of JSON has 64 bits, a field   *)
(* of a transaction has 32: the rest is cut off.                           *)
Word(n) == n % Values(WordSize)

(* Mutant of ParseInput: the transaction id stays in display order.        *)
ParseInputAsShown(input) ==
    [txid |-> input.txid, vout |-> Word(OrElse(input.vout, 0)),
     value |-> OrElse(input.value, 0),
     sequence |-> Word(OrElse(input.sequence, Values(WordSize) - 3)),
     script_pubkey |-> OrElse(input.script_pubkey, << >>)]

ParseInput(input) ==
    [txid |-> Reverse(input.txid), vout |-> Word(OrElse(input.vout, 0)),
     value |-> OrElse(input.value, 0),
     sequence |-> Word(OrElse(input.sequence, Values(WordSize) - 3)),
     script_pubkey |-> OrElse(input.script_pubkey, << >>)]

IsInput(input) ==
    /\ IsHex(input.txid) /\ Len(input.txid) = TxidSize
    /\ input.vout # {} /\ input.value # {}
    /\ \A s \in input.script_pubkey : IsHex(s)

ParseOutput(output) ==
    [value |-> OrElse(output.value, 0), script_pubkey |-> OrElse(output.script_pubkey, << >>)]

IsOutput(output) ==
    /\ output.value # {} /\ output.script_pubkey # {}
    /\ \A s \in output.script_pubkey : IsHex(s)

parse_bitcoin_tx_json(json) ==
    {[version  |-> Word(OrElse(json.version, 2)),
      inputs   |-> [i \in DOMAIN arrays[1] |-> ParseInput(arrays[1][i])],
      outputs  |-> [i \in DOMAIN arrays[2] |-> ParseOutput(arrays[2][i])],
      locktime |-> Word(OrElse(json.locktime, 0))] :
       arrays \in {a \in json.inputs \X json.outputs :
                     /\ \A i \in DOMAIN a[1] : IsInput(a[1][i])
                     /\ \A i \in DOMAIN a[2] : IsOutput(a[2][i])}}

-----------------------------------------------------------------------------
(* Signing *)

write_varint(n) ==
    IF n < 253 THEN <<n>>
    ELSE IF n < Values(2) THEN <<253>> \o LittleEndian(n, 2)
    ELSE IF n < Values(4) THEN <<254>> \o LittleEndian(n, 4)
    ELSE <<255>> \o LittleEndian(n, 8)

EachInput(tx, Field(_)) == FlattenSeq([i \in DOMAIN tx.inputs |-> Field(tx.inputs[i])])

Prevout(input) == input.txid \o LittleEndian(input.vout, WordSize)
Sequence(input) == LittleEndian(input.sequence, WordSize)
Value(input) == LittleEndian(input.value, ValueSize)
Script(input) == write_varint(Len(input.script_pubkey)) \o input.script_pubkey

OutputBytes(tx) ==
    FlattenSeq([i \in DOMAIN tx.outputs |->
      LittleEndian(tx.outputs[i].value, ValueSize) \o Script(tx.outputs[i])])

compute_segwit_sighash(tx, i, key) ==
    <<"bip143", LittleEndian(tx.version, WordSize), EachInput(tx, Prevout),
      EachInput(tx, Sequence), Prevout(tx.inputs[i]), p2pkh_script_pubkey(Hash160(key)),
      Value(tx.inputs[i]), Sequence(tx.inputs[i]), OutputBytes(tx),
      LittleEndian(tx.locktime, WordSize), 1>>

compute_taproot_sighash(tx, i) ==
    <<"TapSighash", LittleEndian(tx.version, WordSize), LittleEndian(tx.locktime, WordSize),
      EachInput(tx, Prevout), EachInput(tx, Value), EachInput(tx, Script),
      EachInput(tx, Sequence), OutputBytes(tx), LittleEndian(i - 1, WordSize)>>

(* A signed transaction: its bytes up to the witnesses, the items of each  *)
(* witness, and the bytes of the lock time.                                *)
Serialize(tx, witnesses) ==
    [body |-> LittleEndian(tx.version, WordSize) \o <<0, 1>>
                \o write_varint(Len(tx.inputs))
                \o FlattenSeq([i \in DOMAIN tx.inputs |->
                     Prevout(tx.inputs[i]) \o <<0>> \o Sequence(tx.inputs[i])])
                \o write_varint(Len(tx.outputs)) \o OutputBytes(tx),
     witnesses |-> witnesses,
     locktime |-> LittleEndian(tx.locktime, WordSize)]

sign_segwit_tx_with_key(key, tx) ==
    IF \E i \in DOMAIN tx.outputs : tx.outputs[i].value = 0 THEN {}
    ELSE {Serialize(tx, [i \in DOMAIN tx.inputs |->
            <<[scheme |-> "ecdsa", by |-> <<key>>, hash |-> compute_segwit_sighash(tx, i, key)],
              [scheme |-> "key", by |-> <<key>>]>>])}

(* Mutant of TaprootScalar: an address without a tweak is not recognised.  *)
TaprootScalarTweaked(key, tx) == taproot_tweak_seckey(key)

(* The key is chosen once, by the script of the first input.               *)
TaprootScalar(key, tx) ==
    LET script == tx.inputs[1].script_pubkey
        output == SubSeq(script, 3, Len(script))
    IN IF output = XOnly(taproot_tweak_seckey(key)) \/ output # XOnly(SecretScalar(key))
       THEN taproot_tweak_seckey(key)
       ELSE SecretScalar(key)

sign_taproot_tx_with_key(key, tx) ==
    IF \/ \E i \in DOMAIN tx.outputs : tx.outputs[i].value = 0
       \/ \E i \in DOMAIN tx.inputs : tx.inputs[i].script_pubkey = << >>
    THEN {}
    ELSE {Serialize(tx, [i \in DOMAIN tx.inputs |->
            <<[scheme |-> "schnorr", by |-> XOnly(TaprootScalar(key, tx)),
               hash |-> compute_taproot_sighash(tx, i)]>>])}

(* The script of the first input says which kind all inputs are.           *)
bitcoin_sign_transaction(key, json) ==
    UNION {IF tx.inputs # << >> /\ is_p2tr_script(tx.inputs[1].script_pubkey)
           THEN sign_taproot_tx_with_key(key, tx)
           ELSE sign_segwit_tx_with_key(key, tx) :
             tx \in parse_bitcoin_tx_json(json)}

-----------------------------------------------------------------------------
(* The network reads a transaction.  A reader returns what it read and     *)
(* where the next field starts, or nothing.                                *)

Field(m, at, size) ==
    {<<SubSeq(m, at, at + size - 1), at + size>> : x \in {x \in {at} : x + size <= Len(m) + 1}}

(* Nodes take no larger size, and of each size only the shortest form.     *)
MaxSize == 33554432

SizeField(m, at, width, least) ==
    {<<Number(Reverse(f[1])), f[2]>> :
       f \in {f \in Field(m, at, width) : Number(Reverse(f[1])) \in least..MaxSize}}

Compact(m, at) ==
    IF at > Len(m) THEN {}
    ELSE IF m[at] < 253 THEN {<<m[at], at + 1>>}
    ELSE IF m[at] = 253 THEN SizeField(m, at + 1, 2, 253)
    ELSE IF m[at] = 254 THEN SizeField(m, at + 1, 4, Values(2))
    ELSE {}

(* An input spends an outpoint; the script it would bring is empty.        *)
InputField(m, at) ==
    {<<[txid |-> SubSeq(f[1], 1, TxidSize),
        vout |-> Number(Reverse(SubSeq(f[1], TxidSize + 1, TxidSize + WordSize))),
        sequence |-> Number(Reverse(SubSeq(f[1], TxidSize + WordSize + 2, Len(f[1]))))], f[2]>> :
       f \in {f \in Field(m, at, TxidSize + 2 * WordSize + 1) :
                f[1][TxidSize + WordSize + 1] = 0}}

OutputField(m, at) ==
    UNION {UNION {{<<[value |-> Number(Reverse(v[1])), script |-> s[1]], s[2]>> :
                     s \in Field(m, n[2], n[1])} :
                   n \in Compact(m, v[2])} :
             v \in Field(m, at, ValueSize)}

ReadTransaction(raw) ==
    LET m == raw.body
        start == WordSize + 3
    IN IF Len(m) < start \/ SubSeq(m, WordSize + 1, WordSize + 2) # <<0, 1>> THEN {}
       ELSE UNION {UNION {
              {[version |-> Number(Reverse(SubSeq(m, 1, WordSize))), ins |-> ins[1], outs |-> outs[1],
                locktime |-> Number(Reverse(raw.locktime))] :
                 outs \in {o \in Many(OutputField, m, count[2], count[1]) : o[2] = Len(m) + 1}} :
                 count \in UNION {Compact(m, ins[2])}} :
                 ins \in UNION {Many(InputField, m, c[2], c[1]) : c \in Compact(m, start)}}

Outpoints(t) == [i \in DOMAIN t.ins |-> [txid |-> t.ins[i].txid, vout |-> t.ins[i].vout]]

(* What BIP143 and BIP341 say is signed: the values and scripts are those  *)
(* of the coins.                                                           *)
Committed(t, coins, Part(_, _)) ==
    FlattenSeq([i \in DOMAIN t.ins |-> Part(t.ins[i], coins[Outpoints(t)[i]])])

CompactSize(n) ==
    IF n < 253 THEN <<n>> ELSE IF n < Values(2) THEN <<253>> \o LittleEndian(n, 2)
    ELSE <<254>> \o LittleEndian(n, 4)

Sized(script) == CompactSize(Len(script)) \o script

NetworkHash(t, coins, i) ==
    LET W(n) == LittleEndian(n, WordSize)
        V(n) == LittleEndian(n, ValueSize)
        coin == coins[Outpoints(t)[i]]
        prevouts == Committed(t, coins, LAMBDA in, c : in.txid \o W(in.vout))
        sequences == Committed(t, coins, LAMBDA in, c : W(in.sequence))
        outputs == FlattenSeq([j \in DOMAIN t.outs |-> V(t.outs[j].value) \o Sized(t.outs[j].script)])
    IN IF coin.script[1] = 0
       THEN <<"bip143", W(t.version), prevouts, sequences, t.ins[i].txid \o W(t.ins[i].vout),
              <<118, 169>> \o Tail(coin.script) \o <<136, 172>>, V(coin.value),
              W(t.ins[i].sequence), outputs, W(t.locktime), 1>>
       ELSE <<"TapSighash", W(t.version), W(t.locktime), prevouts,
              Committed(t, coins, LAMBDA in, c : V(c.value)),
              Committed(t, coins, LAMBDA in, c : Sized(c.script)), sequences, outputs, W(i - 1)>>

(* A witness opens a coin: the key behind the hash signed, or the key that *)
(* the script names.                                                       *)
Opens(witness, coin, hash) ==
    \/ /\ Len(witness) = 2 /\ witness[1].scheme = "ecdsa"
       /\ witness[1].by = witness[2].by
       /\ coin.script = <<0, KeyHashSize>> \o Hash160(witness[2].by[1])
       /\ witness[1].hash = hash
    \/ /\ Len(witness) = 1 /\ witness[1].scheme = "schnorr"
       /\ coin.script = <<81, XOnlySize>> \o witness[1].by
       /\ witness[1].hash = hash

Total(values) == NumberIn(1, values)

(* The transactions that raw bytes are, if the network takes them.         *)
Valid(raw, coins) ==
    {t \in ReadTransaction(raw) :
       /\ t.ins # << >> /\ t.outs # << >>
       /\ Len(raw.witnesses) = Len(t.ins)
       /\ IsInjective(Outpoints(t))
       /\ \A i \in DOMAIN t.ins : Outpoints(t)[i] \in DOMAIN coins
       /\ Total([i \in DOMAIN t.ins |-> coins[Outpoints(t)[i]].value])
            >= Total([i \in DOMAIN t.outs |-> t.outs[i].value])
       /\ \A i \in DOMAIN t.ins :
            Opens(raw.witnesses[i], coins[Outpoints(t)[i]], NetworkHash(t, coins, i))}

-----------------------------------------------------------------------------
(* Payments *)

(* The address that a wallet shows for a payment.  Earlier releases showed *)
(* Taproot addresses without a tweak, which the signer still accepts.      *)
Shown(p) ==
    CASE p.kind = "wpkh" -> pubkey_to_p2wpkh_address(p.key, p.testnet)
      [] p.kind = "tr" -> derive_btc_taproot_address_for_network(p.key, p.testnet)
      [] p.kind = "raw" -> encode_bech32("bc", 1, XOnly(SecretScalar(p.key)))
      [] p.kind = "pkh" -> pubkey_to_p2pkh_address(p.key, p.testnet)

Mistyped(digits) == [digits EXCEPT ![2] = (@ + 1) % 58]

(* What the payer is left with: the address as shown, converted to the     *)
(* other network, mistyped, with the wrong kind of checksum, or without    *)
(* its leading ones.                                                       *)
Spelled(address, spelling) ==
    CASE spelling = "shown" -> {address}
      [] spelling = "converted" -> bitcoin_convert_address_network(address, address.hrp = "bc")
      [] spelling = "mistyped" /\ address.format = "bech32" ->
           {[address EXCEPT !.data[2] = (@ + 8) % 32]}
      [] spelling = "mistyped" /\ address.format = "base58" -> {[address EXCEPT !.digits = Mistyped(@)]}
      [] spelling = "bech32" -> {[address EXCEPT !.check.bech32m = ~@]}
      [] spelling = "stripped" ->
           {[address EXCEPT !.digits = SubSeq(@, LeadingZeros(@) + 1, Len(@))]}

(* The scripts that a payer may pay to.                                    *)
Scripts ==
    [p \in Payment |-> UNION {address_to_script_pubkey(a) :
                                a \in UNION {Spelled(shown, p.spelling) : shown \in Shown(p)}}]

(* The scripts that lock a coin to a key, by the standards.                *)
Standard(to) ==
    LET even == IF to.key \in OddKey THEN 1 ELSE 2
    IN CASE to.kind = "wpkh" -> <<0, KeyHashSize>> \o Hash160(to.key)
         [] to.kind = "tr" -> <<81, XOnlySize>> \o [i \in 1..XOnlySize |-> IF i = 1 THEN to.key ELSE even]
         [] to.kind = "raw" -> <<81, XOnlySize>> \o [i \in 1..XOnlySize |-> IF i = 1 THEN to.key ELSE 0]
         [] to.kind = "pkh" -> <<118, 169, KeyHashSize>> \o Hash160(to.key) \o <<136, 172>>

-----------------------------------------------------------------------------
(* What may be asked and paid: a field has one value at most; numbers of   *)
(* JSON have the bits of a value.                                          *)

IsNumber(field) == \A x, y \in field : x = y /\ x \in Nat /\ x < Values(ValueSize)

IsText(field) == \A x, y \in field : x = y /\ x \in Seq(Nat)

(* Somebody pays to a key of a wallet.  Any two values fit into one.       *)
IsPayment(p) ==
    /\ p.key \in BtcKey /\ p.testnet \in BOOLEAN
    /\ \/ p.kind = "pkh" /\ p.spelling \in {"shown", "mistyped", "stripped"}
       \/ p.kind \in {"wpkh", "tr", "raw"} /\ p.spelling \in {"shown", "converted", "mistyped", "bech32"}
    /\ p.outpoint \in [txid : [1..TxidSize -> Octet], vout : 0..(Values(WordSize) - 1)]
    /\ p.value > 0 /\ \A q \in Payment : IsNumber({p.value + q.value})

(* A checksum has its size, and a legacy address that is mistyped has the  *)
(* checksum of nothing.                                                    *)
ASSUME BtcCheckAssumption ==
    /\ \A version \in {0, 111}, key \in BtcKey :
         Check(<<version>> \o Hash160(key)) \in [1..CheckSize -> Octet]
    /\ \A p \in Payment : p.kind = "pkh" /\ p.spelling = "mistyped" =>
         \A address \in Shown(p), version \in LegacyVersion, hash \in [1..KeyHashSize -> Octet] :
           NumberIn(58, Mistyped(address.digits)) # Number(<<version>> \o hash \o Check(<<version>> \o hash))

ASSUME BtcRequestAssumption ==
    /\ \A p \in Payment : IsPayment(p) /\ IsNumber({p.value})
    /\ \A json \in BtcJson :
         /\ IsNumber(json.version) /\ IsNumber(json.locktime)
         /\ \A ins \in json.inputs : ins \in Seq(Range(ins)) /\ \A in \in Range(ins) :
              IsText({in.txid}) /\ IsNumber(in.vout) /\ IsNumber(in.value)
                /\ IsNumber(in.sequence) /\ IsText(in.script_pubkey)
         /\ \A outs \in json.outputs : outs \in Seq(Range(outs)) /\ \A out \in Range(outs) :
              IsNumber(out.value) /\ IsText(out.script_pubkey)

-----------------------------------------------------------------------------
(* Steps *)

BtcInit ==
    /\ btcCoins = << >>
    /\ btcWaiting = {}
    /\ btcConfirmed = {}

(* Somebody pays to an address that a wallet showed.                       *)
Receive(p) ==
    /\ p.outpoint \notin DOMAIN btcCoins
    /\ \A c \in btcConfirmed : p.outpoint \notin Range(Outpoints(c.tx))
    /\ \E script \in Scripts[p] :
         btcCoins' = [o \in DOMAIN btcCoins \cup {p.outpoint} |->
           IF o = p.outpoint THEN [value |-> p.value, script |-> script,
                                   to |-> [kind |-> p.kind, key |-> p.key]]
           ELSE btcCoins[o]]
    /\ UNCHANGED <<btcWaiting, btcConfirmed>>

(* A wallet signs, and somebody keeps what it signed.                      *)
BtcSign(key, json) ==
    /\ Cardinality(btcWaiting) < MaxWaiting
    /\ \E raw \in bitcoin_sign_transaction(key, json) :
         btcWaiting' = btcWaiting \cup {[raw |-> raw, json |-> json]}
    /\ UNCHANGED <<btcCoins, btcConfirmed>>

(* The network takes a transaction: its coins are spent.                   *)
Confirm(w) ==
    \E t \in Valid(w.raw, btcCoins) :
      /\ btcConfirmed' = btcConfirmed \cup
           {[tx |-> t, json |-> w.json,
             spent |-> [i \in DOMAIN t.ins |-> btcCoins[Outpoints(t)[i]].value]]}
      /\ btcCoins' = [o \in DOMAIN btcCoins \ Range(Outpoints(t)) |-> btcCoins[o]]
      /\ btcWaiting' = btcWaiting \ {w}

(* A transaction that is never sent, or replaced.                          *)
Forget(w) == btcWaiting' = btcWaiting \ {w} /\ UNCHANGED <<btcCoins, btcConfirmed>>

BtcNext ==
    \/ \E p \in Payment : Receive(p)
    \/ \E key \in BtcKey, json \in BtcJson : BtcSign(key, json)
    \/ \E w \in btcWaiting : Confirm(w) \/ Forget(w)

BtcSpec == BtcInit /\ [][BtcNext]_btcVars

-----------------------------------------------------------------------------
(* Properties *)

(* Numbers that fit the fields of a transaction.                           *)
FitsWords(json) ==
    \A n \in json.version \cup json.locktime
              \cup UNION {UNION {i.vout \cup i.sequence : i \in Range(ins)} : ins \in json.inputs} :
      n < Values(WordSize)

(* A confirmed transaction spends the coins and pays the outputs that its  *)
(* JSON named, with the values of both, so that the fee is the one asked   *)
(* for, and with the version, sequences and lock time asked for.  Numbers  *)
(* that do not fit are cut by the parser and left out here.                *)
SpendsWhatWasAsked ==
    \A c \in btcConfirmed : FitsWords(c.json) =>
      \E ins \in c.json.inputs, outs \in c.json.outputs :
        /\ c.tx.version = OrElse(c.json.version, 2)
        /\ c.tx.locktime = OrElse(c.json.locktime, 0)
        /\ c.tx.ins = [i \in DOMAIN ins |->
             [txid |-> Reverse(ins[i].txid), vout |-> OrElse(ins[i].vout, 0),
              sequence |-> OrElse(ins[i].sequence, Values(WordSize) - 3)]]
        /\ \A i \in DOMAIN ins : ins[i].value = {c.spent[i]}
        /\ \A i \in DOMAIN outs :
             /\ outs[i].value = {c.tx.outs[i].value}
             /\ outs[i].script_pubkey = {c.tx.outs[i].script}
        /\ Len(outs) = Len(c.tx.outs)

(* The JSON that spends coins: their ids in display order, their values    *)
(* and scripts, and one output for all of the value.                       *)
Spending(outpoints) ==
    [inputs  |-> {[i \in DOMAIN outpoints |->
       [txid |-> Reverse(outpoints[i].txid), vout |-> {outpoints[i].vout},
        value |-> {btcCoins[outpoints[i]].value}, sequence |-> {},
        script_pubkey |-> {btcCoins[outpoints[i]].script}]]},
     outputs |-> {<<[value |-> {Total([i \in DOMAIN outpoints |-> btcCoins[outpoints[i]].value])},
                     script_pubkey |-> {p2sh_script_pubkey(Hash160(1))}]>>},
     version |-> {}, locktime |-> {}]

Spendable(outpoints) ==
    \E raw \in bitcoin_sign_transaction(btcCoins[outpoints[1]].to.key, Spending(outpoints)) :
      Valid(raw, btcCoins) # {}

(* Coins that arrived at an address that a wallet showed can be spent by   *)
(* that wallet, each alone and any two of the same address together, in    *)
(* either order.  The signer does not sign for P2PKH coins.                *)
FundsCanBeSpent ==
    \A a, b \in DOMAIN btcCoins :
      btcCoins[a].to = btcCoins[b].to /\ btcCoins[a].to.kind # "pkh" =>
        Spendable(IF a = b THEN <<a>> ELSE <<a, b>>)

(* A payment goes to the script that the standards give for the key and    *)
(* kind of address that was shown, however the address was spelled on the  *)
(* way, or it is not made.                                                 *)
PaymentsGoToTheShownKey == \A o \in DOMAIN btcCoins : btcCoins[o].script = Standard(btcCoins[o].to)

(* What the comment of the build for wasm32 says of its Taproot address:   *)
(* "Apply BIP341 Taproot tweak", so that coins sent there can be spent.    *)
WasmTaprootIsSpendable ==
    \A o \in DOMAIN btcCoins : btcCoins[o].to.kind = "tr" => Spendable(<<o>>)
=============================================================================
