---------------------------- MODULE EvmTransaction ----------------------------
(***************************************************************************)
(* The signers of EVM chains and of Tron (evm_signer.rs, tron_signer.rs).  *)
(* Both sign with recoverable ECDSA: who signed, and for which chain, is   *)
(* only what a node finds when it decodes the bytes, hashes what it        *)
(* decoded and recovers a key.  Nodes and token contracts are outside the  *)
(* repository; they are modelled by RLP, EIP-155, EIP-1559, EIP-191 and    *)
(* the ABI of two token calls.                                             *)
(*                                                                         *)
(* Encodings are bytes, and the 55-byte boundary of RLP is the real one.   *)
(* Text of hex digits is a sequence of 0..15, with 16 for any other        *)
(* character.  A hash is its preimage.  A signature is three numbers that  *)
(* nobody but the key gives for that hash; r and s may have leading zeros. *)
(***************************************************************************)
EXTENDS Bytes, FiniteSets

CONSTANTS
  U64Size,        (* Bytes of a u64: 8.                                   *)
  U256Size,       (* Bytes of an ABI word, of r and of s: 32.             *)
  AddressSize,    (* Bytes of an account: 20.                             *)
  TronCheck(_),   (* The checksum of Tron addresses.                      *)
  EvmKey,         (* Secret keys of owners.                               *)
  Chain,          (* Chain ids, of networks that run.                     *)
  EvmRequest,     (* What owners ask to sign.                             *)
  EvmMessage,     (* Messages that a verifier may be shown.               *)
  Signature,      (* What signatures may be.                              *)
  MaxEvmSigned    (* Bound: signatures made.                              *)

ASSUME EvmAssumption ==
    /\ U64Size \in 1..8
    /\ {U256Size, AddressSize, MaxEvmSigned} \subseteq Nat \ {0}
    /\ U64Size <= U256Size /\ AddressSize <= U256Size
    /\ Chain \subseteq 1..(Values(U64Size) - 1)
    /\ Signature \subseteq [y : {0, 1}, r : [1..U256Size -> Octet], s : [1..U256Size -> Octet]]
    /\ TronCheck(<<65>>) \in Seq(Octet)

VARIABLES
  evmSigned,      (* What was signed: the request, what was returned, and *)
                  (* the signature behind it.                             *)
  evmExecuted     (* Transactions that chains have executed.              *)

evmVars == <<evmSigned, evmExecuted>>

-----------------------------------------------------------------------------
(* Text *)

hex_to_bytes(text) ==
    LET even == IF Len(text) % 2 = 1 THEN <<0>> \o text ELSE text
    IN {[i \in 1..(Len(even) \div 2) |-> 16 * even[2 * i - 1] + even[2 * i]] :
          t \in {t \in {text} : \A i \in DOMAIN t : t[i] < 16}}

hex_to_u256(text) ==
    {[i \in 1..(U256Size - Len(b)) |-> 0] \o b : b \in {b \in hex_to_bytes(text) : Len(b) <= U256Size}}

(* Nothing is zero.                                                        *)
hex_to_u64(text) ==
    {n \in {NumberIn(16, t) : t \in {t \in {text} : \A i \in DOMAIN t : t[i] < 16}} : n < Values(U64Size)}

address_to_bytes(text) == {b \in hex_to_bytes(text) : Len(b) = AddressSize}

-----------------------------------------------------------------------------
(* RLP *)

encode_length(n) == Stripped(BigEndian(n, U64Size))

(* Mutant of rlp_encode_item: 56 bytes are still a short string.           *)
RlpItemOffByOne(data) ==
    IF Len(data) = 1 /\ data[1] < 128 THEN data
    ELSE IF Len(data) <= 56 THEN <<128 + Len(data)>> \o data
    ELSE <<183 + Len(encode_length(Len(data)))>> \o encode_length(Len(data)) \o data

rlp_encode_item(data) ==
    IF Len(data) = 1 /\ data[1] < 128 THEN data
    ELSE IF Len(data) <= 55 THEN <<128 + Len(data)>> \o data
    ELSE <<183 + Len(encode_length(Len(data)))>> \o encode_length(Len(data)) \o data

rlp_encode_list(items) ==
    LET payload == FlattenSeq(items)
    IN IF Len(payload) <= 55 THEN <<192 + Len(payload)>> \o payload
       ELSE <<247 + Len(encode_length(Len(payload)))>> \o encode_length(Len(payload)) \o payload

rlp_encode_u256(bytes) == rlp_encode_item(Stripped(bytes))

rlp_encode_u64(n) == rlp_encode_u256(BigEndian(n, U64Size))

-----------------------------------------------------------------------------
(* Calls of token contracts and Tron addresses *)

TransferSelector == <<169, 5, 156, 187>>
ApproveSelector == <<9, 94, 167, 179>>

(* Mutant of AbiCall: the address is padded behind instead of in front.    *)
AbiCallPaddedBehind(selector, account, amount) ==
    selector \o account \o [i \in 1..(U256Size - AddressSize) |-> 0] \o amount

AbiCall(selector, account, amount) ==
    selector \o [i \in 1..(U256Size - AddressSize) |-> 0] \o account \o amount

encode_erc20_transfer(to, amount) ==
    {AbiCall(TransferSelector, a, n) : a \in address_to_bytes(to), n \in hex_to_u256(amount)}

encode_erc20_approve(spender, amount) ==
    {AbiCall(ApproveSelector, a, n) : a \in address_to_bytes(spender), n \in hex_to_u256(amount)}

(* The amount is a u128, and text of an odd length is not hex here.        *)
encode_trc20_transfer(to, amount) ==
    {AbiCall(TransferSelector, a, BigEndian(amount, U256Size)) :
       a \in {a \in address_to_bytes(to) : Len(to) = 2 * AddressSize}}

(* A Tron address is the bytes behind its Base58.                          *)
hex_to_address(text) ==
    {<<65>> \o a \o TronCheck(<<65>> \o a) : a \in {a \in address_to_bytes(text) : Len(text) = 2 * AddressSize}}

Digits(bytes) ==
    [i \in 1..(2 * Len(bytes)) |-> IF i % 2 = 1 THEN bytes[(i + 1) \div 2] \div 16
                                  ELSE bytes[i \div 2] % 16]

address_to_hex(address) ==
    {Digits(SubSeq(a, 2, AddressSize + 1)) :
       a \in {a \in {address} : /\ Len(a) = 1 + AddressSize + Len(TronCheck(<<65>>))
                                /\ TronCheck(SubSeq(a, 1, AddressSize + 1)) = SubSeq(a, AddressSize + 2, Len(a))
                                /\ a[1] = 65}}

CallData(call) ==
    CASE call.token = "transfer" -> encode_erc20_transfer(call.to, call.amount)
      [] call.token = "approve" -> encode_erc20_approve(call.to, call.amount)
      [] call.token = "trc20" ->
           UNION {encode_trc20_transfer(hex, call.amount) : hex \in address_to_hex(call.to)}

(* What a request carries: its own data, or the call of a token.           *)
Data(q) == IF q.call = {} THEN {q.data} ELSE {Digits(d) : d \in UNION {CallData(c) : c \in q.call}}

Raw(q) == IF q.call = {} THEN {q.raw} ELSE UNION {CallData(c) : c \in q.call}

-----------------------------------------------------------------------------
(* Signing *)

Keccak(bytes) == <<"keccak256", bytes>>
Sha256(bytes) == <<"sha256", bytes>>

(* The key's signature of a hash: always the same one.                     *)
SignPrehash(key, hash) ==
    LET made == {e.sig : e \in {e \in evmSigned : e.request.key = key /\ e.hash = hash}}
    IN IF made # {} THEN made ELSE Signature \ {e.sig : e \in evmSigned}

(* The fields of a transaction, all of them read before anything is signed.*)
ParseFields(q) ==
    {[nonce |-> f[1], fees |-> <<f[2], f[3]>>, gas |-> f[4], to |-> f[5], value |-> f[6], data |-> f[7]] :
       f \in hex_to_u64(q.nonce) \X hex_to_u256(q.fees[1]) \X hex_to_u256(q.fees[2])
               \X hex_to_u64(q.gas) \X address_to_bytes(q.to) \X hex_to_u256(q.value)
               \X UNION {hex_to_bytes(text) : text \in Data(q)}}

(* Items that the two kinds of transaction have in common.                 *)
Common(f) ==
    <<rlp_encode_u64(f.gas), rlp_encode_item(f.to), rlp_encode_u256(f.value), rlp_encode_item(f.data)>>

Type0Items(f) == <<rlp_encode_u64(f.nonce), rlp_encode_u256(f.fees[1])>> \o Common(f)

Type0Preimage(f, chain) ==
    rlp_encode_list(Type0Items(f) \o <<rlp_encode_u64(chain), <<128>>, <<128>>>>)

(* The product wraps around in a release build.                            *)
Type0V(chain, y) == (chain * 2 + 35 + y) % Values(U64Size)

Type0Raw(f, chain, sig) ==
    rlp_encode_list(Type0Items(f) \o <<rlp_encode_u64(Type0V(chain, sig.y)),
                                       rlp_encode_u256(sig.r), rlp_encode_u256(sig.s)>>)

(* Mutant of Eip1559Items: the two fees are swapped.                       *)
Eip1559ItemsFeesSwapped(f, chain) ==
    <<rlp_encode_u64(chain), rlp_encode_u64(f.nonce),
      rlp_encode_u256(f.fees[2]), rlp_encode_u256(f.fees[1])>> \o Common(f) \o <<rlp_encode_list(<< >>)>>

Eip1559Items(f, chain) ==
    <<rlp_encode_u64(chain), rlp_encode_u64(f.nonce),
      rlp_encode_u256(f.fees[1]), rlp_encode_u256(f.fees[2])>> \o Common(f) \o <<rlp_encode_list(<< >>)>>

Eip1559Preimage(f, chain) == <<2>> \o rlp_encode_list(Eip1559Items(f, chain))

Eip1559Raw(f, chain, sig) ==
    <<2>> \o rlp_encode_list(Eip1559Items(f, chain) \o
               <<rlp_encode_u64(sig.y), rlp_encode_u256(sig.r), rlp_encode_u256(sig.s)>>)

(* "\x19Ethereum Signed Message:\n" is <<25, 69>> here, and Tron's prefix  *)
(* is <<25, 84>>.                                                          *)
(* Mutant of PersonalMessage: the length is one digit.                     *)
PersonalMessageOneDigit(message) == <<25, 69>> \o <<48 + (Len(message) % 10)>> \o message

PersonalMessage(message) == <<25, 69>> \o Decimal(Len(message)) \o message

(* The hash of Tron's message goes into the second hash, whose bytes are   *)
(* not told apart here.                                                    *)
tron_message_hash(message) == <<"tron_message", message>>

(* What is hashed and signed for each kind of request: nothing when the    *)
(* request is not well formed.                                             *)
HashToSign(q) ==
    CASE q.kind = "type0" -> {Keccak(Type0Preimage(f, q.chain)) : f \in ParseFields(q)}
      [] q.kind = "eip1559" -> {Keccak(Eip1559Preimage(f, q.chain)) : f \in ParseFields(q)}
      [] q.kind = "personal_message" -> {Keccak(PersonalMessage(q.message))}
      [] q.kind = "tron_message" -> {tron_message_hash(q.message)}
      [] q.kind = "tron_raw" -> {Sha256(b) : b \in {b \in Raw(q) : \A i \in DOMAIN b : b[i] < 256}}
      [] q.kind \in {"typed_data", "tron_transaction", "tron_message_hash"} -> q.hash

(* What the caller gets back.                                              *)
Output(q, sig) ==
    LET Appended(v) == sig.r \o sig.s \o <<v>>
    IN CASE q.kind = "type0" -> {Type0Raw(f, q.chain, sig) : f \in ParseFields(q)}
         [] q.kind = "eip1559" -> {Eip1559Raw(f, q.chain, sig) : f \in ParseFields(q)}
         [] q.kind \in {"tron_raw", "tron_transaction"} -> {Appended(sig.y)}
         [] OTHER -> {Appended(27 + sig.y)}

-----------------------------------------------------------------------------
(* A node decodes a transaction: strictly, so that every transaction has   *)
(* one encoding.                                                           *)

RlpBody(m, list, from, size) ==
    IF from + size > Len(m) + 1 THEN {}
    ELSE {<<[list |-> list, bytes |-> SubSeq(m, from, from + size - 1)], from + size>>}

(* A size of its own comes first: no smaller than it must be.              *)
RlpLong(m, list, at, width) ==
    IF width > U64Size \/ at + width > Len(m) + 1 \/ m[at] = 0 THEN {}
    ELSE LET size == Number(SubSeq(m, at, at + width - 1))
         IN IF size > 55 THEN RlpBody(m, list, at + width, size) ELSE {}

(* What the byte b at a position begins: a string, or a list.              *)
RlpString(m, at, b) ==
    IF b < 128 THEN RlpBody(m, FALSE, at, 1)
    ELSE IF b = 129 THEN {r \in RlpBody(m, FALSE, at + 1, 1) : r[1].bytes[1] >= 128}
    ELSE IF b < 184 THEN RlpBody(m, FALSE, at + 1, b - 128)
    ELSE RlpLong(m, FALSE, at + 1, b - 183)

RlpItems(m, at, b) ==
    IF b < 248 THEN RlpBody(m, TRUE, at + 1, b - 192) ELSE RlpLong(m, TRUE, at + 1, b - 247)

RlpAt(m, at) ==
    IF at > Len(m) THEN {}
    ELSE IF m[at] < 192 THEN RlpString(m, at, m[at]) ELSE RlpItems(m, at, m[at])

(* The strings of a list that has count items; lists in it must be empty.  *)
RlpList(m, count) ==
    UNION {{[i \in 1..count |-> run[1][i].bytes] :
              run \in {run \in Many(RlpAt, outer[1].bytes, 1, count) :
                         /\ run[2] = Len(outer[1].bytes) + 1
                         /\ \A i \in 1..count : run[1][i].list => run[1][i].bytes = << >>}} :
             outer \in {o \in RlpAt(m, 1) : o[1].list /\ o[2] = Len(m) + 1}}

(* A number: no leading zeros, and no larger than numbers of a chain are.  *)
IsQuantity(bytes) == Len(bytes) <= U256Size /\ (bytes = << >> \/ bytes[1] # 0)

(* The transactions that bytes are.  Chain zero is none: the form from     *)
(* before EIP-155, which chains still take.                                *)
NodeReads(raw) ==
    {[kind |-> "type0", nonce |-> Number(i[1]), fees |-> <<Number(i[2])>>, gas |-> Number(i[3]),
      to |-> i[4], value |-> Number(i[5]), data |-> i[6],
      chain |-> IF Number(i[7]) < 35 THEN 0 ELSE (Number(i[7]) - 35) \div 2,
      sig |-> <<IF Number(i[7]) < 35 THEN Number(i[7]) - 27 ELSE (Number(i[7]) - 35) % 2, i[8], i[9]>>] :
       i \in {i \in RlpList(raw, 9) : \A j \in {1, 2, 3, 5, 7, 8, 9} : IsQuantity(i[j])}}
    \cup
    {[kind |-> "eip1559", nonce |-> Number(i[2]), fees |-> <<Number(i[3]), Number(i[4])>>,
      gas |-> Number(i[5]), to |-> i[6], value |-> Number(i[7]), data |-> i[8],
      chain |-> Number(i[1]), sig |-> <<Number(i[10]), i[11], i[12]>>] :
       i \in {i \in IF raw[1] = 2 THEN RlpList(Tail(raw), 12) ELSE {} :
                \A j \in {1, 2, 3, 4, 5, 7, 10, 11, 12} : IsQuantity(i[j])}}

NodeBytes(n) == Stripped(BigEndian(n, U256Size))

NodeString(bytes) ==
    IF Len(bytes) = 1 /\ bytes[1] < 128 THEN bytes
    ELSE IF Len(bytes) < 56 THEN <<128 + Len(bytes)>> \o bytes
    ELSE <<183 + Len(NodeBytes(Len(bytes)))>> \o NodeBytes(Len(bytes)) \o bytes

NodeInt(n) == NodeString(NodeBytes(n))

NodeList(items) ==
    LET payload == FlattenSeq(items)
    IN IF Len(payload) < 56 THEN <<192 + Len(payload)>> \o payload
       ELSE <<247 + Len(NodeBytes(Len(payload)))>> \o NodeBytes(Len(payload)) \o payload

(* What the sender of a transaction has signed.                            *)
NodeHash(t) ==
    LET rest == <<NodeInt(t.gas), NodeString(t.to), NodeInt(t.value), NodeString(t.data)>>
    IN IF t.kind = "eip1559"
       THEN Keccak(<<2>> \o NodeList(<<NodeInt(t.chain), NodeInt(t.nonce), NodeInt(t.fees[1]),
                                       NodeInt(t.fees[2])>> \o rest \o <<<<192>>>>))
       ELSE Keccak(NodeList(<<NodeInt(t.nonce), NodeInt(t.fees[1])>> \o rest
                      \o (IF t.chain = 0 THEN << >> ELSE <<NodeInt(t.chain), <<128>>, <<128>>>>)))

(* The keys that recovery gives: another key than one that signed has no   *)
(* account.  Leading zeros of r and s are not in a transaction.            *)
Recovered(hash, sig) ==
    {e.request.key : e \in {e \in evmSigned :
       e.hash = hash /\ sig = <<e.sig.y, Stripped(e.sig.r), Stripped(e.sig.s)>>}}

(* A verifier of a message takes r, s and v at their full sizes.           *)
MessageSigners(hash, bytes) ==
    {e.request.key : e \in {e \in evmSigned :
       e.hash = hash /\ bytes = e.sig.r \o e.sig.s \o <<27 + e.sig.y>>}}

(* What a token contract makes of a call.                                  *)
ContractReads(data) ==
    LET word == SubSeq(data, 5, 4 + U256Size)
    IN {[call |-> IF SubSeq(data, 1, 4) = <<169, 5, 156, 187>> THEN "transfer" ELSE "approve",
         account |-> SubSeq(word, U256Size - AddressSize + 1, U256Size),
         amount |-> Number(SubSeq(data, 5 + U256Size, Len(data)))] :
          d \in {d \in {data} : /\ Len(d) = 4 + 2 * U256Size
                                /\ SubSeq(d, 1, 4) \in {<<169, 5, 156, 187>>, <<9, 94, 167, 179>>}
                                /\ \A i \in 1..(U256Size - AddressSize) : word[i] = 0}}

-----------------------------------------------------------------------------
(* What is asked *)

Text == Seq(0..16)

(* A transaction of texts, which fits into memory, or one call of a token. *)
AsksTransaction(q) ==
    /\ q.kind \in {"type0", "eip1559"} /\ q.chain \in Chain
    /\ {q.nonce, q.fees[1], q.fees[2], q.gas, q.to, q.value, q.data} \subseteq Text
    /\ \A c \in q.call : c.token \in {"transfer", "approve"} /\ c.to \in Text /\ c.amount \in Text
    /\ \A f \in ParseFields(q) : 12 * (U256Size + 9 + Len(f.data)) < Values(U64Size)

AsksRaw(q) ==
    /\ q.kind = "tron_raw"
    /\ \A c \in q.call : /\ c.token = "trc20" /\ c.to \in Seq(Octet)
                         /\ c.amount \in Nat /\ c.amount < Values(U256Size)

AsksMessage(q) ==
    q.kind \in {"personal_message", "tron_message"} /\ q.message \in Seq(Octet) /\ q.call = {}

(* A hash that is handed in is one of what its kind says: typed data begin *)
(* with the bytes 25 and 1 (EIP-712).                                      *)
AsksHash(q) ==
    /\ q.kind \in {"typed_data", "tron_transaction", "tron_message_hash"} /\ q.call = {}
    /\ \A h \in q.hash :
         \/ q.kind = "typed_data" /\ h[1] = "keccak256" /\ h[2] \in Seq(Octet)
              /\ Len(h[2]) >= 2 /\ h[2][1] = 25 /\ h[2][2] = 1
         \/ q.kind = "tron_transaction" /\ h[1] = "sha256"
         \/ q.kind = "tron_message_hash" /\ h[1] = "tron_message"

(* A signature, as a verifier of messages takes it, is no transaction.     *)
ASSUME EvmRequestAssumption ==
    /\ EvmMessage \subseteq Seq(Octet)
    /\ \A q \in EvmRequest : /\ q.key \in EvmKey
                             /\ \A c, d \in q.call : c = d
                             /\ AsksTransaction(q) \/ AsksRaw(q) \/ AsksMessage(q) \/ AsksHash(q)
    /\ \A sig \in Signature : NodeReads(sig.r \o sig.s \o <<27 + sig.y>>) = {}

-----------------------------------------------------------------------------
(* Steps *)

EvmInit == evmSigned = {} /\ evmExecuted = {}

(* A request is signed and the result given back.                          *)
EvmSign(q) ==
    /\ Cardinality(evmSigned) < MaxEvmSigned
    /\ \E hash \in HashToSign(q) : \E sig \in SignPrehash(q.key, hash) : \E out \in Output(q, sig) :
         evmSigned' = evmSigned \cup {[request |-> q, out |-> out, hash |-> hash, sig |-> sig]}
    /\ UNCHANGED evmExecuted

SignTransaction(q) == q.kind \in {"type0", "eip1559"} /\ EvmSign(q)

SignMessage(q) == q.kind \in {"personal_message", "typed_data"} /\ EvmSign(q)

TronSignTransaction(q) == q.kind \in {"tron_transaction", "tron_raw"} /\ EvmSign(q)

TronSignMessage(q) == q.kind \in {"tron_message", "tron_message_hash"} /\ EvmSign(q)

(* A chain executes what anybody hands to it: a transaction for it or for  *)
(* no chain, with the next nonce of its sender.                            *)
Execute(chain, raw) ==
    \E t \in {t \in NodeReads(raw) : t.chain \in {chain, 0}} :
      \E from \in Recovered(NodeHash(t), t.sig) :
        /\ t.nonce = Cardinality({x \in evmExecuted : x.chain = chain /\ x.from = from})
        /\ evmExecuted' = evmExecuted \cup {[chain |-> chain, from |-> from, tx |-> t]}
        /\ UNCHANGED evmSigned

EvmNext ==
    \/ \E q \in EvmRequest : SignTransaction(q) \/ SignMessage(q)
                             \/ TronSignTransaction(q) \/ TronSignMessage(q)
    \/ \E chain \in Chain, e \in evmSigned :
         e.request.kind \in {"type0", "eip1559"} /\ Execute(chain, e.out)

EvmSpec == EvmInit /\ [][EvmNext]_evmVars

-----------------------------------------------------------------------------
(* Properties *)

Written(text) == NumberIn(16, text)

(* A transaction that an owner asked for.                                  *)
IsAskedFor(t, q) ==
    /\ t.kind = q.kind
    /\ t.nonce = Written(q.nonce) /\ t.gas = Written(q.gas) /\ t.value = Written(q.value)
    /\ t.fees = [i \in DOMAIN t.fees |-> Written(q.fees[i])]
    /\ t.to \in hex_to_bytes(q.to) /\ t.data \in UNION {hex_to_bytes(text) : text \in Data(q)}

(* Whatever a chain executes in the name of an owner, the owner asked for, *)
(* with every number, and for this chain: no replay on another one.        *)
ExecutesWhatWasAsked ==
    \A x \in evmExecuted :
      \E e \in evmSigned : /\ e.request.kind \in {"type0", "eip1559"}
                           /\ e.request.key = x.from /\ e.request.chain = x.chain
                           /\ IsAskedFor(x.tx, e.request)

(* What signing a transaction returns is a transaction, in the one strict  *)
(* encoding, that the chain asked for attributes to the owner.  A chain id *)
(* of 2^63 or more is left out: v wraps around for it.                     *)
ReturnedIsAccepted ==
    \A e \in {e \in evmSigned : e.request.kind \in {"type0", "eip1559"}} :
      2 * e.request.chain + 36 < Values(U64Size) =>
        \E t \in NodeReads(e.out) : /\ t.chain = e.request.chain
                                    /\ IsAskedFor(t, e.request)
                                    /\ e.request.key \in Recovered(NodeHash(t), t.sig)

(* A signature verifies as one of a message exactly for the message and    *)
(* the key that were asked for, and so does nothing else that was signed:  *)
(* no transaction, no typed data and nothing of Tron.                      *)
MessagesVerifyAsAsked ==
    \A e \in evmSigned, m \in EvmMessage, key \in EvmKey :
      (key \in MessageSigners(Keccak(<<25, 69>> \o Decimal(Len(m)) \o m), e.out))
        <=> (e.request.kind = "personal_message" /\ e.request.message = m /\ e.request.key = key)

(* A token contract reads from the call that was signed the account and    *)
(* the amount that were asked for, on EVM chains and on Tron.              *)
TokenCallsMeanWhatWasAsked ==
    \A e \in evmSigned : \A c \in e.request.call :
      ContractReads(IF e.request.kind = "tron_raw" THEN e.hash[2]
                    ELSE (CHOOSE t \in NodeReads(e.out) : TRUE).data) =
        {[call |-> IF c.token = "trc20" THEN "transfer" ELSE c.token, account |-> account,
          amount |-> IF c.token = "trc20" THEN c.amount ELSE Written(c.amount)] :
           account \in IF c.token = "trc20" THEN {SubSeq(c.to, 2, 1 + AddressSize)} ELSE hex_to_bytes(c.to)}
=============================================================================
