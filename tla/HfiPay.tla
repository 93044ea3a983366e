------------------------------- MODULE HfiPay -------------------------------
(***************************************************************************)
(* HFI Pay: what a wallet signs and derives for the payment service        *)
(* (hfi_pay.rs, its bindings in wasm.rs, the field elements of zk.rs).     *)
(*                                                                         *)
(* A wallet registers an identifier under its xid, authorises refunds in   *)
(* advance, and gives out quotes: a claim key, an identity commitment and  *)
(* a handle per epoch.  The service, which is outside the repository,      *)
(* rebuilds the message of each authorisation from fields it is told,      *)
(* which need not be the fields that were signed.  Passphrases are changed *)
(* between any two of these steps.                                         *)
(*                                                                         *)
(* Hex text is a sequence of digits; a "32 bytes" value has HashLength     *)
(* bytes here, and the field 2^31-1 is scaled to 2^FieldBits-1, in         *)
(* integers one bit wider than its elements.                               *)
(***************************************************************************)
EXTENDS Integers, FiniteSets, Sealing

CONSTANTS
  HfiMaterial,     (* Identity material of the wallets.                    *)
  HfiPassphrase,   (* Passphrases.                                         *)
  HfiSecondary,    (* Options for the secondary of a new wallet.           *)
  Xids,            (* Xids as their callers spell them.                    *)
  Identifier,      (* Identifiers, sequences of bytes.                     *)
  RefundRequest,   (* Refunds to authorise; five fields are hex text.      *)
  Epoch,           (* Epochs that are asked for.                           *)
  HashLength,      (* Bytes of what is 32 bytes long.                      *)
  FieldBits,       (* Bits of a field element.                             *)
  MaxHfiMnemonics, (* Bound: mnemonics issued.                             *)
  MaxReplies       (* Bound: authorisations and quotes given out.          *)

(* What the parameters are; the last conjunct is arithmetic.               *)
ASSUME HfiAssumption ==
    /\ HashLength \in Nat
    /\ \A x \in Xids : x \in Seq(STRING)
    /\ \A i \in Identifier : i \in Seq(Int)
    /\ \A r \in RefundRequest :
         r \in [chain_tag : Int, mint : Seq(STRING), intent : Seq(STRING),
               blinded : Seq(STRING), amount : Int, authorizer : Seq(STRING),
               dest : Seq(STRING), expiry : Int, nonce : Int]
    /\ Epoch \subseteq Nat
    /\ 2^FieldBits \in Nat \ {0, 1}
    /\ 2^(FieldBits + 1) = 2 * 2^FieldBits

VARIABLES
  hfiMnemonics,    (* Mnemonics issued so far; all of them stay usable.    *)
  authorised,      (* History: who signed, what was asked, the reply.      *)
  accounts,        (* Of the service: registered xid, identifier and key.  *)
  honoured,        (* Of the service: refunds made, with the key.          *)
  quotes           (* Quotes given out, with their mnemonic and epoch.     *)

hfiVars == <<hfiMnemonics, authorised, accounts, honoured, quotes>>

-----------------------------------------------------------------------------
(* Values of 32 bytes in hex; a result that may be missing is a set *)

HexDigit == [c \in {"0", "1", "a", "A", "b"} |->
                CASE c = "0" -> 0 [] c = "1" -> 1 [] c \in {"a", "A"} -> 10 [] OTHER -> 11]

HexBytes(text) ==
    IF Len(text) % 2 = 0 /\ \A i \in DOMAIN text : text[i] \in DOMAIN HexDigit
    THEN {[i \in 1..(Len(text) \div 2) |->
              16 * HexDigit[text[(2 * i) - 1]] + HexDigit[text[2 * i]]]}
    ELSE {}

(* Mutant of Decode32: of any length.                                      *)
DecodeAnyLength(text) == HexBytes(text)

Decode32(text) == {b \in HexBytes(text) : Len(b) = HashLength}

-----------------------------------------------------------------------------
(* What is signed *)

RegistrationMessage(xid, identifier) == <<"hfipay:register">> \o xid \o identifier

(* The fields of a refund as its text says them, if all of it decodes; the *)
(* empty mint text is the native token.                                    *)
Fields(r) ==
    [chain_tag  : {r.chain_tag},
     mint       : IF r.mint = None THEN {None} ELSE Decode32(r.mint),
     intent     : Decode32(r.intent),      blinded : Decode32(r.blinded),
     amount     : {r.amount},
     authorizer : Decode32(r.authorizer),  dest    : Decode32(r.dest),
     expiry     : {r.expiry},              nonce   : {r.nonce}]

RefundMessageNoNonce(f) ==   \* mutant of RefundMessage
    <<"hfipay:refund", "ace-hfi-pay:v1", f.chain_tag>>
      \o (IF f.mint = None THEN <<0>> ELSE <<1>> \o f.mint)
      \o f.intent \o f.blinded \o <<f.amount>>
      \o f.authorizer \o f.dest \o <<f.expiry>>

(* Integers have eight bytes each.                                         *)
RefundMessage(f) ==
    <<"hfipay:refund", "ace-hfi-pay:v1", f.chain_tag>>
      \o (IF f.mint = None THEN <<0>> ELSE <<1>> \o f.mint)
      \o f.intent \o f.blinded \o <<f.amount>>
      \o f.authorizer \o f.dest \o <<f.expiry, f.nonce>>

(* Mutant of UnsealToSeeds: from the sealed bytes, like a vault's view.    *)
UnsealToSeedsOfSealed(mnemonic, passphrase) ==
    IF Opens(mnemonic, BaseKey(Combine(passphrase, None)))
    THEN {MaterialSeeds(mnemonic)} ELSE {}

(* No secondary passphrase: its mnemonics do not open here.                *)
UnsealToSeeds(mnemonic, passphrase) ==
    IF Opens(mnemonic, BaseKey(Combine(passphrase, None)))
    THEN {MaterialSeeds(mnemonic.material)} ELSE {}

(* The reply: the ML-DSA-44 key and signature.                             *)
SignHash(mnemonic, passphrase, message) ==
    {[pubkey    |-> PublicKey("ml-dsa-44", s.xaddress),
      signature |-> SignWith("ml-dsa-44", s.xaddress, message)] :
        s \in UnsealToSeeds(mnemonic, passphrase)}

SignRegistrationHash(mnemonic, passphrase, xid, identifier) ==
    UNION {SignHash(mnemonic, passphrase, RegistrationMessage(x, identifier)) :
             x \in Decode32(xid)}

SignRefundAuth(mnemonic, passphrase, r) ==
    UNION {SignHash(mnemonic, passphrase, RefundMessage(f)) : f \in Fields(r)}

-----------------------------------------------------------------------------
(* What is quoted *)

ClaimPubkeyOfPolkadot(mnemonic, passphrase) ==   \* mutant of ClaimPubkey
    {PublicKey("ed25519", s.polkadot) : s \in UnsealToSeeds(mnemonic, passphrase)}

ClaimPubkey(mnemonic, passphrase) ==
    {PublicKey("ed25519", s.solana) : s \in UnsealToSeeds(mnemonic, passphrase)}

(* M31(epoch as u32): cut to the integer's width, then read in the field.  *)
FieldElement(epoch) == (epoch % 2^(FieldBits + 1)) % (2^FieldBits - 1)

(* Mutant of EpochFits: the modulus itself passes.                         *)
EpochFitsAlmost(epoch) == epoch <= 2^FieldBits - 1

EpochFits(epoch) == epoch < 2^FieldBits - 1

(* From the bytes of the mnemonic alone: the passphrase is not looked at.  *)
BindingMetadata(mnemonic, epoch) ==
    IF EpochFits(epoch)
    THEN {[commitment |-> <<"id_com", mnemonic>>,
           handle     |-> <<"target", mnemonic, FieldElement(epoch)>>]}
    ELSE {}

-----------------------------------------------------------------------------
(* The wallets *)

HfiGenerate(material, passphrase, secondary) ==
    /\ \A m \in hfiMnemonics : m.material # material
    /\ hfiMnemonics' = hfiMnemonics \cup {Seal(material, Combine(passphrase, secondary))}
    /\ UNCHANGED <<authorised, accounts, honoured, quotes>>

HfiChangePassphrase(m, old, new) ==
    /\ Opens(m, BaseKey(Combine(old, None)))
    /\ hfiMnemonics' = hfiMnemonics \cup {Seal(m.material, Combine(new, None))}
    /\ UNCHANGED <<authorised, accounts, honoured, quotes>>

SignRegistration(m, passphrase, xid, identifier) ==
    /\ authorised' = authorised \cup
         {[wallet |-> m.material, reply |-> s, kind |-> "register",
           asked |-> [xid |-> xid, identifier |-> identifier]] :
            s \in SignRegistrationHash(m, passphrase, xid, identifier)}
    /\ UNCHANGED <<hfiMnemonics, accounts, honoured, quotes>>

AuthoriseRefund(m, passphrase, r) ==
    /\ authorised' = authorised \cup
         {[wallet |-> m.material, reply |-> s, kind |-> "refund", asked |-> r] :
            s \in SignRefundAuth(m, passphrase, r)}
    /\ UNCHANGED <<hfiMnemonics, accounts, honoured, quotes>>

(* A portal asks for both halves of a quote.                               *)
Quote(m, passphrase, epoch) ==
    /\ quotes' = quotes \cup
         {[mnemonic |-> m, epoch |-> epoch, key |-> k, binding |-> b] :
            k \in ClaimPubkey(m, passphrase), b \in BindingMetadata(m, epoch)}
    /\ UNCHANGED <<hfiMnemonics, authorised, accounts, honoured>>

-----------------------------------------------------------------------------
(* The service *)

(* It is told xid, identifier and key, with some signature.                *)
Register(xid, identifier, reply) ==
    /\ \E x \in Decode32(xid) :
         /\ Verifies(reply.pubkey, RegistrationMessage(x, identifier), reply.signature)
         /\ accounts' = accounts \cup
              {[xid |-> x, identifier |-> identifier, key |-> reply.pubkey]}
    /\ UNCHANGED <<hfiMnemonics, authorised, honoured, quotes>>

(* It is told the fields of a refund, with some signature.                 *)
Honour(account, r, reply) ==
    /\ \E f \in Fields(r) :
         /\ Verifies(account.key, RefundMessage(f), reply.signature)
         /\ honoured' = honoured \cup {[key |-> account.key, fields |-> f]}
    /\ UNCHANGED <<hfiMnemonics, authorised, accounts, quotes>>

-----------------------------------------------------------------------------
HfiInit ==
    /\ hfiMnemonics = {} /\ authorised = {} /\ accounts = {}
    /\ honoured = {} /\ quotes = {}

HfiAnswer(m, p) ==
    /\ Cardinality(authorised) + Cardinality(quotes) < MaxReplies
    /\ \/ \E x \in Xids, i \in Identifier : SignRegistration(m, p, x, i)
       \/ \E r \in RefundRequest : AuthoriseRefund(m, p, r)
       \/ \E e \in Epoch : Quote(m, p, e)

HfiNext ==
    \/ /\ Cardinality(hfiMnemonics) < MaxHfiMnemonics
       /\ \/ \E w \in HfiMaterial, p \in HfiPassphrase, s \in HfiSecondary :
               HfiGenerate(w, p, s)
          \/ \E m \in hfiMnemonics, p, q \in HfiPassphrase : HfiChangePassphrase(m, p, q)
    \/ \E m \in hfiMnemonics, p \in HfiPassphrase : HfiAnswer(m, p)
    \/ \E a \in authorised, x \in Xids, i \in Identifier : Register(x, i, a.reply)
    \/ \E account \in accounts, a \in authorised, r \in RefundRequest :
         Honour(account, r, a.reply)

HfiSpec == HfiInit /\ [][HfiNext]_hfiVars

-----------------------------------------------------------------------------
(* Correctness *)

(* The name a wallet publishes for its ML-DSA-44 key.                      *)
Published(material) == EntityOf(material).xaddress[2]

(* An identifier is registered, and a refund is made, only if the wallet   *)
(* whose key it is asked for just that: no authorisation is taken for      *)
(* another one, of either kind, in whatever way its fields were spelt.     *)
HonouredAsAsked ==
    /\ \A account \in accounts : \E a \in authorised :
         /\ a.kind = "register"
         /\ account.key = Published(a.wallet)
         /\ account.identifier = a.asked.identifier
         /\ account.xid \in Decode32(a.asked.xid)
    /\ \A h \in honoured : \E a \in authorised :
         /\ a.kind = "refund"
         /\ h.key = Published(a.wallet)
         /\ h.fields \in Fields(a.asked)

(* What a wallet authorises is accepted under the account it registered,   *)
(* whichever of its mnemonics, older or newer, was used for either.        *)
AuthorisationsAreGood ==
    \A account \in accounts, g, a \in authorised :
      /\ g.kind = "register" /\ account.key = g.reply.pubkey
      /\ a.kind = "refund" /\ a.wallet = g.wallet
      => \E f \in Fields(a.asked) :
          Verifies(account.key, RefundMessage(f), a.reply.signature)

(* A quote can be claimed with the Solana key of its wallet, after any     *)
(* rotation too.  Its handle is for one mnemonic and one epoch, and its    *)
(* commitment for one mnemonic: those do not survive a rotation.           *)
QuotesNameTheirWallet ==
    \A q, r \in quotes :
      /\ q.key = EntityOf(q.mnemonic.material).solana[2]
      /\ q.binding.commitment = r.binding.commitment <=> q.mnemonic = r.mnemonic
      /\ q.binding.handle = r.binding.handle
           <=> q.mnemonic = r.mnemonic /\ q.epoch = r.epoch
=============================================================================
