------------------------------ MODULE Envelope ------------------------------
(***************************************************************************)
(* Messages to a wallet: the legacy X25519 envelope, the hybrid X25519 and *)
(* ML-KEM-768 envelopes v1 and v2, and bare ML-KEM encapsulation           *)
(* (acegf.rs).                                                             *)
(*                                                                         *)
(* Envelopes are kept by callers, their parts in different stores: the     *)
(* v2 wrap layer may lose a wrap, and any part may be handed to decrypt    *)
(* together with parts of another envelope.  Owners hold several           *)
(* mnemonics of one wallet, as passphrase rotation leaves them behind      *)
(* (module Wallet), and read with any of them.                             *)
(***************************************************************************)
EXTENDS Sealing, Integers, Functions

CONSTANTS
  Root,        (* Identity material of the wallets.                       *)
  Primary,     (* Passphrases.                                            *)
  Secondary,   (* Secondary passphrases: None and Some(...).              *)
  Format,      (* Envelope formats in use.                                *)
  MaxPosted    (* Bound: envelopes posted in a behaviour.                 *)

ASSUME FormatAssumption == Format \subseteq {"legacy", "v1", "v2", "xkem"}

VARIABLES
  posted,      (* Sequence of envelopes as their senders made them; the    *)
               (* plaintext of the i-th is i.                             *)
  wraps,       (* The wrap layer: for each envelope the set of at most one *)
               (* wrap it holds, with the wallet that derived it.         *)
  ret          (* Outcome of the last decryption.                         *)

vars == <<posted, wraps, ret>>

Credential == {Combine(p, s) : p \in Primary, s \in Secondary}

Mnemonic == {Seal(r, bytes) : r \in Root, bytes \in Credential}

-----------------------------------------------------------------------------
(* Symbolic primitives *)

XSeed(r) == MaterialSeeds(r)["x25519"]
KemSeed(r) == MaterialSeeds(r)["xkem"]

XPub(seed) == PublicKey("x25519", seed)
KemPub(seed) == PublicKey("ml-kem-768", seed)

(* Both ends compute the same secret from one's own seed and the other's   *)
(* public key.                                                             *)
DH(seed, public) == {XPub(seed), public}

Encapsulate(ek, rand) == [ss |-> <<"kem-ss", ek, rand>>, ct |-> <<"kem-ct", ek, rand>>]

(* Implicit rejection: a foreign ciphertext gives another secret, never an *)
(* error.                                                                  *)
Decapsulate(seed, ct) ==
    IF ct[2] = KemPub(seed) THEN <<"kem-ss", ct[2], ct[3]>>
    ELSE <<"kem-reject", seed, ct>>

(* AES-256-GCM: opens under the key and IV it was sealed with, or not.     *)
Encrypt(key, iv, plaintext) == [key |-> key, iv |-> iv, plaintext |-> plaintext]

Decrypt(key, iv, ct) ==
    IF ct.key = key /\ ct.iv = iv THEN {ct.plaintext} ELSE {}

RandomRepeats(i, what) == <<"random", what>>   \* mutant of Random

(* Bytes the i-th envelope drew from the operating system.                 *)
Random(i, what) == <<"random", i, what>>

-----------------------------------------------------------------------------
(* Envelope formats: what encrypt makes, what decrypt makes of the parts   *)

LegacyEnvelope(i, rx) ==
    LET eph == Random(i, "ephemeral")
        aes == Random(i, "aes key")
        iv  == Random(i, "iv")
    IN [eph     |-> XPub(eph),
        aes_key |-> Encrypt(<<"sha256", DH(eph, rx)>>, iv, aes),
        iv      |-> iv,
        data    |-> Encrypt(aes, iv, i)]

(* The four strings are separate arguments.                                *)
OpenLegacy(r, eph, aes_key, iv, data) ==
    UNION {Decrypt(aes, iv, data) :
             aes \in Decrypt(<<"sha256", DH(XSeed(r), eph)>>, iv, aes_key)}

(* Mutants of HybridKey: without the ML-KEM secret; with nothing else.     *)
HybridKeyX25519Only(ss_x, ss_k, eph, kem_ct) == <<"hybrid", ss_x, eph>>
HybridKeyKemOnly(ss_x, ss_k, eph, kem_ct) == <<"hybrid", ss_k, kem_ct>>

(* HKDF over both secrets; the transcript goes into the info bytes.        *)
HybridKey(ss_x, ss_k, eph, kem_ct) == <<"hybrid", ss_x, ss_k, eph, kem_ct>>

HybridEnvelope(i, rx, rk) ==
    LET eph == Random(i, "ephemeral")
        kem == Encapsulate(rk, Random(i, "kem"))
        iv  == Random(i, "iv")
    IN [eph    |-> XPub(eph),
        kem_ct |-> kem.ct,
        data   |-> Encrypt(HybridKey(DH(eph, rx), kem.ss, XPub(eph), kem.ct), iv, i),
        iv     |-> iv]

OpenHybrid(r, eph, kem_ct, iv, data) ==
    Decrypt(HybridKey(DH(XSeed(r), eph), Decapsulate(KemSeed(r), kem_ct), eph, kem_ct),
            iv, data)

(* v2: every secret of the wrap is expanded from one seed.                 *)
WrapMaster(r) == <<"wrap-master", XSeed(r), KemSeed(r)>>

Seed64NoNonce(master, nonce, rx, rk) ==   \* mutant of Seed64
    <<"seed64", master, rx, <<"sha256", rk>> >>

Seed64(master, nonce, rx, rk) == <<"seed64", master, nonce, rx, <<"sha256", rk>> >>

Expand(seed64, label) == <<label, seed64>>

DkKey(ss_x, ss_k) == <<"dk-key", ss_x, ss_k>>

WrapV2(seed64, rx, rk) ==
    LET eph == Expand(seed64, "eph-x25519")
        kem == Encapsulate(rk, Expand(seed64, "kem-rand"))
        iv  == Expand(seed64, "wrap-iv")
    IN [eph    |-> XPub(eph),
        kem_ct |-> kem.ct,
        iv     |-> iv,
        ct     |-> Encrypt(DkKey(DH(eph, rx), kem.ss), iv, Expand(seed64, "dk"))]

BlobIvDerived(i, seed64) == Expand(seed64, "blob-iv")   \* mutant of BlobIv

BlobIv(i, seed64) == Random(i, "blob-iv")

EnvelopeV2(i, r, nonce, rx, rk) ==
    LET seed64 == Seed64(WrapMaster(r), nonce, rx, rk)
        iv     == BlobIv(i, seed64)
    IN [nonce    |-> nonce,
        rx       |-> rx,
        kem_hash |-> <<"sha256", rk>>,
        wrap     |-> WrapV2(seed64, rx, rk),
        blob     |-> [iv |-> iv, ct |-> Encrypt(Expand(seed64, "dk"), iv, i)]]

(* Mutants of RegeneratedWrap: swapped keys; the nonce left out.           *)
RegeneratedWrapSwapped(r, nonce, rx, rk) ==
    WrapV2(Seed64(WrapMaster(r), nonce, rk, rx), rx, rk)
RegeneratedWrapNoNonce(r, nonce, rx, rk) ==
    WrapV2(Seed64(WrapMaster(r), << >>, rx, rk), rx, rk)

(* regenerate_wrap_v2: the same derivation, written a second time.         *)
RegeneratedWrap(r, nonce, rx, rk) ==
    WrapV2(Seed64(WrapMaster(r), nonce, rx, rk), rx, rk)

(* The envelope names its recipient: checked before anything is opened.    *)
AddressedTo(r, header) ==
    /\ header.rx = XPub(XSeed(r))
    /\ header.kem_hash = <<"sha256", KemPub(KemSeed(r))>>

OpenV2(r, header, wrap, blob) ==
    IF ~AddressedTo(r, header) THEN {}
    ELSE UNION {Decrypt(dk, blob.iv, blob.ct) :
                  dk \in Decrypt(DkKey(DH(XSeed(r), wrap.eph),
                                       Decapsulate(KemSeed(r), wrap.kem_ct)),
                                 wrap.iv, wrap.ct)}

-----------------------------------------------------------------------------
Init ==
    /\ posted = << >>
    /\ wraps = << >>
    /\ ret = [op |-> "none"]

(* What the i-th caller of encrypt posts, with what only it knows: the     *)
(* sender (v2) and the public keys it encrypted to.                        *)
Post(format, sender, rx, rk, envelope, stored) ==
    /\ posted' = Append(posted, [format |-> format, sender |-> sender,
                                 rx |-> rx, rk |-> rk, envelope |-> envelope])
    /\ wraps' = Append(wraps, stored)
    /\ ret' = [op |-> "encrypt"]

NextId == Len(posted) + 1

XKeys == {XPub(XSeed(r)) : r \in Root}
KemKeys == {KemPub(KemSeed(r)) : r \in Root}

PostLegacy(rx) ==
    /\ "legacy" \in Format /\ Len(posted) < MaxPosted
    /\ Post("legacy", {}, rx, {}, LegacyEnvelope(NextId, rx), {})

PostHybrid(rx, rk) ==
    /\ "v1" \in Format /\ Len(posted) < MaxPosted
    /\ Post("v1", {}, rx, rk, HybridEnvelope(NextId, rx, rk), {})

PostEncapsulation(rk) ==
    /\ "xkem" \in Format /\ Len(posted) < MaxPosted
    /\ Post("xkem", {}, {}, rk, Encapsulate(rk, Random(NextId, "kem")), {})

(* Nonces a v2 sender may pass: none, or one it stored with an envelope.   *)
StoredNonces == {posted[i].envelope.nonce :
                   i \in {j \in DOMAIN posted : posted[j].format = "v2"}}

Nonces == {Random(NextId, "nonce")} \cup StoredNonces

(* The sender unseals with no secondary passphrase.                        *)
SenderUnseals(m, p) == Opens(m, BaseKey(Combine(p, None)))

PostV2(m, p, nonce, rx, rk) ==
    /\ "v2" \in Format /\ Len(posted) < MaxPosted
    /\ LET e == EnvelopeV2(NextId, m.material, nonce, rx, rk)
       IN IF SenderUnseals(m, p)
          THEN Post("v2", m.material, rx, rk, e, {[by |-> m.material, wrap |-> e.wrap]})
          ELSE /\ ret' = [op |-> "unseal failed"]
               /\ UNCHANGED <<posted, wraps>>

LoseWrap(i) ==
    /\ posted[i].format = "v2"
    /\ wraps' = [wraps EXCEPT ![i] = {}]
    /\ ret' = [op |-> "lose"]
    /\ UNCHANGED posted

NewWrap(i, r) ==
    [by   |-> r,
     wrap |-> RegeneratedWrap(r, posted[i].envelope.nonce, posted[i].rx, posted[i].rk)]

(* The caller stores what it gets; nothing compares it with the original.  *)
Regenerate(i, m, p) ==
    /\ posted[i].format = "v2"
    /\ IF SenderUnseals(m, p)
       THEN /\ wraps' = [wraps EXCEPT ![i] = {NewWrap(i, m.material)}]
            /\ ret' = [op |-> "regenerate"]
       ELSE /\ ret' = [op |-> "unseal failed"]
            /\ UNCHANGED wraps
    /\ UNCHANGED posted

-----------------------------------------------------------------------------
(* Reading: the mnemonic is unsealed with a passphrase pair or passkey     *)
(* bytes, then the parts are opened.                                       *)

Read(m, bytes, parts, outcome) ==
    /\ ret' = IF ~Opens(m, BaseKey(bytes)) THEN [op |-> "unseal failed"]
              ELSE IF outcome = {} THEN [op |-> "decrypt failed"]
              ELSE [op |-> "decrypt", reader |-> m.material, parts |-> parts,
                    plaintext |-> outcome]
    /\ UNCHANGED <<posted, wraps>>

Of(format) == {i \in DOMAIN posted : posted[i].format = format}

ReadLegacy(m, bytes, a, b, c) ==
    Read(m, bytes, <<a, b, c>>,
         OpenLegacy(m.material, posted[a].envelope.eph, posted[b].envelope.aes_key,
                    posted[c].envelope.iv, posted[c].envelope.data))

ReadHybrid(m, bytes, a, b, c) ==
    Read(m, bytes, <<a, b, c>>,
         OpenHybrid(m.material, posted[a].envelope.eph, posted[b].envelope.kem_ct,
                    posted[c].envelope.iv, posted[c].envelope.data))

ReadV2(m, bytes, a, b, c) ==
    \E stored \in wraps[b] :
      Read(m, bytes, <<a, b, c>>,
           OpenV2(m.material, posted[a].envelope, stored.wrap, posted[c].envelope.blob))

ReadEncapsulation(m, bytes, a) ==
    Read(m, bytes, <<a>>,
         {Decapsulate(KemSeed(m.material), posted[a].envelope.ct)})

SenderStep ==
    \/ \E rx \in XKeys : PostLegacy(rx)
    \/ \E rk \in KemKeys : PostEncapsulation(rk)
    \/ \E rx \in XKeys, rk \in KemKeys :
          \/ PostHybrid(rx, rk)
          \/ \E m \in Mnemonic, p \in Primary, nonce \in Nonces :
                PostV2(m, p, nonce, rx, rk)

StoreStep ==
    \E i \in DOMAIN posted :
      \/ LoseWrap(i)
      \/ \E m \in Mnemonic, p \in Primary : Regenerate(i, m, p)

ReaderStep ==
    \E m \in Mnemonic, bytes \in Credential :
      \/ \E a, b, c \in Of("legacy") : ReadLegacy(m, bytes, a, b, c)
      \/ \E a, b, c \in Of("v1") : ReadHybrid(m, bytes, a, b, c)
      \/ \E a, b, c \in Of("v2") : ReadV2(m, bytes, a, b, c)
      \/ \E a \in Of("xkem") : ReadEncapsulation(m, bytes, a)

Next == SenderStep \/ StoreStep \/ ReaderStep

Spec == Init /\ [][Next]_vars

-----------------------------------------------------------------------------
(* Correctness *)

(* Encrypted to both keys of wallet r; legacy and xkem use one key only.   *)
IsFor(i, r) ==
    /\ posted[i].format # "xkem" => posted[i].rx = XPub(XSeed(r))
    /\ posted[i].format # "legacy" => posted[i].rk = KemPub(KemSeed(r))

(* What wallet r makes of envelope i as it was posted, or with the wrap    *)
(* the wrap layer holds now.                                               *)
OutcomeOf(i, r) ==
    LET e == posted[i].envelope
    IN CASE posted[i].format = "legacy" -> OpenLegacy(r, e.eph, e.aes_key, e.iv, e.data)
         [] posted[i].format = "v1" -> OpenHybrid(r, e.eph, e.kem_ct, e.iv, e.data)
         [] posted[i].format = "xkem" -> {Decapsulate(KemSeed(r), e.ct)} \cap {e.ss}
         [] posted[i].format = "v2" ->
              UNION {OpenV2(r, e, stored.wrap, e.blob) : stored \in wraps[i]}

PlaintextOf(i) ==
    IF posted[i].format = "xkem" THEN posted[i].envelope.ss ELSE i

(* Readable for ever, by its recipient and nobody else: an envelope whose  *)
(* wrap is in place, as posted or regenerated from the sender's wallet     *)
(* under whichever mnemonic, opens for exactly the wallet both of whose    *)
(* keys it was encrypted to, and gives the plaintext.  An envelope to keys *)
(* of two wallets opens for nobody.                                        *)
RecipientAndOnlyRecipientReads ==
    \A i \in DOMAIN posted, r \in Root :
      (posted[i].format = "v2" => \E w \in wraps[i] : w.by = posted[i].sender)
      => OutcomeOf(i, r) = IF IsFor(i, r) THEN {PlaintextOf(i)} ELSE {}

(* Parts of different envelopes do not mix: what decrypts, whatever parts  *)
(* the caller put together, was encrypted to the reader, and all parts are *)
(* of one envelope.  In v2 the header only names the recipient, so it may  *)
(* be any header for the reader; wrap and blob are of one envelope, or of  *)
(* envelopes from one wallet under one nonce, which share their data key.  *)
NoSplicing ==
    ret.op = "decrypt" /\ Len(ret.parts) = 3 =>
      LET a == ret.parts[1] b == ret.parts[2] c == ret.parts[3]
      IN /\ \A i \in {a, b, c} : IsFor(i, ret.reader)
         /\ IF posted[a].format # "v2" THEN a = b /\ b = c
            ELSE /\ posted[b].envelope.nonce = posted[c].envelope.nonce
                 /\ \E w \in wraps[b] : w.by = posted[c].sender

(* Disaster recovery: a wrap regenerated from any mnemonic of the sender's *)
(* wallet is the wrap that was lost, byte for byte.                        *)
WrapsAreReproducible ==
    \A i \in DOMAIN posted : \A w \in wraps[i] :
      w.wrap = posted[i].envelope.wrap <=> w.by = posted[i].sender

(* AES-GCM ciphertexts an envelope and its stored wrap consist of.         *)
Ciphertexts(i) ==
    LET e == posted[i].envelope
    IN CASE posted[i].format = "legacy" -> {e.aes_key, e.data}
         [] posted[i].format = "v1" -> {e.data}
         [] posted[i].format = "xkem" -> {}
         [] posted[i].format = "v2" -> {e.blob.ct} \cup {w.wrap.ct : w \in wraps[i]}

(* AES-GCM breaks when two messages share key and IV: never, not even in   *)
(* v2, whose data keys and wrap IVs repeat when a nonce is used again or a *)
(* wrap is regenerated.                                                    *)
IvNeverReused ==
    \A i, j \in DOMAIN posted :
      \A x \in Ciphertexts(i), y \in Ciphertexts(j) :
        x.key = y.key /\ x.iv = y.iv => x.plaintext = y.plaintext

-----------------------------------------------------------------------------
(* What a comment says, and the code does not do *)

(* regenerate_wrap_v2: the sender can always rebuild a wrap.  An owner     *)
(* whose mnemonic has a secondary passphrase, as after adding an admin     *)
(* factor, cannot: regenerate takes none.                                  *)
SenderCanAlwaysRegenerate ==
    \A i \in Of("v2"), m \in Mnemonic :
      m.material = posted[i].sender => \E p \in Primary : SenderUnseals(m, p)
=============================================================================
