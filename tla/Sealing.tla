------------------------------ MODULE Sealing ------------------------------
(***************************************************************************)
(* The pure part of the wallet core: passphrase combination, the sealing   *)
(* of 16 bytes of identity material into a mnemonic, and the derivation of *)
(* the nine key streams and of the public entity from that material        *)
(* (acegf_core.rs, utils/passphrase_sealing_util.rs).                      *)
(*                                                                         *)
(* Cryptography is symbolic.  A KDF, hash, cipher or public-key function   *)
(* is a free constructor: a tagged tuple or record of its inputs.  Two     *)
(* outputs are equal exactly when the function and all inputs are, i.e.    *)
(* collisions and forgeries are left out.                                  *)
(*                                                                         *)
(* A passphrase is a byte string in which the NUL byte is significant, so  *)
(* it is represented by its NUL-separated fragments: "p" is <<"p">>, and   *)
(* "p\0s" is <<"p", "s">>.  An Option<&str> is None or the one-element     *)
(* (or longer) sequence of its fragments, so Some("") is <<"">>.           *)
(***************************************************************************)
EXTENDS Sequences

-----------------------------------------------------------------------------
(* Credentials *)

None == << >>

Some(s) == s

CombineDropsSecondary(primary, secondary) == primary   \* mutant of Combine

(* `format!("{primary}\0{s}")` joins with one NUL, which is concatenation  *)
(* of the fragment sequences; None leaves the primary as it is.            *)
Combine(primary, secondary) == primary \o secondary

(* Argon2id with the global salt, from passphrase or PRF bytes.            *)
BaseKey(bytes) == <<"argon2id-global", bytes>>

-----------------------------------------------------------------------------
(* Sealed identity material: 32 bytes, printed as a 24-word mnemonic.      *)
(* AES-256-GCM-SIV runs under a fixed nonce: no randomness enters a seal.  *)

SealKey(base) == <<"hkdf-sealed", base>>

Seal(material, bytes) == [material |-> material, key |-> SealKey(BaseKey(bytes))]

(* The authentication tag verifies: the only way to get the material out.  *)
Opens(sealed, base) == sealed.key = SealKey(base)

-----------------------------------------------------------------------------
(* Key streams and public entity *)

CurveOf == [solana   |-> "ed25519",   polkadot |-> "ed25519",
            evm      |-> "secp256k1", bitcoin  |-> "secp256k1",
            cosmos   |-> "secp256k1", tron     |-> "secp256k1",
            x25519   |-> "x25519",    xaddress |-> "ml-dsa-44",
            xkem     |-> "ml-kem-768"]

Chain == DOMAIN CurveOf

(* derive_from_material16: one HKDF label per stream.                      *)
MaterialSeeds(material) == [c \in Chain |-> <<"hkdf-material", material, c>>]

PublicKey(curve, seed) == <<"public", curve, seed>>

Address(c, seed) == <<c, PublicKey(CurveOf[c], seed)>>

(* generate_crypto_entity: the addresses of all nine streams.              *)
Entity(seeds) == [c \in Chain |-> Address(c, seeds[c])]

EntityOf(material) == Entity(MaterialSeeds(material))

-----------------------------------------------------------------------------
(* Signatures *)

SignWith(curve, seed, msg) == [curve |-> curve, seed |-> seed, msg |-> msg]

Verifies(public, msg, sig) ==
    /\ sig.msg = msg
    /\ public = PublicKey(sig.curve, sig.seed)
=============================================================================
