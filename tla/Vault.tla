------------------------------- MODULE Vault -------------------------------
(***************************************************************************)
(* Vaults: address sets isolated by a context string, derived next to the  *)
(* personal wallet (acegf_core.rs, the *_with_context functions of the     *)
(* signers and of wasm.rs), on top of Wallet's generate and passphrase     *)
(* rotation.                                                               *)
(*                                                                         *)
(* An owner views a vault and publishes what it shows; funds arrive there. *)
(* Later, after other calls and rotations, a signer derives its key anew   *)
(* through a different function of the code.  The two must agree.          *)
(***************************************************************************)
EXTENDS Wallet

CONSTANTS
  Context,        (* Context strings; "" is the personal wallet.           *)
  MaxPublished    (* Bound: address sets published in a behaviour.         *)

ASSUME ContextAssumption == "" \in Context

VARIABLE published  (* Address sets that owners viewed and gave away.       *)

vaultVars == <<vars, published>>

(* "pass": passphrase; "prf": passkey, whose PRF bytes replace it.         *)
Path == {"pass", "prf"}

SigningChains == {"evm", "solana", "tron"}

-----------------------------------------------------------------------------
(* Key derivation under a context *)

(* Argon2id salted with a hash of the sealed bytes, which stand in for a   *)
(* REV32; the seal itself is not opened.                                   *)
Kmaster(bytes, sealed) == <<"argon2id-salted", bytes, <<"hkdf-salt", sealed>>>>

IdentityRoot(kmaster) == <<"hkdf-root", kmaster>>

RevSeedNoContext(ikm, c, ctx) == <<"hkdf-rev32", ikm, c>>   \* mutant of RevSeed

(* hkdf_expand_with_context: label, ":" and the context; no ":" is in any  *)
(* label, so the pair is what the info bytes say.                          *)
RevSeed(ikm, c, ctx) == <<"hkdf-rev32", ikm, c, ctx>>

RevSeeds(ikm, ctx) == [c \in Chain |-> RevSeed(ikm, c, ctx)]

MasterKeySalted(path, m, bytes) == Kmaster(bytes, m)   \* mutant of MasterKey

(* The passkey's base key stands in for Kmaster, for every mnemonic.       *)
MasterKey(path, m, bytes) ==
    IF path = "pass" THEN Kmaster(bytes, m) ELSE BaseKey(bytes)

ViewedSeeds(path, m, bytes, ctx) ==
    RevSeeds(IdentityRoot(MasterKey(path, m, bytes)), ctx)

(* Mutant of SigningIkm: the Solana signer leaves the identity root out.   *)
SigningIkmSolana(path, c, kmaster) ==
    IF path = "pass" /\ c \in {"tron", "solana"} THEN kmaster
    ELSE IdentityRoot(kmaster)

(* The Tron signer leaves out the identity root on the passphrase path.    *)
SigningIkm(path, c, kmaster) ==
    IF path = "pass" /\ c = "tron" THEN kmaster ELSE IdentityRoot(kmaster)

SigningSeed(path, m, bytes, ctx, c) ==
    RevSeed(SigningIkm(path, c, MasterKey(path, m, bytes)), c, ctx)

(* With a context only the passphrase path looks at the mnemonic at all,   *)
(* and only as far as decoding it; without one, the wallet is unsealed.    *)
VaultError(path, m, bytes, ctx) ==
    IF ctx = "" THEN UnsealError(m, BaseKey(bytes))
    ELSE IF path = "pass" /\ m \in Malformed THEN "InvalidFormat"
    ELSE "ok"

VaultEntity(path, m, bytes, ctx) ==
    IF ctx = "" THEN EntityOf(m.material)
    ELSE Entity(ViewedSeeds(path, m, bytes, ctx))

VaultKeySeed(path, m, bytes, ctx, c) ==
    IF ctx = "" THEN MaterialSeeds(m.material)[c]
    ELSE SigningSeed(path, m, bytes, ctx, c)

-----------------------------------------------------------------------------
VaultInit == Init /\ published = {}

(* What a vault call was asked; a reply carries it in place of a mnemonic. *)
Asked(path, m, bytes, ctx) ==
    [path |-> path, mnemonic |-> m, bytes |-> bytes, ctx |-> ctx]

VaultReply(op, path, m, bytes, ctx, v) ==
    LET error == VaultError(path, m, bytes, ctx)
    IN IF error = "ok"
       THEN Reply(op, Asked(path, m, bytes, ctx), "ok", {v})
       ELSE Reply(op, {}, error, {})

(* The owner may publish what the call shows.                              *)
VaultView(path, m, bytes, ctx) ==
    /\ ret' = VaultReply("vault_view", path, m, bytes, ctx,
                         VaultEntity(path, m, bytes, ctx))
    /\ \/ UNCHANGED published
       \/ /\ VaultError(path, m, bytes, ctx) = "ok"
          /\ Cardinality(published) < MaxPublished
          /\ published' = published \cup
                {[asked  |-> Asked(path, m, bytes, ctx),
                  entity |-> VaultEntity(path, m, bytes, ctx)]}
    /\ UNCHANGED <<announced, kits, sessions>>

(* The EVM, Solana and Tron signers: each derives its key pair anew.       *)
VaultSign(path, m, bytes, ctx, c, msg) ==
    /\ ret' = VaultReply("vault_sign", path, m, bytes, ctx,
                  [chain |-> c,
                   sig   |-> SignWith(CurveOf[c],
                                VaultKeySeed(path, m, bytes, ctx, c), msg)])
    /\ UNCHANGED <<announced, kits, sessions, published>>

VaultCall ==
    \E path \in Path, m \in Input, ctx \in Context :
      \E p \in IF path = "pass" THEN PrimaryOf("direct") ELSE Primary,
         s \in IF path = "pass" THEN SecondaryOf("direct") ELSE {None} :
        \/ VaultView(path, m, Combine(p, s), ctx)
        \/ \E c \in SigningChains, msg \in Message :
              VaultSign(path, m, Combine(p, s), ctx, c, msg)

VaultNext ==
    \/ (GenerateStep \/ RekeyStep) /\ UNCHANGED published
    \/ VaultCall

VaultSpec == VaultInit /\ [][VaultNext]_vaultVars
-----------------------------------------------------------------------------
(* Correctness *)

(* Which vault a call means.  The personal wallet is one and the same for  *)
(* all mnemonics of a wallet; a passphrase vault is bound to one mnemonic  *)
(* and passphrase; a passkey vault to the passkey alone.                   *)
VaultOf(asked) ==
    IF asked.ctx = "" THEN <<"personal", announced[asked.mnemonic]>>
    ELSE IF asked.path = "pass"
         THEN <<"pass", asked.mnemonic, asked.bytes, asked.ctx>>
    ELSE <<"prf", asked.bytes, asked.ctx>>

(* The Tron signer on the passphrase path is the exception the code makes. *)
TronException(asked, c) ==
    c = "tron" /\ asked.path = "pass" /\ asked.ctx # ""

Did(op) == ret.op = op /\ ret.error = "ok"

(* An address once published stays what its vault shows, whatever was      *)
(* called in between: a view with the same passphrase and context, or of   *)
(* the personal wallet under any later mnemonic and passphrase, or of the  *)
(* passkey's vault through any mnemonic, shows the same nine addresses.    *)
ViewsAgree ==
    Did("vault_view") =>
      \A d \in published :
        VaultOf(d.asked) = VaultOf(ret.mnemonic) => ret.value = {d.entity}

(* Funds sent to a published address can be spent: the EVM, Solana and     *)
(* Tron signers, which derive their keys in functions of their own, sign   *)
(* for the address that the view of the same vault published.              *)
SignersMatchViews ==
    Did("vault_sign") =>
      \A d \in published, v \in ret.value :
        /\ VaultOf(d.asked) = VaultOf(ret.mnemonic)
        /\ ~TronException(ret.mnemonic, v.chain)
        => Verifies(d.entity[v.chain][2], v.sig.msg, v.sig)

(* Vaults are isolated: what a view shows and what a signer signs with has *)
(* no key in common with any other vault that was ever published, whether  *)
(* they differ in context, wallet, passphrase or path.                     *)
VaultsStayApart ==
    \A d \in published :
      /\ Did("vault_view") /\ VaultOf(d.asked) # VaultOf(ret.mnemonic) =>
            \A e \in ret.value, c1, c2 \in Chain : d.entity[c1][2] # e[c2][2]
      /\ Did("vault_sign") /\ VaultOf(d.asked) # VaultOf(ret.mnemonic) =>
            \A v \in ret.value, c \in Chain :
              ~Verifies(d.entity[c][2], v.sig.msg, v.sig)

-----------------------------------------------------------------------------
(* What comments say, and the code does not do *)

(* view_wallet_unified_with_context says that view and sign always produce *)
(* consistent addresses: Tron too.                                         *)
TronSignsForItsVault ==
    Did("vault_sign") =>
      \A d \in published, v \in ret.value :
        VaultOf(d.asked) = VaultOf(ret.mnemonic) =>
          Verifies(d.entity[v.chain][2], v.sig.msg, v.sig)

=============================================================================
