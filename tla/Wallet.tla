------------------------------- MODULE Wallet -------------------------------
(***************************************************************************)
(* The wallet core as its callers drive it: generate, view, change the     *)
(* passphrase, open a session, sign (acegf_core.rs, session.rs, the        *)
(* signing part of acegf.rs, and the argument rules of ffi.rs, wasm.rs).   *)
(*                                                                         *)
(* The library keeps nothing between calls except the sessions it hands    *)
(* out.  Mnemonics live with callers: several devices, backups, old        *)
(* copies.  So any mnemonic ever issued may be passed to any call, with    *)
(* any credential, at any time and in any order, and a passphrase may be   *)
(* changed twice from the same old mnemonic.                               *)
(***************************************************************************)
EXTENDS Sealing, Integers, FiniteSets

CONSTANTS
  Root,        (* Values of the 16 bytes of identity material.            *)
  Primary,     (* Passphrases, as sequences of NUL-free fragments.        *)
  Secondary,   (* Secondary passphrases: None and Some(...).              *)
  NotUtf8,     (* Fragments whose bytes are not UTF-8.                    *)
  Foreign,     (* 24-word mnemonics that were never sealed by anybody.    *)
  Malformed,   (* Strings that are not a 24-word mnemonic.                *)
  Message,     (* Messages to sign.                                       *)
  SessionId,   (* Session handles.                                        *)
  Api,         (* The bindings in use: "direct" for Rust and WASM callers, *)
               (* "ffi" for callers that pass C strings.                  *)
  MaxIssued    (* Bound: mnemonics issued in a behaviour.                 *)

ASSUME CredentialAssumption ==
    /\ \A p \in Primary : p \in Seq(STRING) /\ Len(p) > 0
    /\ \A s \in Secondary : s \in Seq(STRING)
    /\ None \in Secondary
    /\ "direct" \in Api /\ Api \subseteq {"direct", "ffi"}
    /\ "ffi" \in Api => <<"">> \in Primary

ASSUME MaterialAssumption == Foreign \cap Root = {}

VARIABLES
  announced,   (* From each issued mnemonic to the entity that generate    *)
               (* returned for its wallet: history, carried along rekeys. *)
  kits,        (* What owners wrote down last for each issued mnemonic:    *)
               (* the passphrases as they were passed, and to which call. *)
  sessions,    (* Open sessions.                                          *)
  ret          (* What the last call returned.                            *)

vars == <<announced, kits, sessions, ret>>

Issued == DOMAIN announced

-----------------------------------------------------------------------------
(* Arguments *)

(* The empty string; as an option, present but empty.                      *)
Empty == <<"">>

NulFree(s) == Len(s) <= 1

IsUtf8(s) == \A i \in DOMAIN s : s[i] \notin NotUtf8

(* Who reads the passphrases of a call.  "admin" are the WASM calls whose  *)
(* secondary is an admin factor.                                           *)
Reader == Api \cup {"admin"}

(* What can be passed: C strings are null (None) or any bytes up to the    *)
(* first NUL; strings of Rust and WASM are UTF-8 with or without NULs.     *)
PrimaryOf(reader) ==
    IF reader = "ffi" THEN {p \in Primary : NulFree(p)} \cup {None}
    ELSE {p \in Primary : IsUtf8(p)}

SecondaryOf(reader) ==
    IF reader = "ffi" THEN {s \in Secondary : NulFree(s)}
    ELSE IF reader = "admin" THEN {s \in Secondary : IsUtf8(s)} \ {None}
    ELSE {s \in Secondary : IsUtf8(s)}

(* ffi.rs takes bytes that are not UTF-8 for a null pointer.               *)
FromCStr(ptr) == IF IsUtf8(ptr) THEN ptr ELSE None

FromCStrOptional(ptr) == IF FromCStr(ptr) = Empty THEN None ELSE FromCStr(ptr)

FromCStrOrEmpty(ptr) == IF FromCStr(ptr) = None THEN Empty ELSE FromCStr(ptr)

(* admin_factor is a plain string in which "" stands for "no factor".      *)
AdminSecondary(admin) == IF admin = Empty THEN None ELSE Some(admin)

ReadPrimary(reader, p) == IF reader = "ffi" THEN FromCStrOrEmpty(p) ELSE p

ReadSecondary(reader, s) ==
    IF reader = "ffi" THEN FromCStrOptional(s)
    ELSE IF reader = "admin" THEN AdminSecondary(s)
    ELSE s

(* The bytes that reach Argon2id.                                          *)
Credential(reader, p, s) ==
    Combine(ReadPrimary(reader, p), ReadSecondary(reader, s))

(* A mnemonic that decodes, but that no passphrase seals.                  *)
ForeignSealed(f) == [material |-> f, key |-> <<"foreign">>]

Input == Issued \cup {ForeignSealed(f) : f \in Foreign} \cup Malformed

-----------------------------------------------------------------------------
(* Results *)

Reply(op, m, error, value) ==
    [op |-> op, mnemonic |-> m, error |-> error, value |-> value]

Idle == Reply("none", {}, "ok", {})

(* decode_mnemonic_to_sealed, then unseal: the checks every sealed-path    *)
(* call makes, in this order.                                              *)
UnsealError(m, base) ==
    IF m \in Malformed THEN "InvalidFormat"
    ELSE IF Opens(m, base) THEN "ok"
    ELSE "InvalidPassphrase"

Unseals(m, base) == UnsealError(m, base) = "ok"

(* The mnemonic is part of a successful reply only.                        *)
UnsealReply(op, m, base, v) ==
    IF Unseals(m, base) THEN Reply(op, m, "ok", {v})
    ELSE Reply(op, {}, UnsealError(m, base), {})

ViewReply(op, m, base) == UnsealReply(op, m, base, EntityOf(m.material))

-----------------------------------------------------------------------------
Init ==
    /\ announced = [m \in {} |-> {}]
    /\ kits = [m \in {} |-> {}]
    /\ sessions = [s \in {} |-> {}]
    /\ ret = Idle

Announce(m, entity) ==
    announced' = [x \in Issued \cup {m} |->
                     IF x \in Issued THEN announced[x] ELSE entity]

Remember(reader, m, p, s) ==
    kits' = [x \in Issued \cup {m} |->
                IF x = m THEN [reader |-> reader, primary |-> p, secondary |-> s]
                ELSE kits[x]]

AnyRoot == Root   \* mutant of FreshRoot: material drawn twice

(* getrandom draws material nobody drew before (16 random bytes).          *)
FreshRoot == {r \in Root : \A m \in Issued : m.material # r}

Generate(api, p, s) ==
    /\ Cardinality(Issued) < MaxIssued
    /\ \E r \in FreshRoot :
         LET m == Seal(r, Credential(api, p, s))
         IN /\ Announce(m, EntityOf(r))
            /\ Remember(api, m, p, s)
            /\ ret' = Reply("generate", m, "ok", {EntityOf(r)})
    /\ UNCHANGED sessions

(* The operating system has no randomness to give.                         *)
GenerateFails ==
    /\ ret' = Reply("generate", {}, "Internal", {})
    /\ UNCHANGED <<announced, kits, sessions>>

View(api, m, p, s) ==
    /\ ret' = ViewReply("view", m, BaseKey(Credential(api, p, s)))
    /\ UNCHANGED <<announced, kits, sessions>>

(* The passkey path: the PRF output takes the place of the passphrase.     *)
ViewWithPrf(m, prf) ==
    /\ ret' = ViewReply("view", m, BaseKey(prf))
    /\ UNCHANGED <<announced, kits, sessions>>

-----------------------------------------------------------------------------
(* Passphrase rotation *)

(* Mutants of Reseal: new material; bytes cut at the first NUL, as in a C  *)
(* string; a random nonce.                                                 *)
ResealNewMaterial(material, bytes) == Seal(CHOOSE r \in Root : r # material, bytes)
ResealCutAtNul(material, bytes) == Seal(material, <<bytes[1]>>)
ResealWithNonce(material, bytes) ==
    [material |-> material, key |-> SealKey(BaseKey(bytes)), nonce |-> Issued]

Reseal(material, bytes) == Seal(material, bytes)

(* change_passphrase_internal_mixed: unseal with the old bytes, reseal the *)
(* same material with the new ones, return the new mnemonic.  The owner    *)
(* keeps p and s, as passed.                                               *)
Rekey(m, oldBytes, newBytes, reader, p, s) ==
    \/ /\ ~Unseals(m, BaseKey(oldBytes))
       /\ ret' = Reply("rekey", {}, UnsealError(m, BaseKey(oldBytes)), {})
       /\ UNCHANGED <<announced, kits, sessions>>
    \/ /\ Unseals(m, BaseKey(oldBytes))
       /\ LET resealed == Reseal(m.material, newBytes)
          IN /\ Cardinality(Issued \cup {resealed}) <= MaxIssued
             /\ Announce(resealed, announced[m])
             /\ Remember(reader, resealed, p, s)
             /\ ret' = Reply("rekey", m, "ok", {resealed})
       /\ UNCHANGED sessions

(* Rust callers choose the secondary; FFI (and WASM) always pass None.     *)
ChangePassphrase(api, m, old, new, s) ==
    /\ api = "ffi" => s = None
    /\ Rekey(m, Credential(api, old, s), Credential(api, new, s), api, new, s)

ChangePassphraseWithAdmin(m, old, new, admin) ==
    Rekey(m, Combine(old, AdminSecondary(admin)),
             Combine(new, AdminSecondary(admin)), "admin", new, admin)

(* For wallets made without a secondary: add one while rotating.           *)
AddAdmin(m, old, new, admin) ==
    Rekey(m, Combine(old, None),
             Combine(new, AdminSecondary(admin)), "admin", new, admin)

-----------------------------------------------------------------------------
(* Signing with an entity's keys *)

Curve == {0, 1, 2}

UnsupportedCurve == 3

SigningChain == <<"solana", "evm", "xaddress">>

(* Mutant of Signature: curve 0 signs with Polkadot's Ed25519 stream.      *)
SignatureFromPolkadot(material, curve, msg) ==
    LET c == SigningChain[curve + 1]
    IN SignWith(CurveOf[c],
                MaterialSeeds(material)[IF curve = 0 THEN "polkadot" ELSE c], msg)

Signature(material, curve, msg) ==
    LET c == SigningChain[curve + 1]
    IN SignWith(CurveOf[c], MaterialSeeds(material)[c], msg)

(* sign_message_internal unseals before it looks at the curve.             *)
Sign(api, m, p, s, curve, msg) ==
    LET base == BaseKey(Credential(api, p, s))
    IN /\ ret' = IF Unseals(m, base) /\ curve \notin Curve
                 THEN Reply("sign", {}, "UnsupportedCurve", {})
                 ELSE UnsealReply("sign", m, base,
                                  Signature(m.material, curve, msg))
       /\ UNCHANGED <<announced, kits, sessions>>

(* acegf_x25519_sign: curve 0 with no secondary.                           *)
X25519Sign(api, m, p, msg) ==
    LET base == BaseKey(Credential(api, p, None))
    IN /\ ret' = UnsealReply("x25519_sign", m, base,
                             Signature(m.material, 0, msg))
       /\ UNCHANGED <<announced, kits, sessions>>

(* x25519_verify_internal reads the given bytes as an Ed25519 key.         *)
X25519Verify(public, msg, sig) ==
    /\ public[2] = "ed25519"
    /\ Verifies(public, msg, sig)

-----------------------------------------------------------------------------
(* Sessions: Session::open caches mnemonic, base key, signing seed, view   *)

SessionWith(m, base, seed) ==
    [mnemonic    |-> m,
     base_key    |-> base,
     auth_seed   |-> seed,
     auth_pubkey |-> PublicKey("ed25519", seed),
     wallet      |-> EntityOf(m.material)]

(* Mutant of SessionOf: caches the X25519 stream for signing.              *)
SessionOfX25519(m, base) == SessionWith(m, base, MaterialSeeds(m.material)["x25519"])

SessionOf(m, base) == SessionWith(m, base, MaterialSeeds(m.material)["solana"])

OpenSession(sid, m, p, s) ==
    LET base == BaseKey(Combine(p, s))
    IN \/ /\ ~Unseals(m, base)
          /\ ret' = Reply("open", {}, UnsealError(m, base), {})
          /\ UNCHANGED <<announced, kits, sessions>>
       \/ /\ Unseals(m, base)
          /\ sessions' = [x \in DOMAIN sessions \cup {sid} |->
                             IF x = sid THEN SessionOf(m, base) ELSE sessions[x]]
          /\ ret' = ViewReply("open", m, base)
          /\ UNCHANGED <<announced, kits>>

(* Signs from the cached seed, without the mnemonic or the passphrase.     *)
SessionSign(sid, msg) ==
    /\ ret' = Reply("session_sign", sessions[sid].mnemonic, "ok",
                    {SignWith("ed25519", sessions[sid].auth_seed, msg)})
    /\ UNCHANGED <<announced, kits, sessions>>

(* Later calls of the session unseal the cached mnemonic again.            *)
SessionUnseal(sid) ==
    /\ ret' = ViewReply("view", sessions[sid].mnemonic, sessions[sid].base_key)
    /\ UNCHANGED <<announced, kits, sessions>>

(* Drop zeroizes the cached secrets.                                       *)
CloseSession(sid) ==
    /\ sessions' = [x \in DOMAIN sessions \ {sid} |-> sessions[x]]
    /\ ret' = Idle
    /\ UNCHANGED <<announced, kits>>

-----------------------------------------------------------------------------
GenerateStep ==
    \/ \E api \in Api : \E p \in PrimaryOf(api), s \in SecondaryOf(api) :
          Generate(api, p, s)
    \/ GenerateFails

RekeyStep ==
    \E m \in Input :
      \/ \E api \in Api :
            \E old, new \in PrimaryOf(api), s \in SecondaryOf(api) :
              ChangePassphrase(api, m, old, new, s)
      \/ \E old, new \in PrimaryOf("admin"), admin \in SecondaryOf("admin") :
            \/ ChangePassphraseWithAdmin(m, old, new, admin)
            \/ AddAdmin(m, old, new, admin)

ReadStep ==
    \E m \in Input :
      \/ \E api \in Api : \E p \in PrimaryOf(api) :
            \/ \E s \in SecondaryOf(api) :
                  \/ View(api, m, p, s)
                  \/ \E curve \in Curve \cup {UnsupportedCurve}, msg \in Message :
                        Sign(api, m, p, s, curve, msg)
            \/ \E msg \in Message : X25519Sign(api, m, p, msg)
      \/ \E prf \in Primary : ViewWithPrf(m, prf)

SessionStep ==
    \/ \E sid \in SessionId \ DOMAIN sessions, m \in Input :
         \E p \in PrimaryOf("direct"), s \in SecondaryOf("direct") :
           OpenSession(sid, m, p, s)
    \/ \E sid \in DOMAIN sessions :
         \/ \E msg \in Message : SessionSign(sid, msg)
         \/ SessionUnseal(sid)
         \/ CloseSession(sid)

Next == GenerateStep \/ RekeyStep \/ ReadStep \/ SessionStep

Spec == Init /\ [][Next]_vars

-----------------------------------------------------------------------------
(* Correctness *)

Sealed == [material : Root, key : {SealKey(BaseKey(Combine(p, s))) :
                                      p \in Primary, s \in Secondary}]

(* A string that is not a mnemonic is none that was sealed.                *)
ASSUME MalformedAssumption == Malformed \cap Sealed = {}

Entities == {EntityOf(r) : r \in Root}

Kit == UNION {[reader : {r}, primary : PrimaryOf(r), secondary : SecondaryOf(r)] :
                 r \in Reader}

(* What a call makes of the kit that was written down for it.              *)
KitBytes(k) == Credential(k.reader, k.primary, k.secondary)

SessionRecord ==
    [mnemonic    : Sealed,
     base_key    : {BaseKey(Combine(p, s)) : p \in Primary, s \in Secondary},
     auth_seed   : {MaterialSeeds(r)["solana"] : r \in Root},
     auth_pubkey : {PublicKey("ed25519", MaterialSeeds(r)["solana"]) : r \in Root},
     wallet      : Entities]

(* The shape of every variable.                                            *)
TypeOK ==
    /\ Issued \subseteq Sealed
    /\ announced \in [Issued -> Entities]
    /\ kits \in [Issued -> Kit]
    /\ DOMAIN sessions \subseteq SessionId
    /\ sessions \in [DOMAIN sessions -> SessionRecord]
    /\ ret.error = "ok" /\ ret.op \notin {"none", "generate"} =>
          ret.mnemonic \in Issued

(* The addresses under which signed messages are verified.                 *)
MessageChain == {"solana", "evm", "xaddress"}

(* "Same root or fail": after any chain of passphrase changes, from any    *)
(* copy of any mnemonic, whatever a successful call shows is the identity  *)
(* that generate announced when the wallet was made, and whatever it signs *)
(* is signed for the one address of that identity that goes with the       *)
(* scheme: Solana for Ed25519, EVM for secp256k1, xaddress for ML-DSA.     *)
SameRootOrFail ==
    ret.error = "ok" =>
      /\ ret.op \in {"view", "open"} =>
            /\ ret.mnemonic \in Issued
            /\ ret.value = {announced[ret.mnemonic]}
      /\ ret.op \in {"sign", "x25519_sign", "session_sign"} =>
            /\ ret.mnemonic \in Issued
            /\ \A sig \in ret.value :
                 \E c \in MessageChain :
                   Verifies(announced[ret.mnemonic][c][2], sig.msg, sig)

(* No owner is locked out: the passphrases passed to the call that made a  *)
(* mnemonic recover the announced identity for ever, if they are read as   *)
(* that call reads them - also for the copies a later passphrase change    *)
(* has left behind.                                                        *)
NoLockout ==
    \A m \in Issued :
      ViewReply("view", m, BaseKey(KitBytes(kits[m]))) =
        Reply("view", m, "ok", {announced[m]})

(* What each call takes for the empty passphrase, and for no secondary.    *)
PassesForEmpty(reader, p) ==
    \/ p = Empty
    \/ reader = "ffi" /\ (p = None \/ ~IsUtf8(p))

PassesForNone(reader, s) ==
    \/ s = None
    \/ reader \in {"ffi", "admin"} /\ s = Empty
    \/ reader = "ffi" /\ ~IsUtf8(s)

(* A mnemonic opens for no credential but the one written down, through    *)
(* any binding, as long as neither has a NUL inside: the combined bytes    *)
(* split uniquely, so that a wrong secondary never passes for a longer     *)
(* primary.  What C callers pass for want of anything better - null, or    *)
(* bytes that are not UTF-8 - passes for the empty passphrase or for no    *)
(* secondary, and for nothing else.                                        *)
OnlyItsCredential ==
    \A m \in Issued, reader \in Reader :
      \A p \in PrimaryOf(reader), s \in SecondaryOf(reader) :
        LET k == kits[m]
        IN /\ \A x \in {p, s, k.primary, k.secondary} : NulFree(x)
           /\ Unseals(m, BaseKey(Credential(reader, p, s)))
           => /\ \/ p = k.primary
                 \/ PassesForEmpty(reader, p) /\ PassesForEmpty(k.reader, k.primary)
              /\ \/ s = k.secondary
                 \/ PassesForNone(reader, s) /\ PassesForNone(k.reader, k.secondary)

(* Sealing draws no randomness, so rotating the passphrase away and back   *)
(* gives the first mnemonic again: one mnemonic per wallet and credential. *)
OneMnemonicPerCredential ==
    \A m1, m2 \in Issued :
      announced[m1] = announced[m2] /\ KitBytes(kits[m1]) = KitBytes(kits[m2])
        => m1 = m2

(* Two wallets never become one: identities coincide only for mnemonics    *)
(* that seal the same material, however their passphrases were changed.    *)
WalletsStayApart ==
    \A m1, m2 \in Issued :
      announced[m1] = announced[m2] <=> m1.material = m2.material

(* What a session cached at open stays usable and true: the cached key     *)
(* still unseals the cached mnemonic, and the cached signing key belongs   *)
(* to the address every later view of the wallet reports.                  *)
SessionsShowTheWallet ==
    \A sid \in DOMAIN sessions :
      LET session == sessions[sid]
      IN /\ session.mnemonic \in Issued
         /\ session.wallet = announced[session.mnemonic]
         /\ Unseals(session.mnemonic, session.base_key)
         /\ session.wallet["solana"] = <<"solana", session.auth_pubkey>>
         /\ session.auth_pubkey = PublicKey("ed25519", session.auth_seed)

(* The wallet core implements Identity: a mnemonic's owner is the material *)
(* inside it, a session's is the entity it cached.                         *)
OwnerOf(m) == EntityOf(m.material)

Id == INSTANCE Identity WITH
        Mnemonic <- Sealed,
        Owner    <- Entities,
        owner    <- [m \in Issued |-> OwnerOf(m)],
        opened   <- [sid \in DOMAIN sessions |-> sessions[sid].wallet],
        shown    <- IF ret.op \in {"generate", "view", "open"}
                    THEN {<<ret.mnemonic, e>> : e \in ret.value} ELSE {}

ImplementsIdentity == Id!Spec

-----------------------------------------------------------------------------
(* What comments and the API say, and the code does not do *)

(* acegf_x25519_sign and acegf_x25519_verify are a pair: the wallet's      *)
(* x25519 value would verify what the wallet's x25519 signature signed.    *)
X25519SignatureVerifies ==
    ret.op = "x25519_sign" =>
      \A sig \in ret.value :
        X25519Verify(announced[ret.mnemonic]["x25519"][2], sig.msg, sig)
=============================================================================
