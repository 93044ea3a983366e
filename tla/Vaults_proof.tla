---------------------------- MODULE Vaults_proof ----------------------------
(***************************************************************************)
(* Proofs about Wallet and Vault, for any contexts, wallets and            *)
(* credentials and any number of mnemonics and published views; and about  *)
(* VaultContext, for strings of any length over any bytes, vaults of any   *)
(* number of segments, and any labels without a colon:                     *)
(*   - Before orders strings: strictly, and any two that are not equal;    *)
(*   - every list of strings can be sorted, in one way, and lists with the *)
(*     same segments, as often, are sorted to the same list;               *)
(*   - what is joined with colons can be taken apart at its last colon,    *)
(*     one segment after the other;                                        *)
(*   - a label ends where the first colon of its info bytes is.            *)
(***************************************************************************)
EXTENDS Vault, VaultContext, Bytes_proof, SequenceTheorems, FunctionTheorems

-----------------------------------------------------------------------------
(* Wallets *)

(* Every issued mnemonic still names the identity announced for it, and    *)
(* opens with the passphrases its owner wrote down last.                   *)
AnnouncedMaterial ==
    \A m \in Issued : announced[m] = EntityOf(m.material)

KeptCredential ==
    \A m \in Issued : m.key = SealKey(BaseKey(KitBytes(kits[m])))

(* The inductive invariant.                                                *)
IInv ==
    /\ TypeOK
    /\ AnnouncedMaterial
    /\ KeptCredential
    /\ SessionsShowTheWallet
    /\ SameRootOrFail

-----------------------------------------------------------------------------
(* Lemmas on the operators *)

(* What a call reads is a passphrase and a secondary that can be typed.    *)
LEMMA ReadType ==
  ASSUME NEW reader \in Reader,
         NEW p \in PrimaryOf(reader), NEW s \in SecondaryOf(reader)
  PROVE  ReadPrimary(reader, p) \in Primary /\ ReadSecondary(reader, s) \in Secondary
<1>1. s \in Secondary /\ None \in Secondary
  BY CredentialAssumption DEF SecondaryOf
<1>2. ReadSecondary(reader, s) \in Secondary
  BY <1>1 DEF ReadSecondary, FromCStrOptional, FromCStr, AdminSecondary, Some
<1>3. CASE reader = "ffi"
  <2>1. Empty \in Primary
    BY <1>3, CredentialAssumption DEF Reader, Empty
  <2>2. FromCStrOrEmpty(p) \in Primary
    BY <1>3, <2>1 DEF PrimaryOf, FromCStrOrEmpty, FromCStr
  <2> QED
    BY <1>2, <1>3, <2>2 DEF ReadPrimary
<1>4. CASE reader # "ffi"
  BY <1>2, <1>4 DEF PrimaryOf, ReadPrimary
<1> QED
  BY <1>3, <1>4

(* A fresh seal has the type of a mnemonic.                                *)
LEMMA SealType ==
  ASSUME NEW r \in Root, NEW reader \in Reader,
         NEW p \in PrimaryOf(reader), NEW s \in SecondaryOf(reader)
  PROVE  Seal(r, Credential(reader, p, s)) \in Sealed
BY ReadType DEF Seal, Sealed, Credential

(* Only an issued mnemonic opens, and only for the key that sealed it.     *)
LEMMA OpensOnlyIssued ==
  ASSUME NEW m \in Input, NEW bytes, Unseals(m, BaseKey(bytes))
  PROVE  m \in Issued /\ m.key = SealKey(BaseKey(bytes))
<1>1. m \notin Malformed /\ Opens(m, BaseKey(bytes))
  BY DEF Unseals, UnsealError
<1>2. m.key = SealKey(BaseKey(bytes))
  BY <1>1 DEF Opens
<1>3. ASSUME NEW f \in Foreign, m = ForeignSealed(f)
      PROVE  FALSE
  BY <1>2, <1>3 DEF ForeignSealed, SealKey
<1> QED
  BY <1>1, <1>2, <1>3 DEF Input

(* The signature of a wallet's chain verifies under its address.           *)
LEMMA SignatureVerifies ==
  ASSUME NEW r, NEW c \in Chain, NEW msg
  PROVE  Verifies(EntityOf(r)[c][2], msg,
                  SignWith(CurveOf[c], MaterialSeeds(r)[c], msg))
BY DEF Verifies, EntityOf, Entity, Address, SignWith

(* Different material never shows the same addresses.                      *)
LEMMA EntityInjective ==
  ASSUME NEW r1, NEW r2, EntityOf(r1) = EntityOf(r2)
  PROVE  r1 = r2
<1>1. "solana" \in Chain
  BY DEF Chain, CurveOf
<1>2. EntityOf(r1)["solana"] = EntityOf(r2)["solana"]
  OBVIOUS
<1>3. MaterialSeeds(r1)["solana"] = MaterialSeeds(r2)["solana"]
  BY <1>1, <1>2 DEF EntityOf, Entity, Address, PublicKey
<1> QED
  BY <1>1, <1>3 DEF MaterialSeeds
-----------------------------------------------------------------------------
(* The invariant is inductive: one lemma per group of steps *)

(* Nothing is issued or open at the start.                                 *)
LEMMA InitInv == Init => IInv
BY DEF Init, IInv, TypeOK, Issued, AnnouncedMaterial, KeptCredential,
       SessionsShowTheWallet, SameRootOrFail, Idle, Reply

(* Issuing: what generate and a rotation do to the maps of mnemonics.      *)
LEMMA IssuePreserves ==
  ASSUME IInv,
         NEW reader \in Reader,
         NEW p \in PrimaryOf(reader), NEW s \in SecondaryOf(reader),
         NEW r \in Root,
         NEW m, m = Seal(r, Credential(reader, p, s)),
         NEW entity, entity = EntityOf(r),
         Announce(m, entity), Remember(reader, m, p, s),
         UNCHANGED sessions
  PROVE  /\ Issued' = Issued \cup {m}
         /\ Issued' \subseteq Sealed
         /\ announced' \in [Issued' -> Entities]
         /\ kits' \in [Issued' -> Kit]
         /\ DOMAIN sessions' \subseteq SessionId
         /\ sessions' \in [DOMAIN sessions' -> SessionRecord]
         /\ AnnouncedMaterial'
         /\ KeptCredential'
         /\ SessionsShowTheWallet'
<1>1. [reader |-> reader, primary |-> p, secondary |-> s] \in Kit
  BY DEF Kit
<1>2. m \in Sealed
  BY SealType
<1>3. m.material = r /\ m.key = SealKey(BaseKey(Credential(reader, p, s)))
  BY DEF Seal
<1>4. /\ Issued' = Issued \cup {m}
      /\ announced' = [x \in Issued \cup {m} |->
                          IF x \in Issued THEN announced[x] ELSE entity]
  BY DEF Announce, Issued
<1>5. kits' = [x \in Issued \cup {m} |->
                 IF x = m THEN [reader |-> reader, primary |-> p, secondary |-> s]
                 ELSE kits[x]]
  BY DEF Remember
<1>6. Issued' \subseteq Sealed
  BY <1>2, <1>4 DEF IInv, TypeOK
<1>7. announced' \in [Issued' -> Entities]
  BY <1>4 DEF IInv, TypeOK, Entities
<1>8. kits' \in [Issued' -> Kit]
  BY <1>1, <1>4, <1>5 DEF IInv, TypeOK
<1>9. AnnouncedMaterial'
  BY <1>3, <1>4 DEF IInv, AnnouncedMaterial
<1>10. KeptCredential'
  BY <1>3, <1>4, <1>5 DEF IInv, KeptCredential, KitBytes
<1>11. SessionsShowTheWallet'
  BY <1>4 DEF IInv, TypeOK, SessionsShowTheWallet, Unseals, UnsealError, Opens
<1> QED
  BY <1>4, <1>6, <1>7, <1>8, <1>9, <1>10, <1>11 DEF IInv, TypeOK

(* Steps that leave the maps and the sessions alone.                       *)
LEMMA ReadPreserves ==
  ASSUME IInv, UNCHANGED <<announced, kits, sessions>>
  PROVE  /\ Issued' = Issued
         /\ Issued' \subseteq Sealed
         /\ announced' \in [Issued' -> Entities]
         /\ kits' \in [Issued' -> Kit]
         /\ DOMAIN sessions' \subseteq SessionId
         /\ sessions' \in [DOMAIN sessions' -> SessionRecord]
         /\ AnnouncedMaterial'
         /\ KeptCredential'
         /\ SessionsShowTheWallet'
BY DEF IInv, TypeOK, Issued, AnnouncedMaterial, KeptCredential,
       SessionsShowTheWallet, Unseals, UnsealError, Opens

(* Generate issues a wallet with its own entity, or fails.                 *)
LEMMA GeneratePreserves ==
  ASSUME IInv, GenerateStep
  PROVE  IInv'
<1>1. CASE GenerateFails
  <2>1. UNCHANGED <<announced, kits, sessions>> /\ ret'.error # "ok"
    BY <1>1 DEF GenerateFails, Reply
  <2> QED
    BY <2>1, ReadPreserves DEF IInv, TypeOK, SameRootOrFail
<1>2. ASSUME NEW api \in Api, NEW p \in PrimaryOf(api), NEW s \in SecondaryOf(api),
             Generate(api, p, s)
      PROVE  IInv'
  <2>1. api \in Reader
    BY DEF Reader
  <2>2. PICK r \in FreshRoot :
          LET m == Seal(r, Credential(api, p, s))
          IN /\ Announce(m, EntityOf(r))
             /\ Remember(api, m, p, s)
             /\ ret' = Reply("generate", m, "ok", {EntityOf(r)})
    BY <1>2 DEF Generate
  <2>3. r \in Root /\ UNCHANGED sessions
    BY <1>2 DEF FreshRoot, Generate
  <2>4. ret'.op = "generate"
    BY <2>2 DEF Reply
  <2> QED
    BY <2>1, <2>2, <2>3, <2>4, IssuePreserves DEF IInv, TypeOK, SameRootOrFail
<1> QED
  BY <1>1, <1>2 DEF GenerateStep

(* A rotation reseals the material it found, or fails.                     *)
LEMMA RekeyPreserves ==
  ASSUME IInv, NEW m \in Input, NEW oldBytes, NEW reader \in Reader,
         NEW p \in PrimaryOf(reader), NEW s \in SecondaryOf(reader),
         Rekey(m, oldBytes, Credential(reader, p, s), reader, p, s)
  PROVE  IInv'
<1> DEFINE resealed == Reseal(m.material, Credential(reader, p, s))
<1>1. CASE ~Unseals(m, BaseKey(oldBytes))
  <2>1. UNCHANGED <<announced, kits, sessions>> /\ ret'.error # "ok"
    BY <1>1 DEF Rekey, Reply, Unseals
  <2> QED
    BY <2>1, ReadPreserves DEF IInv, TypeOK, SameRootOrFail
<1>2. CASE Unseals(m, BaseKey(oldBytes))
  <2>1. /\ Announce(resealed, announced[m])
        /\ Remember(reader, resealed, p, s)
        /\ ret' = Reply("rekey", m, "ok", {resealed})
        /\ UNCHANGED sessions
    BY <1>2 DEF Rekey
  <2>2. m \in Issued
    BY <1>2, OpensOnlyIssued
  <2>3. m.material \in Root /\ announced[m] = EntityOf(m.material)
    BY <2>2 DEF IInv, TypeOK, Sealed, AnnouncedMaterial
  <2>4. resealed = Seal(m.material, Credential(reader, p, s))
    BY DEF Reseal
  <2>5. m \in Issued' /\ ret'.op = "rekey" /\ ret'.mnemonic = m
    BY <2>1, <2>2 DEF Announce, Issued, Reply
  <2> HIDE DEF resealed
  <2> QED
    BY <2>1, <2>3, <2>4, <2>5, IssuePreserves DEF IInv, TypeOK, SameRootOrFail
<1> QED
  BY <1>1, <1>2

(* What is sealed for an admin factor is what a later call reads.          *)
LEMMA AdminCredential ==
  ASSUME NEW p, NEW admin
  PROVE  Combine(p, AdminSecondary(admin)) = Credential("admin", p, admin)
BY DEF Credential, ReadPrimary, ReadSecondary

(* All three calls that rotate a passphrase are rekeys of typed arguments. *)
LEMMA RekeyStepPreserves ==
  ASSUME IInv, RekeyStep
  PROVE  IInv'
<1>1. ASSUME NEW m \in Input, NEW api \in Api, NEW s \in SecondaryOf(api),
             NEW old \in PrimaryOf(api), NEW new \in PrimaryOf(api),
             ChangePassphrase(api, m, old, new, s)
      PROVE  IInv'
  <2>1. api \in Reader
    BY DEF Reader
  <2> QED
    BY <1>1, <2>1, RekeyPreserves DEF ChangePassphrase
<1>2. ASSUME NEW m \in Input, NEW old \in PrimaryOf("admin"),
             NEW new \in PrimaryOf("admin"), NEW admin \in SecondaryOf("admin"),
             \/ ChangePassphraseWithAdmin(m, old, new, admin)
             \/ AddAdmin(m, old, new, admin)
      PROVE  IInv'
  <2>1. "admin" \in Reader
    BY DEF Reader
  <2> QED
    BY <1>2, <2>1, RekeyPreserves, AdminCredential
    DEF ChangePassphraseWithAdmin, AddAdmin
<1> QED
  BY <1>1, <1>2 DEF RekeyStep

(* What a call that unseals shows is what was announced.                   *)
LEMMA ViewIsHonest ==
  ASSUME IInv, NEW op, NEW m \in Input, NEW bytes,
         NEW reply, reply = ViewReply(op, m, BaseKey(bytes)),
         reply.error = "ok"
  PROVE  /\ reply.op = op /\ reply.mnemonic = m
         /\ m \in Issued
         /\ reply.value = {announced[m]}
<1>1. Unseals(m, BaseKey(bytes))
  BY DEF ViewReply, UnsealReply, Unseals, Reply
<1>2. m \in Issued /\ announced[m] = EntityOf(m.material)
  BY <1>1, OpensOnlyIssued DEF IInv, AnnouncedMaterial
<1> QED
  BY <1>1, <1>2 DEF ViewReply, UnsealReply, Reply

(* What a call that unseals signs verifies under an announced address.     *)
HonestSignature(reply, op, m) ==
  /\ reply.op = op /\ reply.mnemonic = m
  /\ m \in Issued
  /\ \A sig \in reply.value : \E c \in MessageChain :
        Verifies(announced[m][c][2], sig.msg, sig)

LEMMA SigningIsHonest ==
  ASSUME IInv, NEW op, NEW m \in Input, NEW bytes, NEW curve \in Curve, NEW msg,
         ret' = UnsealReply(op, m, BaseKey(bytes), Signature(m.material, curve, msg)),
         ret'.error = "ok"
  PROVE  HonestSignature(ret', op, m)
<1>1. Unseals(m, BaseKey(bytes))
  BY DEF UnsealReply, Unseals, Reply
<1>2. m \in Issued /\ announced[m] = EntityOf(m.material)
  BY <1>1, OpensOnlyIssued DEF IInv, AnnouncedMaterial
<1>3. /\ ret'.op = op /\ ret'.mnemonic = m
      /\ ret'.value = {Signature(m.material, curve, msg)}
  BY <1>1 DEF UnsealReply, Reply
<1>4. SigningChain[curve + 1] \in MessageChain /\ SigningChain[curve + 1] \in Chain
  BY DEF SigningChain, Curve, Chain, CurveOf, MessageChain
<1>5. Signature(m.material, curve, msg).msg = msg
  BY DEF Signature, SignWith
<1>6. Verifies(announced[m][SigningChain[curve + 1]][2], msg,
               Signature(m.material, curve, msg))
  BY <1>2, <1>4, SignatureVerifies DEF Signature
<1> QED
  BY <1>2, <1>3, <1>4, <1>5, <1>6 DEF HonestSignature

(* Views and signatures change nothing an owner keeps.                     *)
LEMMA ReadStepPreserves ==
  ASSUME IInv, ReadStep
  PROVE  IInv'
<1>1. ASSUME NEW m \in Input, NEW bytes,
             ret' = ViewReply("view", m, BaseKey(bytes)),
             UNCHANGED <<announced, kits, sessions>>
      PROVE  IInv'
  <2>1. ret'.error = "ok" => /\ ret'.op = "view" /\ ret'.mnemonic = m
                             /\ m \in Issued
                             /\ ret'.value = {announced[m]}
    BY <1>1, ViewIsHonest
  <2> QED
    BY <1>1, <2>1, ReadPreserves DEF IInv, TypeOK, SameRootOrFail
<1>2. ASSUME NEW m \in Input, NEW bytes, NEW curve \in Curve, NEW msg \in Message,
             NEW op \in {"sign", "x25519_sign"},
             ret' = UnsealReply(op, m, BaseKey(bytes),
                                Signature(m.material, curve, msg)),
             UNCHANGED <<announced, kits, sessions>>
      PROVE  IInv'
  <2>1. ret'.error = "ok" => HonestSignature(ret', op, m)
    BY <1>2, SigningIsHonest
  <2> QED
    BY <1>2, <2>1, ReadPreserves DEF IInv, TypeOK, SameRootOrFail, HonestSignature
<1>3. ASSUME ret'.error # "ok", UNCHANGED <<announced, kits, sessions>>
      PROVE  IInv'
  BY <1>3, ReadPreserves DEF IInv, TypeOK, SameRootOrFail
<1>4. ASSUME NEW m \in Input, NEW api \in Api, NEW p, NEW s,
             View(api, m, p, s)
      PROVE  IInv'
  BY <1>1, <1>4 DEF View
<1>5. ASSUME NEW m \in Input, NEW api \in Api, NEW p, NEW s,
             NEW curve \in Curve \cup {UnsupportedCurve}, NEW msg \in Message,
             Sign(api, m, p, s, curve, msg)
      PROVE  IInv'
  <2> DEFINE bytes == Credential(api, p, s)
  <2>1. CASE curve \in Curve
    <3>1. /\ ret' = UnsealReply("sign", m, BaseKey(bytes),
                                Signature(m.material, curve, msg))
          /\ UNCHANGED <<announced, kits, sessions>>
      BY <1>5, <2>1 DEF Sign
    <3> QED
      BY <1>2, <2>1, <3>1
  <2>2. CASE curve \notin Curve
    <3>1. /\ ret'.error # "ok"
          /\ UNCHANGED <<announced, kits, sessions>>
      BY <1>5, <2>2 DEF Sign, UnsealReply, Reply, Unseals
    <3> QED
      BY <1>3, <3>1
  <2> QED
    BY <2>1, <2>2
<1>6. ASSUME NEW m \in Input, NEW p \in Primary, ViewWithPrf(m, p)
      PROVE  IInv'
  BY <1>1, <1>6 DEF ViewWithPrf
<1>7. ASSUME NEW m \in Input, NEW api \in Api, NEW p, NEW msg \in Message,
             X25519Sign(api, m, p, msg)
      PROVE  IInv'
  <2>1. 0 \in Curve
    BY DEF Curve
  <2>2. /\ ret' = UnsealReply("x25519_sign", m, BaseKey(Credential(api, p, None)),
                              Signature(m.material, 0, msg))
        /\ UNCHANGED <<announced, kits, sessions>>
    BY <1>7 DEF X25519Sign
  <2> QED
    BY <1>2, <2>1, <2>2
<1> QED
  BY <1>4, <1>5, <1>6, <1>7 DEF ReadStep

(* Sessions are opened for issued mnemonics only and used as opened.       *)
LEMMA SessionStepPreserves ==
  ASSUME IInv, SessionStep
  PROVE  IInv'
<1>1. ASSUME NEW sid \in SessionId, NEW m \in Input,
             NEW p \in PrimaryOf("direct"), NEW s \in SecondaryOf("direct"),
             OpenSession(sid, m, p, s)
      PROVE  IInv'
  <2> DEFINE base == BaseKey(Combine(p, s))
  <2>1. CASE ~Unseals(m, base)
    <3>1. UNCHANGED <<announced, kits, sessions>> /\ ret'.error # "ok"
      BY <1>1, <2>1 DEF OpenSession, Reply, Unseals
    <3> QED
      BY <3>1, ReadPreserves DEF IInv, TypeOK, SameRootOrFail
  <2>2. CASE Unseals(m, base)
    <3> DEFINE seed == MaterialSeeds(m.material)["solana"]
               session == [mnemonic    |-> m,
                           base_key    |-> base,
                           auth_seed   |-> seed,
                           auth_pubkey |-> PublicKey("ed25519", seed),
                           wallet      |-> EntityOf(m.material)]
    <3>1. /\ sessions' = [x \in DOMAIN sessions \cup {sid} |->
                             IF x = sid THEN session ELSE sessions[x]]
          /\ ret' = ViewReply("open", m, base)
          /\ UNCHANGED <<announced, kits>>
      BY <1>1, <2>2 DEF OpenSession, SessionOf, SessionWith
    <3>2. m \in Issued /\ m.key = SealKey(base)
      BY <2>2, OpensOnlyIssued
    <3>3. m \in Sealed /\ m.material \in Root /\ announced[m] = EntityOf(m.material)
      BY <3>2 DEF IInv, TypeOK, Sealed, AnnouncedMaterial
    <3>4. session \in SessionRecord
      BY <3>3 DEF SessionRecord, Entities, PrimaryOf, SecondaryOf
    <3>5. session.wallet["solana"] = <<"solana", session.auth_pubkey>>
      BY DEF EntityOf, Entity, Address, Chain, CurveOf
    <3>6. ret'.op = "open" /\ ret'.mnemonic = m /\ ret'.value = {announced[m]}
      BY <2>2, <3>1, <3>3 DEF ViewReply, UnsealReply, Reply
    <3>7. TypeOK'
      BY <3>1, <3>2, <3>4, <3>6 DEF IInv, TypeOK, Issued
    <3>8. SessionsShowTheWallet'
      <4> HIDE DEF base, seed
      <4>1. Unseals(m, base)'
        BY <2>2 DEF Unseals, UnsealError, Opens
      <4> QED
        BY <2>2, <3>1, <3>2, <3>3, <3>5
        DEF IInv, SessionsShowTheWallet, Issued, Unseals, UnsealError, Opens
    <3> QED
      BY <3>1, <3>2, <3>6, <3>7, <3>8
      DEF IInv, AnnouncedMaterial, KeptCredential, SameRootOrFail, Issued
  <2> QED
    BY <2>1, <2>2
<1>2. ASSUME NEW sid \in DOMAIN sessions, NEW msg \in Message, SessionSign(sid, msg)
      PROVE  IInv'
  <2> DEFINE session == sessions[sid]
             m == session.mnemonic
             sig == SignWith("ed25519", session.auth_seed, msg)
  <2>1. /\ ret' = Reply("session_sign", m, "ok", {sig})
        /\ UNCHANGED <<announced, kits, sessions>>
    BY <1>2 DEF SessionSign
  <2>2. /\ m \in Issued
        /\ announced[m]["solana"][2] = PublicKey("ed25519", session.auth_seed)
    BY DEF IInv, SessionsShowTheWallet
  <2>3. "solana" \in MessageChain /\ Verifies(announced[m]["solana"][2], sig.msg, sig)
    BY <2>2 DEF Verifies, SignWith, MessageChain
  <2> HIDE DEF sig, session
  <2> QED
    BY <2>1, <2>2, <2>3, ReadPreserves
    DEF IInv, TypeOK, SameRootOrFail, Reply
<1>3. ASSUME NEW sid \in DOMAIN sessions, SessionUnseal(sid)
      PROVE  IInv'
  <2>1. /\ sessions[sid].mnemonic \in Issued
        /\ Unseals(sessions[sid].mnemonic, sessions[sid].base_key)
    BY DEF IInv, SessionsShowTheWallet
  <2>2. /\ ret'.op = "view" /\ ret'.mnemonic = sessions[sid].mnemonic
        /\ ret'.value = {announced[sessions[sid].mnemonic]}
        /\ UNCHANGED <<announced, kits, sessions>>
    BY <1>3, <2>1
    DEF SessionUnseal, ViewReply, UnsealReply, Reply, IInv, AnnouncedMaterial
  <2> QED
    BY <2>1, <2>2, ReadPreserves DEF IInv, TypeOK, SameRootOrFail
<1>4. ASSUME NEW sid \in DOMAIN sessions, CloseSession(sid)
      PROVE  IInv'
  <2>1. /\ sessions' = [x \in DOMAIN sessions \ {sid} |-> sessions[x]]
        /\ ret'.op = "none"
        /\ UNCHANGED <<announced, kits>>
    BY <1>4 DEF CloseSession, Idle, Reply
  <2> QED
    BY <2>1 DEF IInv, TypeOK, Issued, AnnouncedMaterial, KeptCredential,
                SessionsShowTheWallet, SameRootOrFail, Unseals, UnsealError, Opens
<1> QED
  BY <1>1, <1>2, <1>3, <1>4 DEF SessionStep

-----------------------------------------------------------------------------
(* The invariant holds in every state of every behaviour.                  *)
THEOREM Invariance == Spec => []IInv
<1>1. IInv /\ [Next]_vars => IInv'
  <2> SUFFICES ASSUME IInv, [Next]_vars
               PROVE  IInv'
    OBVIOUS
  <2>1. CASE Next
    BY <2>1, GeneratePreserves, RekeyStepPreserves, ReadStepPreserves,
       SessionStepPreserves DEF Next
  <2>2. CASE UNCHANGED vars
    BY <2>2 DEF vars, IInv, TypeOK, Issued, AnnouncedMaterial, KeptCredential,
                SessionsShowTheWallet, SameRootOrFail, Unseals, UnsealError, Opens
  <2> QED
    BY <2>1, <2>2
<1> QED
  BY InitInv, <1>1, PTL DEF Spec

(* Every variable keeps its shape.                                         *)
THEOREM TypeCorrect == Spec => []TypeOK
<1>1. IInv => TypeOK
  BY DEF IInv
<1> QED
  BY Invariance, <1>1, PTL

(* Same root or fail, for any number of wallets and rotations.             *)
THEOREM SameRoot == Spec => []SameRootOrFail
<1>1. IInv => SameRootOrFail
  BY DEF IInv
<1> QED
  BY Invariance, <1>1, PTL

(* What a session cached stays usable and true.                            *)
THEOREM SessionsTrue == Spec => []SessionsShowTheWallet
<1>1. IInv => SessionsShowTheWallet
  BY DEF IInv
<1> QED
  BY Invariance, <1>1, PTL

(* What an owner wrote down recovers the wallet for ever.                  *)
THEOREM Recovery == Spec => []NoLockout
<1>1. IInv => NoLockout
  <2> SUFFICES ASSUME IInv, NEW m \in Issued
               PROVE  ViewReply("view", m, BaseKey(KitBytes(kits[m]))) =
                        Reply("view", m, "ok", {announced[m]})
    BY DEF NoLockout
  <2>1. m \notin Malformed
    BY MalformedAssumption DEF IInv, TypeOK
  <2>2. Unseals(m, BaseKey(KitBytes(kits[m])))
    BY <2>1 DEF IInv, KeptCredential, Unseals, UnsealError, Opens
  <2> QED
    BY <2>2 DEF IInv, AnnouncedMaterial, ViewReply, UnsealReply
<1> QED
  BY Invariance, <1>1, PTL

(* Identities coincide only where the sealed material does.                *)
THEOREM Separation == Spec => []WalletsStayApart
<1>1. IInv => WalletsStayApart
  BY EntityInjective DEF IInv, AnnouncedMaterial, WalletsStayApart
<1> QED
  BY Invariance, <1>1, PTL

(* Rotating back gives the same mnemonic back.                             *)
THEOREM OneMnemonic == Spec => []OneMnemonicPerCredential
<1>1. IInv => OneMnemonicPerCredential
  <2> SUFFICES ASSUME IInv, NEW m1 \in Issued, NEW m2 \in Issued,
                      announced[m1] = announced[m2],
                      KitBytes(kits[m1]) = KitBytes(kits[m2])
               PROVE  m1 = m2
    BY DEF OneMnemonicPerCredential
  <2>1. m1 \in Sealed /\ m2 \in Sealed
    BY DEF IInv, TypeOK
  <2>2. m1.material = m2.material
    BY EntityInjective DEF IInv, AnnouncedMaterial
  <2>3. m1.key = m2.key
    BY DEF IInv, KeptCredential
  <2> QED
    BY <2>1, <2>2, <2>3 DEF Sealed
<1> QED
  BY Invariance, <1>1, PTL

-----------------------------------------------------------------------------
(* A positive length of at most one is one.                                *)
LEMMA OneIsBetween ==
  ASSUME NEW n \in Nat, n > 0, n <= 1
  PROVE  n = 1
OBVIOUS

(* The first element of a concatenation is that of its first operand.      *)
LEMMA HeadOfConcat ==
  ASSUME NEW a \in Seq(STRING), NEW b \in Seq(STRING), Len(a) = 1
  PROVE  (a \o b)[1] = a[1]
<1>1. Len(b) \in Nat
  BY LenProperties, Zenon
<1>2. \A n \in Nat : 1 \in 1 .. 1 + n /\ 1 <= 1
  OBVIOUS
<1>3. 1 \in 1 .. Len(a) + Len(b) /\ 1 <= Len(a)
  BY <1>1, <1>2, Zenon
<1>4. (a \o b)[1] = IF 1 <= Len(a) THEN a[1] ELSE b[1 - Len(a)]
  BY <1>3, ConcatProperties, Zenon
<1> QED
  BY <1>3, <1>4, Zenon

(* Without a NUL inside, the combined bytes split in one way only.         *)
LEMMA CombineInjective ==
  ASSUME NEW p \in Seq(STRING), NEW s \in Seq(STRING),
         NEW q \in Seq(STRING), NEW t \in Seq(STRING),
         Len(p) = 1, Len(q) = 1, Combine(p, s) = Combine(q, t)
  PROVE  p = q /\ s = t
<1>1. p \o s = q \o t
  BY DEF Combine
<1>2. /\ (p \o s)[1] = p[1] /\ (q \o t)[1] = q[1]
  BY HeadOfConcat, Zenon
<1>3. p = q
  <2>1. p[1] = q[1]
    BY <1>1, <1>2
  <2>2. \A i \in 1 .. Len(p) : p[i] = q[i]
    BY <2>1
  <2> QED
    BY <2>2, SeqEqual
<1>4. p \o s = p \o t
  BY <1>1, <1>3
<1>5. s = t
  BY <1>4, ConcatSimplifications
<1> QED
  BY <1>3, <1>5

(* Without a NUL in what was passed there is none in the passphrase that   *)
(* is read, and it is a string.                                            *)
LEMMA ReadPrimaryIsOne ==
  ASSUME NEW reader \in Reader, NEW p \in PrimaryOf(reader), NulFree(p),
         NEW s \in SecondaryOf(reader)
  PROVE  /\ ReadPrimary(reader, p) \in Seq(STRING)
         /\ ReadSecondary(reader, s) \in Seq(STRING)
         /\ Len(ReadPrimary(reader, p)) = 1
<1> DEFINE q == ReadPrimary(reader, p)
<1>1. q \in Primary /\ ReadSecondary(reader, s) \in Secondary
  BY ReadType
<1>2. q \in Seq(STRING) /\ Len(q) > 0 /\ ReadSecondary(reader, s) \in Seq(STRING)
  BY <1>1, CredentialAssumption
<1>3. q = p \/ q = Empty
  BY DEF ReadPrimary, FromCStrOrEmpty, FromCStr
<1> HIDE DEF q
<1>4. CASE q = p
  <2>1. Len(q) \in Nat
    BY <1>2, LenProperties, Zenon
  <2> QED
    BY <1>2, <1>4, <2>1, OneIsBetween, Zenon DEF NulFree, q
<1>5. CASE q = Empty
  <2>1. Len(q) = 1
    BY <1>5 DEF Empty
  <2> QED
    BY <1>2, <2>1 DEF q
<1> QED
  BY <1>3, <1>4, <1>5

(* What reads alike was passed alike, or passes for nothing.               *)
LEMMA ReadAlike ==
  ASSUME NEW r1 \in Reader, NEW p1 \in PrimaryOf(r1), NEW s1 \in SecondaryOf(r1),
         NEW r2 \in Reader, NEW p2 \in PrimaryOf(r2), NEW s2 \in SecondaryOf(r2)
  PROVE  /\ ReadPrimary(r1, p1) = ReadPrimary(r2, p2) =>
              p1 = p2 \/ (PassesForEmpty(r1, p1) /\ PassesForEmpty(r2, p2))
         /\ ReadSecondary(r1, s1) = ReadSecondary(r2, s2) =>
              s1 = s2 \/ (PassesForNone(r1, s1) /\ PassesForNone(r2, s2))
<1>1. ASSUME NEW r \in Reader, NEW p
      PROVE  \/ PassesForEmpty(r, p) /\ ReadPrimary(r, p) = Empty
             \/ ~PassesForEmpty(r, p) /\ ReadPrimary(r, p) = p
  BY DEF PassesForEmpty, ReadPrimary, FromCStrOrEmpty, FromCStr
<1>2. ASSUME NEW r \in Reader, NEW s
      PROVE  \/ PassesForNone(r, s) /\ ReadSecondary(r, s) = None
             \/ ~PassesForNone(r, s) /\ ReadSecondary(r, s) = s
  BY DEF PassesForNone, ReadSecondary, FromCStrOptional, FromCStr, AdminSecondary, Some
<1>3. \A r : PassesForEmpty(r, Empty) /\ PassesForNone(r, None)
  BY DEF PassesForEmpty, PassesForNone
<1> QED
  BY <1>1, <1>2, <1>3

(* A mnemonic opens for the credential written down and for no other, but  *)
(* for what C callers pass that is not a string.                           *)
THEOREM OnlyCredential == Spec => []OnlyItsCredential
<1>1. IInv => OnlyItsCredential
  <2> SUFFICES ASSUME IInv, NEW m \in Issued, NEW reader \in Reader,
                      NEW p \in PrimaryOf(reader), NEW s \in SecondaryOf(reader),
                      NulFree(p), NulFree(kits[m].primary),
                      Unseals(m, BaseKey(Credential(reader, p, s)))
               PROVE  /\ \/ p = kits[m].primary
                         \/ /\ PassesForEmpty(reader, p)
                            /\ PassesForEmpty(kits[m].reader, kits[m].primary)
                      /\ \/ s = kits[m].secondary
                         \/ /\ PassesForNone(reader, s)
                            /\ PassesForNone(kits[m].reader, kits[m].secondary)
    BY DEF OnlyItsCredential
  <2>1. PICK r \in Reader :
          kits[m] \in [reader : {r}, primary : PrimaryOf(r), secondary : SecondaryOf(r)]
    BY DEF IInv, TypeOK, Kit
  <2> DEFINE q == kits[m].primary
             t == kits[m].secondary
  <2>2. kits[m].reader = r /\ q \in PrimaryOf(r) /\ t \in SecondaryOf(r)
    BY <2>1
  <2>3. /\ m.key = SealKey(BaseKey(Credential(reader, p, s)))
        /\ m.key = SealKey(BaseKey(Credential(r, q, t)))
    BY <2>2 DEF IInv, KeptCredential, KitBytes, Unseals, UnsealError, Opens
  <2>4. Credential(reader, p, s) = Credential(r, q, t)
    BY <2>3 DEF SealKey, BaseKey
  <2> HIDE DEF q, t
  <2>5. NulFree(q)
    BY DEF q
  <2>6. /\ ReadPrimary(reader, p) \in Seq(STRING) /\ ReadSecondary(reader, s) \in Seq(STRING)
        /\ ReadPrimary(r, q) \in Seq(STRING) /\ ReadSecondary(r, t) \in Seq(STRING)
        /\ Len(ReadPrimary(reader, p)) = 1 /\ Len(ReadPrimary(r, q)) = 1
    BY <2>2, <2>5, ReadPrimaryIsOne
  <2>7. /\ ReadPrimary(reader, p) = ReadPrimary(r, q)
        /\ ReadSecondary(reader, s) = ReadSecondary(r, t)
    BY <2>4, <2>6, CombineInjective DEF Credential
  <2> QED
    BY <2>2, <2>7, ReadAlike DEF q, t
<1> QED
  BY Invariance, <1>1, PTL

-----------------------------------------------------------------------------
(* Refinement: every step of the wallet core is a step of Identity *)

owner == [m \in Issued |-> OwnerOf(m)]

opened == [sid \in DOMAIN sessions |-> sessions[sid].wallet]

shown == IF ret.op \in {"generate", "view", "open"}
         THEN {<<ret.mnemonic, e>> : e \in ret.value} ELSE {}

(* A reply with nothing to show, when nothing else changed, is Fail.       *)
LEMMA FailIsAllowed ==
  ASSUME UNCHANGED <<announced, sessions>>,
         ret'.op \notin {"generate", "view", "open"} \/ ret'.value = {}
  PROVE  Id!Next
<1>1. shown' = {}
  BY DEF shown
<1>2. owner' = owner /\ opened' = opened
  BY DEF owner, opened, Issued, OwnerOf
<1> QED
  BY <1>1, <1>2 DEF Id!Next, Id!Fail, owner, opened, shown

(* Generate creates an identity nobody has, or fails.                      *)
LEMMA GenerateIsAllowed ==
  ASSUME IInv, IInv', GenerateStep
  PROVE  Id!Next
<1>1. CASE GenerateFails
  BY <1>1, FailIsAllowed DEF GenerateFails, Reply
<1>2. ASSUME NEW api \in Api, NEW p \in PrimaryOf(api), NEW s \in SecondaryOf(api),
             Generate(api, p, s)
      PROVE  Id!Next
  <2>1. PICK r \in FreshRoot :
          LET m == Seal(r, Credential(api, p, s))
          IN /\ Announce(m, EntityOf(r))
             /\ ret' = Reply("generate", m, "ok", {EntityOf(r)})
             /\ UNCHANGED sessions
    BY <1>2 DEF Generate
  <2> DEFINE m == Seal(r, Credential(api, p, s))
             e == EntityOf(r)
  <2>2. m.material = r /\ m \notin Issued
    BY DEF FreshRoot, Seal
  <2>3. e \notin {owner[x] : x \in Issued}
    BY EntityInjective DEF owner, OwnerOf, FreshRoot
  <2>4. Issued' = Issued \cup {m}
    BY <2>1 DEF Announce, Issued
  <2>5. m \in Sealed /\ e \in Entities
    BY <2>4 DEF IInv, TypeOK, FreshRoot, Entities
  <2>6. owner' = [x \in Issued \cup {m} |-> IF x = m THEN e ELSE owner[x]]
    BY <2>2, <2>4 DEF owner, OwnerOf
  <2>7. shown' = {<<m, e>>} /\ opened' = opened
    BY <2>1 DEF shown, opened, Reply
  <2>8. DOMAIN owner = Issued /\ DOMAIN owner' = Issued'
    BY DEF owner
  <2> HIDE DEF m, e
  <2>9. Id!Create(m, e)
    BY <2>2, <2>3, <2>6, <2>7, <2>8
    DEF Id!Create, Id!Known, Id!Issued, owner, opened, shown
  <2> QED
    BY <2>5, <2>9 DEF Id!Next
<1> QED
  BY <1>1, <1>2 DEF GenerateStep

(* A rotation is another name for the identity of the old mnemonic.        *)
LEMMA RekeyIsAllowed ==
  ASSUME IInv, IInv', NEW m \in Input, NEW oldBytes, NEW newBytes,
         NEW reader, NEW p, NEW s,
         Rekey(m, oldBytes, newBytes, reader, p, s)
  PROVE  Id!Next
<1> DEFINE base == BaseKey(oldBytes)
           resealed == Reseal(m.material, newBytes)
<1>1. CASE ~Unseals(m, base)
  BY <1>1, FailIsAllowed DEF Rekey, Reply
<1>2. CASE Unseals(m, base)
  <2>1. /\ Announce(resealed, announced[m])
        /\ ret' = Reply("rekey", m, "ok", {resealed})
        /\ UNCHANGED sessions
    BY <1>2 DEF Rekey
  <2>2. m \in Issued
    BY <1>2, OpensOnlyIssued
  <2>3. resealed.material = m.material
    BY DEF Reseal, Seal
  <2>4. Issued' = Issued \cup {resealed}
    BY <2>1 DEF Announce, Issued
  <2>5. m \in Sealed /\ resealed \in Sealed
    BY <2>2, <2>4 DEF IInv, TypeOK
  <2> HIDE DEF resealed
  <2>6. owner' = [x \in Issued \cup {resealed} |->
                    IF x = resealed THEN owner[m] ELSE owner[x]]
    BY <2>2, <2>3, <2>4 DEF owner, OwnerOf
  <2>7. shown' = {} /\ opened' = opened
    BY <2>1 DEF shown, opened, Reply
  <2>8. resealed \in Issued => owner[resealed] = owner[m]
    BY <2>2, <2>3 DEF owner, OwnerOf
  <2>9. Id!Reissue(m, resealed)
    BY <2>2, <2>6, <2>7, <2>8 DEF Id!Reissue, Id!Issued, owner, opened, shown
  <2> QED
    BY <2>5, <2>9 DEF Id!Next
<1> QED
  BY <1>1, <1>2

(* A view shows the identity of its mnemonic, or fails.                    *)
LEMMA ViewIsAllowed ==
  ASSUME IInv, NEW m \in Input, NEW bytes,
         ret' = ViewReply("view", m, BaseKey(bytes)),
         UNCHANGED <<announced, sessions>>
  PROVE  Id!Next
<1>1. CASE ~Unseals(m, BaseKey(bytes))
  BY <1>1, FailIsAllowed DEF ViewReply, UnsealReply, Reply
<1>2. CASE Unseals(m, BaseKey(bytes))
  <2>1. m \in Issued /\ m \in Sealed
    BY <1>2, OpensOnlyIssued DEF IInv, TypeOK
  <2>2. shown' = {<<m, owner[m]>>}
    BY <1>2, <2>1 DEF ViewReply, UnsealReply, Reply, shown, owner, OwnerOf
  <2>3. owner' = owner /\ opened' = opened
    BY DEF owner, opened, Issued, OwnerOf
  <2>4. Id!Show(m)
    BY <2>1, <2>2, <2>3 DEF Id!Show, Id!Issued, owner, opened, shown
  <2> QED
    BY <2>1, <2>4 DEF Id!Next
<1> QED
  BY <1>1, <1>2

(* Views and signatures are Show or Fail.                                  *)
LEMMA ReadIsAllowed ==
  ASSUME IInv, ReadStep
  PROVE  Id!Next
<1>1. ASSUME NEW m \in Input, NEW api, NEW p, NEW s, View(api, m, p, s)
      PROVE  Id!Next
  BY <1>1, ViewIsAllowed DEF View
<1>2. ASSUME NEW m \in Input, NEW p, ViewWithPrf(m, p)
      PROVE  Id!Next
  BY <1>2, ViewIsAllowed DEF ViewWithPrf
<1>3. ASSUME NEW m \in Input, NEW api, NEW p, NEW s, NEW curve, NEW msg,
             Sign(api, m, p, s, curve, msg)
      PROVE  Id!Next
  <2>1. ret'.op = "sign" /\ UNCHANGED <<announced, sessions>>
    BY <1>3 DEF Sign, UnsealReply, Reply
  <2> QED
    BY <2>1, FailIsAllowed
<1>4. ASSUME NEW m \in Input, NEW api, NEW p, NEW msg, X25519Sign(api, m, p, msg)
      PROVE  Id!Next
  <2>1. ret'.op = "x25519_sign" /\ UNCHANGED <<announced, sessions>>
    BY <1>4 DEF X25519Sign, UnsealReply, Reply
  <2> QED
    BY <2>1, FailIsAllowed
<1> QED
  BY <1>1, <1>2, <1>3, <1>4 DEF ReadStep

(* A session is opened, used and closed as Identity allows.                *)
LEMMA SessionIsAllowed ==
  ASSUME IInv, IInv', SessionStep
  PROVE  Id!Next
<1>1. ASSUME NEW sid \in SessionId \ DOMAIN sessions, NEW m \in Input,
             NEW p, NEW s, OpenSession(sid, m, p, s)
      PROVE  Id!Next
  <2> DEFINE base == BaseKey(Combine(p, s))
  <2>1. CASE ~Unseals(m, base)
    BY <1>1, <2>1, FailIsAllowed DEF OpenSession, Reply
  <2>2. CASE Unseals(m, base)
    <3>1. m \in Issued /\ m \in Sealed
      BY <2>2, OpensOnlyIssued DEF IInv, TypeOK
    <3>2. /\ DOMAIN sessions' = DOMAIN sessions \cup {sid}
          /\ \A x \in DOMAIN sessions : sessions'[x] = sessions[x]
          /\ sessions'[sid].wallet = owner[m]
          /\ ret' = ViewReply("open", m, base)
          /\ UNCHANGED announced
      BY <1>1, <2>2, <3>1 DEF OpenSession, SessionOf, SessionWith, owner, OwnerOf
    <3>3. shown' = {<<m, owner[m]>>}
      BY <2>2, <3>1, <3>2 DEF ViewReply, UnsealReply, Reply, shown, owner, OwnerOf
    <3>4. opened' = [x \in DOMAIN sessions \cup {sid} |->
                       IF x = sid THEN owner[m] ELSE opened[x]]
      BY <3>2 DEF opened
    <3>5. owner' = owner
      BY <3>2 DEF owner, Issued, OwnerOf
    <3>6. Id!Open(sid, m)
      BY <3>1, <3>3, <3>4, <3>5 DEF Id!Open, Id!Issued, owner, opened, shown
    <3> QED
      BY <3>1, <3>6 DEF Id!Next
  <2> QED
    BY <2>1, <2>2
<1>2. ASSUME NEW sid \in DOMAIN sessions, NEW msg, SessionSign(sid, msg)
      PROVE  Id!Next
  <2>1. ret'.op = "session_sign" /\ UNCHANGED <<announced, sessions>>
    BY <1>2 DEF SessionSign, Reply
  <2> QED
    BY <2>1, FailIsAllowed
<1>3. ASSUME NEW sid \in DOMAIN sessions, SessionUnseal(sid)
      PROVE  Id!Next
  <2>1. /\ sessions[sid].mnemonic \in Input
        /\ sessions[sid] \in SessionRecord
    BY DEF IInv, TypeOK, SessionsShowTheWallet, Input
  <2>2. PICK p \in Primary, s \in Secondary :
          sessions[sid].base_key = BaseKey(Combine(p, s))
    BY <2>1 DEF SessionRecord
  <2> QED
    BY <1>3, <2>1, <2>2, ViewIsAllowed DEF SessionUnseal
<1>4. ASSUME NEW sid \in DOMAIN sessions, CloseSession(sid)
      PROVE  Id!Next
  <2>1. /\ sessions' = [x \in DOMAIN sessions \ {sid} |-> sessions[x]]
        /\ ret'.op = "none"
        /\ UNCHANGED announced
    BY <1>4 DEF CloseSession, Idle, Reply
  <2>2. shown' = {} /\ owner' = owner
    BY <2>1 DEF shown, owner, Issued, OwnerOf
  <2>3. opened' = [x \in DOMAIN opened \ {sid} |-> opened[x]]
    BY <2>1 DEF opened
  <2>4. sid \in SessionId /\ DOMAIN opened = DOMAIN sessions
    BY DEF IInv, TypeOK, opened
  <2>5. Id!Close(sid)
    BY <2>2, <2>3, <2>4 DEF Id!Close, owner, opened, shown
  <2> QED
    BY <2>4, <2>5 DEF Id!Next
<1> QED
  BY <1>1, <1>2, <1>3, <1>4 DEF SessionStep

(* The wallet core implements Identity: mnemonics name one identity for    *)
(* ever, and calls and sessions show that identity.                        *)
THEOREM Refinement == Spec => ImplementsIdentity
<1>1. Init => Id!Init
  BY DEF Init, Id!Init, Issued, Idle, Reply
<1>2. IInv /\ IInv' /\ [Next]_vars => [Id!Next]_Id!vars
  <2> SUFFICES ASSUME IInv, IInv', [Next]_vars
               PROVE  Id!Next \/ UNCHANGED Id!vars
    OBVIOUS
  <2>1. CASE GenerateStep
    BY <2>1, GenerateIsAllowed
  <2>2. CASE RekeyStep
    <3>1. ASSUME NEW m \in Input, NEW api \in Api, NEW s, NEW old, NEW new,
                 ChangePassphrase(api, m, old, new, s)
          PROVE  Id!Next
      BY <3>1, RekeyIsAllowed DEF ChangePassphrase
    <3>2. ASSUME NEW m \in Input, NEW old, NEW new, NEW admin,
                 \/ ChangePassphraseWithAdmin(m, old, new, admin)
                 \/ AddAdmin(m, old, new, admin)
          PROVE  Id!Next
      BY <3>2, RekeyIsAllowed
      DEF ChangePassphraseWithAdmin, AddAdmin
    <3> QED
      BY <2>2, <3>1, <3>2 DEF RekeyStep
  <2>3. CASE ReadStep
    BY <2>3, ReadIsAllowed
  <2>4. CASE SessionStep
    BY <2>4, SessionIsAllowed
  <2>5. CASE UNCHANGED vars
    BY <2>5 DEF vars, Id!vars, Issued, OwnerOf
  <2> QED
    BY <2>1, <2>2, <2>3, <2>4, <2>5 DEF Next
<1> QED
  BY <1>1, <1>2, Invariance, PTL DEF Spec, ImplementsIdentity, Id!Spec

-----------------------------------------------------------------------------
(* Vaults *)

(* A call that was answered, and the state it may rely on.                 *)
Answered(a) ==
    /\ a.path \in Path
    /\ a.ctx = "" => a.mnemonic \in Issued

(* What a view shows is a function of what was asked.                      *)
EntityAsked(a) == VaultEntity(a.path, a.mnemonic, a.bytes, a.ctx)

SeedAsked(a, c) == VaultKeySeed(a.path, a.mnemonic, a.bytes, a.ctx, c)

PublishedOK == \A d \in published : Answered(d.asked) /\ d.entity = EntityAsked(d.asked)

ViewOK ==
    Did("vault_view") =>
      Answered(ret.mnemonic) /\ ret.value = {EntityAsked(ret.mnemonic)}

SignOK ==
    Did("vault_sign") =>
      /\ Answered(ret.mnemonic)
      /\ \A v \in ret.value :
           /\ v.chain \in Chain
           /\ v.sig = SignWith(CurveOf[v.chain], SeedAsked(ret.mnemonic, v.chain), v.sig.msg)

VaultInv == AnnouncedMaterial /\ PublishedOK /\ ViewOK /\ SignOK

-----------------------------------------------------------------------------
(* Keys *)

(* The seed behind an address that a vault shows.                          *)
ShownSeed(a, c) ==
    IF a.ctx = "" THEN <<"hkdf-material", a.mnemonic.material, c>>
    ELSE RevSeed(IdentityRoot(MasterKey(a.path, a.mnemonic, a.bytes)), c, a.ctx)

LEMMA ShownAddress ==
  ASSUME NEW a, NEW c \in Chain
  PROVE  EntityAsked(a)[c] = <<c, PublicKey(CurveOf[c], ShownSeed(a, c))>>
<1>1. CASE a.ctx = ""
  BY <1>1 DEF EntityAsked, VaultEntity, EntityOf, Entity, MaterialSeeds, Address, ShownSeed
<1>2. CASE a.ctx # ""
  BY <1>2 DEF EntityAsked, VaultEntity, ViewedSeeds, RevSeeds, Entity, Address, ShownSeed
<1> QED
  BY <1>1, <1>2

(* A signer uses the key behind the address, or a Tron key of its own that *)
(* comes from the same vault.                                              *)
LEMMA SigningKey ==
  ASSUME NEW a, NEW c \in Chain
  PROVE  /\ ~TronException(a, c) => SeedAsked(a, c) = ShownSeed(a, c)
         /\ TronException(a, c) => SeedAsked(a, c) = RevSeed(Kmaster(a.bytes, a.mnemonic), c, a.ctx)
<1>1. CASE a.ctx = ""
  BY <1>1 DEF SeedAsked, VaultKeySeed, MaterialSeeds, ShownSeed, TronException
<1>2. CASE a.ctx # ""
  <2>1. SeedAsked(a, c) =
          RevSeed(SigningIkm(a.path, c, MasterKey(a.path, a.mnemonic, a.bytes)), c, a.ctx)
    BY <1>2 DEF SeedAsked, VaultKeySeed, SigningSeed
  <2>2. CASE TronException(a, c)
    BY <2>1, <2>2 DEF TronException, SigningIkm, MasterKey
  <2>3. CASE ~TronException(a, c)
    <3>1. SigningIkm(a.path, c, MasterKey(a.path, a.mnemonic, a.bytes))
            = IdentityRoot(MasterKey(a.path, a.mnemonic, a.bytes))
      BY <1>2, <2>3 DEF TronException, SigningIkm
    <3> QED
      BY <1>2, <2>1, <2>3, <3>1 DEF ShownSeed
  <2> QED
    BY <2>2, <2>3
<1> QED
  BY <1>1, <1>2

(* Calls for one vault show the same entity.                               *)
LEMMA VaultShowsOneEntity ==
  ASSUME AnnouncedMaterial, NEW a, NEW b, Answered(a), Answered(b), VaultOf(a) = VaultOf(b)
  PROVE  /\ EntityAsked(a) = EntityAsked(b)
         /\ \A c \in Chain : ~TronException(b, c) =>
              EntityAsked(a)[c][2] = PublicKey(CurveOf[c], SeedAsked(b, c))
<1>1. EntityAsked(a) = EntityAsked(b)
  <2>1. CASE a.ctx = ""
    <3>1. b.ctx = "" /\ announced[a.mnemonic] = announced[b.mnemonic]
      BY <2>1 DEF VaultOf
    <3>2. EntityOf(a.mnemonic.material) = EntityOf(b.mnemonic.material)
      BY <2>1, <3>1 DEF Answered, AnnouncedMaterial
    <3> QED
      BY <2>1, <3>1, <3>2 DEF EntityAsked, VaultEntity
  <2>2. CASE a.ctx # "" /\ a.path = "pass"
    <3>1. /\ b.ctx = a.ctx /\ b.path = "pass"
          /\ b.mnemonic = a.mnemonic /\ b.bytes = a.bytes
      BY <2>2 DEF VaultOf, Answered, Path
    <3> QED
      BY <2>2, <3>1 DEF EntityAsked
  <2>3. CASE a.ctx # "" /\ a.path = "prf"
    <3>1. b.ctx = a.ctx /\ b.path = "prf" /\ b.bytes = a.bytes
      BY <2>3 DEF VaultOf, Answered, Path
    <3> QED
      BY <2>3, <3>1 DEF EntityAsked, VaultEntity, ViewedSeeds, MasterKey
  <2> QED
    BY <2>1, <2>2, <2>3 DEF Answered, Path
<1>2. ASSUME NEW c \in Chain, ~TronException(b, c)
      PROVE  EntityAsked(a)[c][2] = PublicKey(CurveOf[c], SeedAsked(b, c))
  <2>1. EntityAsked(b)[c] = <<c, PublicKey(CurveOf[c], ShownSeed(b, c))>>
    BY ShownAddress
  <2> QED
    BY <1>1, <1>2, <2>1, SigningKey
<1> QED
  BY <1>1, <1>2

(* A key tells the vault it is of: nothing else than the path, mnemonic,   *)
(* passphrase and context, or the wallet, leads to it.                     *)
LEMMA KeyNamesVault ==
  ASSUME AnnouncedMaterial, NEW a, NEW b, Answered(a), Answered(b),
         NEW c1 \in Chain, NEW c2 \in Chain,
         \/ ShownSeed(a, c1) = ShownSeed(b, c2)
         \/ ShownSeed(a, c1) = RevSeed(Kmaster(b.bytes, b.mnemonic), c2, b.ctx)
  PROVE  VaultOf(a) = VaultOf(b)
<1>1. CASE a.ctx = ""
  <2>1. b.ctx = "" /\ a.mnemonic.material = b.mnemonic.material
    BY <1>1 DEF ShownSeed, RevSeed
  <2> QED
    BY <1>1, <2>1 DEF VaultOf, Answered, AnnouncedMaterial
<1>2. CASE a.ctx # ""
  <2>1. ShownSeed(a, c1) = RevSeed(IdentityRoot(MasterKey(a.path, a.mnemonic, a.bytes)), c1, a.ctx)
    BY <1>2 DEF ShownSeed
  <2>2. ShownSeed(a, c1) = ShownSeed(b, c2)
    BY <2>1 DEF RevSeed, IdentityRoot, Kmaster
  <2>3. b.ctx # ""
    BY <2>1, <2>2 DEF ShownSeed, RevSeed
  <2>4. ShownSeed(b, c2) = RevSeed(IdentityRoot(MasterKey(b.path, b.mnemonic, b.bytes)), c2, b.ctx)
    BY <2>3 DEF ShownSeed
  <2>5. /\ a.ctx = b.ctx
        /\ MasterKey(a.path, a.mnemonic, a.bytes) = MasterKey(b.path, b.mnemonic, b.bytes)
    BY <2>1, <2>2, <2>4 DEF RevSeed, IdentityRoot
  <2>6. a.path = b.path /\ a.bytes = b.bytes /\ (a.path = "pass" => a.mnemonic = b.mnemonic)
    BY <2>5 DEF MasterKey, Kmaster, BaseKey, Answered, Path
  <2> QED
    BY <1>2, <2>3, <2>5, <2>6 DEF VaultOf
<1> QED
  BY <1>1, <1>2

-----------------------------------------------------------------------------
(* The invariant is inductive *)

LEMMA VaultInitInv == VaultInit => VaultInv
BY DEF VaultInit, Init, Idle, Reply, VaultInv, AnnouncedMaterial, Issued, PublishedOK, ViewOK,
       SignOK, Did

(* Steps of the wallet: more mnemonics, all that was announced stays.      *)
LEMMA WalletStepKeeps ==
  ASSUME VaultInv, GenerateStep \/ RekeyStep
  PROVE  /\ AnnouncedMaterial' /\ Issued \subseteq Issued'
         /\ ret'.op \in {"generate", "rekey"}
<1>1. ASSUME NEW m, NEW entity, Announce(m, entity), entity = EntityOf(m.material)
      PROVE  AnnouncedMaterial' /\ Issued \subseteq Issued'
  <2>1. /\ announced' = [x \in Issued \cup {m} |-> IF x \in Issued THEN announced[x] ELSE entity]
        /\ Issued' = Issued \cup {m}
    BY <1>1 DEF Announce, Issued
  <2> QED
    BY <1>1, <2>1 DEF VaultInv, AnnouncedMaterial
<1>2. ASSUME UNCHANGED announced
      PROVE  AnnouncedMaterial' /\ Issued \subseteq Issued'
  BY <1>2 DEF VaultInv, AnnouncedMaterial, Issued
<1>3. CASE GenerateStep
  <2>1. CASE GenerateFails
    BY <1>2, <2>1 DEF GenerateFails, Reply
  <2>2. ASSUME NEW api \in Api, NEW p, NEW s, Generate(api, p, s)
        PROVE  /\ AnnouncedMaterial' /\ Issued \subseteq Issued'
               /\ ret'.op \in {"generate", "rekey"}
    <3>1. PICK r \in FreshRoot :
            LET m == Seal(r, Credential(api, p, s))
            IN Announce(m, EntityOf(r)) /\ ret' = Reply("generate", m, "ok", {EntityOf(r)})
      BY <2>2 DEF Generate
    <3> DEFINE m == Seal(r, Credential(api, p, s))
    <3>2. m.material = r
      BY DEF Seal
    <3> HIDE DEF m
    <3>3. Announce(m, EntityOf(m.material)) /\ ret'.op = "generate"
      BY <3>1, <3>2 DEF m, Reply
    <3> QED
      BY <1>1, <3>3
  <2> QED
    BY <1>3, <2>1, <2>2 DEF GenerateStep
<1>4. ASSUME NEW m \in Input, NEW oldBytes, NEW newBytes, NEW reader, NEW p, NEW s,
             Rekey(m, oldBytes, newBytes, reader, p, s)
      PROVE  /\ AnnouncedMaterial' /\ Issued \subseteq Issued'
             /\ ret'.op \in {"generate", "rekey"}
  <2> DEFINE resealed == Reseal(m.material, newBytes)
  <2>1. CASE ~Unseals(m, BaseKey(oldBytes))
    BY <1>2, <1>4, <2>1 DEF Rekey, Reply
  <2>2. CASE Unseals(m, BaseKey(oldBytes))
    <3>1. Announce(resealed, announced[m]) /\ ret' = Reply("rekey", m, "ok", {resealed})
      BY <1>4, <2>2 DEF Rekey
    <3>2. m \in Issued
      BY <2>2, OpensOnlyIssued
    <3>3. resealed.material = m.material
      BY DEF Reseal, Seal
    <3> HIDE DEF resealed
    <3>4. announced[m] = EntityOf(resealed.material)
      BY <3>2, <3>3 DEF VaultInv, AnnouncedMaterial
    <3> QED
      BY <1>1, <3>1, <3>4 DEF Reply
  <2> QED
    BY <2>1, <2>2
<1>5. CASE RekeyStep
  BY <1>4, <1>5 DEF RekeyStep, ChangePassphrase, ChangePassphraseWithAdmin, AddAdmin
<1> QED
  BY <1>3, <1>5

LEMMA AnsweredStays ==
  ASSUME NEW a, Answered(a), Issued \subseteq Issued'
  PROVE  Answered(a)'
BY DEF Answered

(* A vault call is answered for a decoded mnemonic or an issued one only.  *)
LEMMA OkIsAnswered ==
  ASSUME NEW path \in Path, NEW m \in Input, NEW bytes, NEW ctx,
         VaultError(path, m, bytes, ctx) = "ok"
  PROVE  Answered(Asked(path, m, bytes, ctx))
<1>1. CASE ctx = ""
  <2>1. Unseals(m, BaseKey(bytes))
    BY <1>1 DEF VaultError, Unseals
  <2>2. m \in Issued
    BY <2>1, OpensOnlyIssued
  <2> QED
    BY <2>2 DEF Answered, Asked
<1>2. CASE ctx # ""
  BY <1>2 DEF Answered, Asked
<1> QED
  BY <1>1, <1>2

LEMMA VaultViewPreserves ==
  ASSUME VaultInv, NEW path \in Path, NEW m \in Input, NEW bytes, NEW ctx,
         VaultView(path, m, bytes, ctx)
  PROVE  VaultInv'
<1> DEFINE a == Asked(path, m, bytes, ctx)
           entity == VaultEntity(path, m, bytes, ctx)
<1>1. /\ UNCHANGED announced
      /\ ret' = VaultReply("vault_view", path, m, bytes, ctx, entity)
      /\ \/ published' = published
         \/ /\ VaultError(path, m, bytes, ctx) = "ok"
            /\ published' = published \cup {[asked |-> a, entity |-> entity]}
  BY DEF VaultView
<1>2. entity = EntityAsked(a)
  BY DEF EntityAsked, Asked
<1>3. VaultError(path, m, bytes, ctx) = "ok" => Answered(a)
  BY OkIsAnswered
<1> HIDE DEF a, entity
<1>4. AnnouncedMaterial' /\ Issued' = Issued
  BY <1>1 DEF VaultInv, AnnouncedMaterial, Issued
<1>5. PublishedOK'
  <2>1. ASSUME NEW d \in published'
        PROVE  Answered(d.asked) /\ d.entity = EntityAsked(d.asked)
    <3>1. CASE d \in published
      BY <3>1 DEF VaultInv, PublishedOK
    <3>2. CASE d \notin published
      <4>1. VaultError(path, m, bytes, ctx) = "ok" /\ d = [asked |-> a, entity |-> entity]
        BY <1>1, <2>1, <3>2
      <4>2. d.asked = a /\ d.entity = entity
        BY <4>1
      <4> QED
        BY <1>2, <1>3, <4>1, <4>2
    <3> QED
      BY <3>1, <3>2
  <2> QED
    BY <1>4, <2>1 DEF PublishedOK, Answered
<1>6. /\ ret'.op = "vault_view"
      /\ ret'.error = "ok" =>
           /\ VaultError(path, m, bytes, ctx) = "ok"
           /\ ret'.mnemonic = a /\ ret'.value = {entity}
  BY <1>1 DEF VaultReply, Reply, a
<1>7. ViewOK'
  <2> SUFFICES ASSUME ret'.error = "ok"
               PROVE  Answered(a)' /\ ret'.mnemonic = a /\ ret'.value = {EntityAsked(a)}
    BY DEF ViewOK, Did, Answered, EntityAsked
  <2> QED
    BY <1>2, <1>3, <1>4, <1>6 DEF Answered
<1>8. SignOK'
  BY <1>6 DEF SignOK, Did
<1> QED
  BY <1>4, <1>5, <1>7, <1>8 DEF VaultInv

LEMMA VaultSignPreserves ==
  ASSUME VaultInv, NEW path \in Path, NEW m \in Input, NEW bytes, NEW ctx,
         NEW c \in SigningChains, NEW msg, VaultSign(path, m, bytes, ctx, c, msg)
  PROVE  VaultInv'
<1> DEFINE a == Asked(path, m, bytes, ctx)
           sig == SignWith(CurveOf[c], VaultKeySeed(path, m, bytes, ctx, c), msg)
           v == [chain |-> c, sig |-> sig]
<1>1. /\ UNCHANGED <<announced, published>>
      /\ ret' = VaultReply("vault_sign", path, m, bytes, ctx, v)
  BY DEF VaultSign
<1>2. v.chain = c /\ v.sig = SignWith(CurveOf[c], SeedAsked(a, c), v.sig.msg)
  BY DEF SeedAsked, Asked, SignWith
<1>3. VaultError(path, m, bytes, ctx) = "ok" => Answered(a)
  BY OkIsAnswered
<1>4. c \in Chain
  BY DEF SigningChains, Chain, CurveOf
<1> HIDE DEF a, v
<1>5. AnnouncedMaterial' /\ Issued' = Issued
  BY <1>1 DEF VaultInv, AnnouncedMaterial, Issued
<1>6. PublishedOK'
  BY <1>1, <1>5 DEF VaultInv, PublishedOK, Answered
<1>7. /\ ret'.error = "ok" => ret'.mnemonic = a /\ ret'.value = {v}
      /\ ret'.error = "ok" => VaultError(path, m, bytes, ctx) = "ok"
      /\ ret'.op = "vault_sign"
  BY <1>1 DEF VaultReply, Reply, a
<1>8. ViewOK' /\ SignOK'
  BY <1>2, <1>3, <1>4, <1>5, <1>7 DEF ViewOK, SignOK, Did, Answered
<1> QED
  BY <1>5, <1>6, <1>8 DEF VaultInv

LEMMA VaultStepPreserves == VaultInv /\ [VaultNext]_vaultVars => VaultInv'
<1> SUFFICES ASSUME VaultInv, [VaultNext]_vaultVars PROVE VaultInv'
  OBVIOUS
<1>1. CASE (GenerateStep \/ RekeyStep) /\ UNCHANGED published
  <2>1. /\ AnnouncedMaterial' /\ Issued \subseteq Issued'
        /\ ret'.op \in {"generate", "rekey"}
    BY <1>1, WalletStepKeeps
  <2>2. PublishedOK'
    BY <1>1, <2>1 DEF VaultInv, PublishedOK, Answered
  <2> QED
    BY <2>1, <2>2 DEF VaultInv, ViewOK, SignOK, Did
<1>2. CASE VaultCall
  BY <1>2, VaultViewPreserves, VaultSignPreserves DEF VaultCall
<1>3. CASE UNCHANGED vaultVars
  BY <1>3 DEF vaultVars, vars, VaultInv, AnnouncedMaterial, Issued, PublishedOK, ViewOK, SignOK,
       Did, Answered
<1> QED
  BY <1>1, <1>2, <1>3 DEF VaultNext

(* The inductive invariant of the vaults: what was published and what the  *)
(* last call showed or signed is a function of what was asked.             *)
THEOREM VaultInvariance == VaultSpec => []VaultInv
BY VaultInitInv, VaultStepPreserves, PTL DEF VaultSpec

(* A published address stays what its vault shows.                         *)
THEOREM ViewsStay == VaultSpec => []ViewsAgree
<1>1. VaultInv => ViewsAgree
  <2> SUFFICES ASSUME VaultInv, Did("vault_view"), NEW d \in published,
                      VaultOf(d.asked) = VaultOf(ret.mnemonic)
               PROVE  ret.value = {d.entity}
    BY DEF ViewsAgree
  <2>1. /\ Answered(ret.mnemonic) /\ ret.value = {EntityAsked(ret.mnemonic)}
        /\ Answered(d.asked) /\ d.entity = EntityAsked(d.asked)
    BY DEF VaultInv, ViewOK, PublishedOK
  <2>2. EntityAsked(d.asked) = EntityAsked(ret.mnemonic)
    BY <2>1, VaultShowsOneEntity DEF VaultInv
  <2> QED
    BY <2>1, <2>2
<1> QED
  BY <1>1, VaultInvariance, PTL

(* Signers sign for the published address of their vault, but for Tron     *)
(* with a passphrase.                                                      *)
THEOREM SignersAgree == VaultSpec => []SignersMatchViews
<1>1. VaultInv => SignersMatchViews
  <2> SUFFICES ASSUME VaultInv, Did("vault_sign"), NEW d \in published, NEW v \in ret.value,
                      VaultOf(d.asked) = VaultOf(ret.mnemonic),
                      ~TronException(ret.mnemonic, v.chain)
               PROVE  Verifies(d.entity[v.chain][2], v.sig.msg, v.sig)
    BY DEF SignersMatchViews
  <2>1. /\ Answered(ret.mnemonic) /\ Answered(d.asked) /\ d.entity = EntityAsked(d.asked)
        /\ v.chain \in Chain
        /\ v.sig = SignWith(CurveOf[v.chain], SeedAsked(ret.mnemonic, v.chain), v.sig.msg)
    BY DEF VaultInv, SignOK, PublishedOK
  <2>2. d.entity[v.chain][2] = PublicKey(CurveOf[v.chain], SeedAsked(ret.mnemonic, v.chain))
    BY <2>1, VaultShowsOneEntity DEF VaultInv
  <2> QED
    BY <2>1, <2>2 DEF Verifies, SignWith
<1> QED
  BY <1>1, VaultInvariance, PTL

(* No two vaults share a key, whether shown or signed with.                *)
THEOREM VaultsApart == VaultSpec => []VaultsStayApart
<1>1. VaultInv => VaultsStayApart
  <2> SUFFICES ASSUME VaultInv, NEW d \in published, VaultOf(d.asked) # VaultOf(ret.mnemonic)
               PROVE  /\ Did("vault_view") =>
                           \A e \in ret.value, c1, c2 \in Chain : d.entity[c1][2] # e[c2][2]
                      /\ Did("vault_sign") =>
                           \A v \in ret.value, c \in Chain :
                             ~Verifies(d.entity[c][2], v.sig.msg, v.sig)
    BY DEF VaultsStayApart
  <2> DEFINE a == d.asked
             b == ret.mnemonic
  <2>1. Answered(a) /\ d.entity = EntityAsked(a)
    BY DEF VaultInv, PublishedOK
  <2>2. ASSUME NEW c \in Chain PROVE d.entity[c][2] = PublicKey(CurveOf[c], ShownSeed(a, c))
    BY <2>1, ShownAddress
  <2>3. ASSUME Did("vault_view"), NEW e \in ret.value, NEW c1 \in Chain, NEW c2 \in Chain
        PROVE  d.entity[c1][2] # e[c2][2]
    <3>1. Answered(b) /\ e = EntityAsked(b)
      BY <2>3 DEF VaultInv, ViewOK
    <3>2. e[c2][2] = PublicKey(CurveOf[c2], ShownSeed(b, c2))
      BY <3>1, ShownAddress
    <3>3. ShownSeed(a, c1) # ShownSeed(b, c2)
      BY <2>1, <3>1, KeyNamesVault DEF VaultInv
    <3> QED
      BY <2>2, <3>2, <3>3 DEF PublicKey
  <2>4. ASSUME Did("vault_sign"), NEW v \in ret.value, NEW c \in Chain
        PROVE  ~Verifies(d.entity[c][2], v.sig.msg, v.sig)
    <3>1. /\ Answered(b) /\ v.chain \in Chain
          /\ v.sig = SignWith(CurveOf[v.chain], SeedAsked(b, v.chain), v.sig.msg)
      BY <2>4 DEF VaultInv, SignOK
    <3>2. ShownSeed(a, c) # SeedAsked(b, v.chain)
      BY <2>1, <3>1, KeyNamesVault, SigningKey DEF VaultInv
    <3> QED
      BY <2>2, <3>1, <3>2 DEF Verifies, SignWith, PublicKey
  <2> QED
    BY <2>3, <2>4
<1> QED
  BY <1>1, VaultInvariance, PTL

-----------------------------------------------------------------------------
(* The order of strings *)

Str == Seq(Byte)

(* Strings part at a place: there the first of them ends, or has the       *)
(* smaller byte.                                                           *)
PartAt(s, t, i) ==
    /\ i \in 1..Len(t) /\ i <= Len(s) + 1
    /\ \A j \in 1..(i - 1) : s[j] = t[j]
    /\ i <= Len(s) => s[i] < t[i]

IsBefore(s, t) == \E i \in Nat : PartAt(s, t, i)

LEMMA StringBytes ==
  ASSUME NEW s \in Str
  PROVE  Len(s) \in Nat /\ \A i \in 1..Len(s) : s[i] \in Nat
<1>1. s \in Seq(Byte)
  BY DEF Str
<1>2. \A i \in 1..Len(s) : s[i] \in Byte
  BY <1>1
<1>3. Byte \subseteq Nat
  BY ByteAssumption
<1>4. Len(s) \in Nat
  BY <1>1
<1>5. \A i \in 1..Len(s) : s[i] \in Nat
  BY <1>2, <1>3
<1> QED
  BY <1>4, <1>5

LEMMA BeforeMeans ==
  ASSUME NEW s \in Str, NEW t \in Str
  PROVE  Before(s, t) <=> IsBefore(s, t)
<1> DEFINE D == {i \in 1..Len(s) : i <= Len(t) /\ s[i] # t[i]}
<1>0. /\ Len(s) \in Nat /\ \A i \in 1..Len(s) : s[i] \in Nat
      /\ Len(t) \in Nat /\ \A i \in 1..Len(t) : t[i] \in Nat
  BY StringBytes
<1>d. \A j \in 1..Len(s) : j <= Len(t) /\ j \notin D => s[j] = t[j]
  OBVIOUS
<1>1. CASE D = {}
  <2>1. Before(s, t) <=> Len(s) < Len(t)
    BY <1>1 DEF Before
  <2>2. ASSUME Len(s) < Len(t) PROVE PartAt(s, t, Len(s) + 1)
    BY <1>0, <1>1, <1>d, <2>2 DEF PartAt
  <2>3. ASSUME NEW i \in Nat, PartAt(s, t, i) PROVE Len(s) < Len(t)
    <3>1. i \in 1..Len(t) /\ i <= Len(s) + 1 /\ (i <= Len(s) => s[i] < t[i])
      BY <2>3 DEF PartAt
    <3>2. i <= Len(s) => s[i] = t[i]
      BY <1>1, <1>d, <3>1
    <3> QED
      BY <1>0, <3>1, <3>2
  <2>4. Len(s) + 1 \in Nat
    BY <1>0
  <2> QED
    BY <2>1, <2>2, <2>3, <2>4 DEF IsBefore
<1>2. CASE D # {}
  <2> DEFINE k == CHOOSE i \in D : \A j \in D : i <= j
  <2>1. \E i \in D : \A j \in D : i <= j
    <3>1. D \subseteq Nat
      OBVIOUS
    <3> HIDE DEF D
    <3> QED
      BY <1>2, <3>1, Least
  <2>2. k \in D /\ \A j \in D : k <= j
    <3> HIDE DEF D
    <3> QED
      BY <2>1
  <2>3. Before(s, t) <=> s[k] < t[k]
    BY <1>2 DEF Before
  <2> HIDE DEF k
  <2>4. k \in 1..Len(s) /\ k <= Len(t) /\ s[k] # t[k]
    BY <2>2
  <2>5. \A j \in 1..(k - 1) : s[j] = t[j]
    <3> SUFFICES ASSUME NEW j \in 1..(k - 1) PROVE s[j] = t[j]
      OBVIOUS
    <3>1. j \in 1..Len(s) /\ j <= Len(t) /\ ~(k <= j)
      BY <1>0, <2>4
    <3>2. j \notin D
      BY <2>2, <3>1
    <3> QED
      BY <1>d, <3>1, <3>2
  <2>6. ASSUME s[k] < t[k] PROVE PartAt(s, t, k)
    BY <1>0, <2>4, <2>5, <2>6 DEF PartAt
  <2>7. ASSUME NEW i \in Nat, PartAt(s, t, i) PROVE s[k] < t[k]
    <3>1. /\ i \in 1..Len(t) /\ i <= Len(s) + 1 /\ (i <= Len(s) => s[i] < t[i])
          /\ \A j \in 1..(i - 1) : s[j] = t[j]
      BY <2>7 DEF PartAt
    <3>2. ~(k \in 1..(i - 1))
      BY <2>4, <3>1
    <3>3. i <= k /\ i <= Len(s) /\ i \in 1..Len(s)
      BY <1>0, <2>4, <3>1, <3>2
    <3>4. s[i] < t[i] /\ s[i] \in Nat /\ t[i] \in Nat
      BY <1>0, <3>1, <3>3
    <3>5. ~(i \in 1..(k - 1))
      BY <2>5, <3>4
    <3>6. i = k
      BY <2>4, <3>3, <3>5
    <3> QED
      BY <3>4, <3>6
  <2>8. k \in Nat
    BY <2>4
  <2> QED
    BY <2>3, <2>6, <2>7, <2>8 DEF IsBefore
<1> QED
  BY <1>1, <1>2

LEMMA BeforeTransitive ==
  ASSUME NEW s \in Str, NEW t \in Str, NEW u \in Str, Before(s, t), Before(t, u)
  PROVE  Before(s, u)
<1>1. PICK i \in Nat : PartAt(s, t, i)
  BY BeforeMeans DEF IsBefore
<1>2. PICK k \in Nat : PartAt(t, u, k)
  BY BeforeMeans DEF IsBefore
<1>0. /\ Len(s) \in Nat /\ \A j \in 1..Len(s) : s[j] \in Nat
      /\ Len(t) \in Nat /\ \A j \in 1..Len(t) : t[j] \in Nat
      /\ Len(u) \in Nat /\ \A j \in 1..Len(u) : u[j] \in Nat
  BY StringBytes
<1>3. /\ i \in 1..Len(t) /\ i <= Len(s) + 1 /\ (i <= Len(s) => s[i] < t[i])
      /\ \A j \in 1..(i - 1) : s[j] = t[j]
  BY <1>1 DEF PartAt
<1>4. /\ k \in 1..Len(u) /\ k <= Len(t) + 1 /\ (k <= Len(t) => t[k] < u[k])
      /\ \A j \in 1..(k - 1) : t[j] = u[j]
  BY <1>2 DEF PartAt
<1>5. CASE i < k
  <2>1. t[i] = u[i] /\ \A j \in 1..(i - 1) : t[j] = u[j]
    BY <1>3, <1>4, <1>5
  <2>2. PartAt(s, u, i)
    BY <1>0, <1>3, <1>4, <1>5, <2>1 DEF PartAt
  <2> QED
    BY <2>2, BeforeMeans DEF IsBefore
<1>6. CASE i = k
  <2>1. i <= Len(s) => s[i] < u[i]
    BY <1>0, <1>3, <1>4, <1>6
  <2>2. PartAt(s, u, i)
    BY <1>0, <1>3, <1>4, <1>6, <2>1 DEF PartAt
  <2> QED
    BY <2>2, BeforeMeans DEF IsBefore
<1>7. CASE k < i
  <2>1. s[k] = t[k] /\ \A j \in 1..(k - 1) : s[j] = u[j]
    BY <1>3, <1>4, <1>7
  <2>2. k <= Len(t) /\ k <= Len(s) /\ s[k] < u[k]
    BY <1>0, <1>3, <1>4, <1>7, <2>1
  <2>3. PartAt(s, u, k)
    BY <1>0, <1>4, <2>1, <2>2 DEF PartAt
  <2> QED
    BY <2>3, BeforeMeans DEF IsBefore
<1> QED
  BY <1>5, <1>6, <1>7

LEMMA NotBeforeItself ==
  ASSUME NEW s \in Str, Before(s, s)
  PROVE  FALSE
<1>1. PICK i \in Nat : PartAt(s, s, i)
  BY BeforeMeans DEF IsBefore
<1>2. i \in 1..Len(s) /\ (i <= Len(s) => s[i] < s[i]) /\ s[i] \in Nat
  BY <1>1, StringBytes DEF PartAt
<1> QED
  BY <1>2

LEMMA BeforeTotal ==
  ASSUME NEW s \in Str, NEW t \in Str, s # t
  PROVE  Before(s, t) \/ Before(t, s)
<1>0. /\ Len(s) \in Nat /\ \A j \in 1..Len(s) : s[j] \in Nat
      /\ Len(t) \in Nat /\ \A j \in 1..Len(t) : t[j] \in Nat
  BY StringBytes
<1> DEFINE D == {i \in 1..Len(s) : i <= Len(t) /\ s[i] # t[i]}
<1>1. CASE D = {}
  <2>1. \A j \in 1..Len(s) : j <= Len(t) => s[j] = t[j]
    BY <1>1
  <2>2. CASE Len(s) < Len(t)
    <3>1. PartAt(s, t, Len(s) + 1) /\ Len(s) + 1 \in Nat
      BY <1>0, <2>1, <2>2 DEF PartAt
    <3> QED
      BY <3>1, BeforeMeans DEF IsBefore
  <2>3. CASE Len(t) < Len(s)
    <3>1. PartAt(t, s, Len(t) + 1) /\ Len(t) + 1 \in Nat
      BY <1>0, <2>1, <2>3 DEF PartAt
    <3> QED
      BY <3>1, BeforeMeans DEF IsBefore
  <2>4. CASE Len(s) = Len(t)
    <3>1. \A j \in 1..Len(s) : s[j] = t[j]
      BY <1>0, <2>1, <2>4
    <3>2. s = t
      BY <2>4, <3>1, SeqEqual DEF Str
    <3> QED
      BY <3>2
  <2> QED
    BY <1>0, <2>2, <2>3, <2>4
<1>2. CASE D # {}
  <2>1. D \subseteq Nat
    OBVIOUS
  <2>2. PICK k \in D : \A j \in D : k <= j
    <3> HIDE DEF D
    <3> QED
      BY <1>2, <2>1, Least
  <2>3. k \in 1..Len(s) /\ k <= Len(t) /\ s[k] # t[k]
    BY <2>2
  <2>5. \A j \in 1..(k - 1) : s[j] = t[j]
    <3> SUFFICES ASSUME NEW j \in 1..(k - 1), s[j] # t[j] PROVE FALSE
      OBVIOUS
    <3>1. j \in 1..Len(s) /\ j <= Len(t) /\ ~(k <= j)
      BY <1>0, <2>3
    <3>2. j \in D
      BY <3>1
    <3> QED
      BY <2>2, <3>1, <3>2
  <2>6. CASE s[k] < t[k]
    <3>1. PartAt(s, t, k) /\ k \in Nat
      BY <1>0, <2>3, <2>5, <2>6 DEF PartAt
    <3> QED
      BY <3>1, BeforeMeans DEF IsBefore
  <2>7. CASE t[k] < s[k]
    <3>1. PartAt(t, s, k) /\ k \in Nat
      BY <1>0, <2>3, <2>5, <2>7 DEF PartAt
    <3> QED
      BY <3>1, BeforeMeans DEF IsBefore
  <2> QED
    BY <1>0, <2>3, <2>6, <2>7
<1> QED
  BY <1>1, <1>2

-----------------------------------------------------------------------------
(* There is an order: a segment's place is how many come no later *)

(* A place goes before another when its segment does, or when the two      *)
(* segments are one and it is the first.                                   *)
Precedes(list, i, j) == Before(list[i], list[j]) \/ (list[i] = list[j] /\ i < j)

UpTo(list, i) == {j \in 1..Len(list) : j = i \/ Precedes(list, j, i)}

Ranks(list) == [i \in 1..Len(list) |-> Cardinality(UpTo(list, i))]

InOrder(list, p) ==
    \A i, j \in 1..Len(list) :
      i < j => Before(list[p[i]], list[p[j]]) \/ list[p[i]] = list[p[j]]

LEMMA PrecedesStrictly ==
  ASSUME NEW list \in Seq(Str), NEW i \in 1..Len(list), NEW j \in 1..Len(list),
         Precedes(list, i, j)
  PROVE  ~Precedes(list, j, i)
<1>1. list[i] \in Str /\ list[j] \in Str
  OBVIOUS
<1> SUFFICES ASSUME Precedes(list, j, i) PROVE FALSE
  OBVIOUS
<1>2. CASE Before(list[i], list[j]) /\ Before(list[j], list[i])
  <2>1. Before(list[i], list[i])
    BY <1>1, <1>2, BeforeTransitive
  <2> QED
    BY <1>1, <2>1, NotBeforeItself
<1>3. CASE list[i] = list[j]
  <2>1. ~Before(list[i], list[j]) /\ ~Before(list[j], list[i])
    BY <1>1, <1>3, NotBeforeItself
  <2>2. i < j /\ j < i
    BY <2>1 DEF Precedes
  <2> QED
    BY <2>2
<1> QED
  BY <1>2, <1>3 DEF Precedes

LEMMA PrecedesTransitive ==
  ASSUME NEW list \in Seq(Str), NEW i \in 1..Len(list), NEW j \in 1..Len(list),
         NEW k \in 1..Len(list), Precedes(list, i, j), Precedes(list, j, k)
  PROVE  Precedes(list, i, k)
<1>1. list[i] \in Str /\ list[j] \in Str /\ list[k] \in Str
  OBVIOUS
<1>2. CASE Before(list[i], list[j]) /\ Before(list[j], list[k])
  <2>1. Before(list[i], list[k])
    BY <1>1, <1>2, BeforeTransitive
  <2> QED
    BY <2>1 DEF Precedes
<1>3. CASE list[i] = list[j] /\ list[j] = list[k] /\ i < j /\ j < k
  BY <1>3 DEF Precedes
<1>4. CASE Before(list[i], list[j]) /\ list[j] = list[k]
  BY <1>4, Zenon DEF Precedes
<1>5. CASE list[i] = list[j] /\ Before(list[j], list[k])
  BY <1>5, Zenon DEF Precedes
<1> QED
  BY <1>2, <1>3, <1>4, <1>5 DEF Precedes

LEMMA PrecedesTotal ==
  ASSUME NEW list \in Seq(Str), NEW i \in 1..Len(list), NEW j \in 1..Len(list), i # j
  PROVE  Precedes(list, i, j) \/ Precedes(list, j, i)
<1>1. list[i] \in Str /\ list[j] \in Str
  OBVIOUS
<1>2. CASE list[i] = list[j]
  BY <1>2 DEF Precedes
<1>3. CASE list[i] # list[j]
  BY <1>1, <1>3, BeforeTotal DEF Precedes
<1> QED
  BY <1>2, <1>3

LEMMA RankGrows ==
  ASSUME NEW list \in Seq(Str), NEW i \in 1..Len(list), NEW j \in 1..Len(list),
         Precedes(list, i, j)
  PROVE  Ranks(list)[i] < Ranks(list)[j]
<1>1. IsFiniteSet(1..Len(list))
  BY FS_Interval
<1>2. UpTo(list, j) \subseteq 1..Len(list)
  BY DEF UpTo
<1>3. IsFiniteSet(UpTo(list, j))
  BY <1>1, <1>2, FS_Subset
<1>4. UpTo(list, i) \subseteq UpTo(list, j)
  BY PrecedesTransitive DEF UpTo
<1>5. j \in UpTo(list, j) /\ j \notin UpTo(list, i)
  <2>1. ~Precedes(list, j, i) /\ j # i
    BY PrecedesStrictly
  <2> QED
    BY <2>1 DEF UpTo
<1>6. /\ Cardinality(UpTo(list, i)) <= Cardinality(UpTo(list, j))
      /\ Cardinality(UpTo(list, i)) # Cardinality(UpTo(list, j))
  <2>1. UpTo(list, i) # UpTo(list, j)
    BY <1>5
  <2> QED
    BY <1>3, <1>4, <2>1, FS_Subset
<1>7. Cardinality(UpTo(list, i)) \in Nat /\ Cardinality(UpTo(list, j)) \in Nat
  <2>1. IsFiniteSet(UpTo(list, i))
    BY <1>3, <1>4, FS_Subset
  <2> QED
    BY <1>3, <2>1, FS_CardinalityType
<1>8. /\ Ranks(list)[i] = Cardinality(UpTo(list, i))
      /\ Ranks(list)[j] = Cardinality(UpTo(list, j))
  BY DEF Ranks
<1> QED
  BY <1>6, <1>7, <1>8

LEMMA RankPlaces ==
  ASSUME NEW list \in Seq(Str)
  PROVE  Ranks(list) \in Bijection(1..Len(list), 1..Len(list))
<1> DEFINE S == 1..Len(list)
           rank == Ranks(list)
<1>0. Len(list) \in Nat
  OBVIOUS
<1>1. IsFiniteSet(S) /\ Cardinality(S) = Len(list)
  <2>1. 1 \in Int /\ Len(list) \in Int
    BY <1>0
  <2>2. IsFiniteSet(S) /\ Cardinality(S) = IF 1 > Len(list) THEN 0 ELSE Len(list) - 1 + 1
    BY <2>1, FS_Interval
  <2> QED
    BY <1>0, <2>2
<1>2. ASSUME NEW i \in S PROVE Cardinality(UpTo(list, i)) \in S
  <2>1. UpTo(list, i) \subseteq S /\ i \in UpTo(list, i)
    BY DEF UpTo
  <2>2. /\ IsFiniteSet(UpTo(list, i)) /\ Cardinality(UpTo(list, i)) <= Len(list)
    BY <1>1, <2>1, FS_Subset
  <2>3. Cardinality(UpTo(list, i)) \in Nat
    BY <2>2, FS_CardinalityType
  <2>4. Cardinality(UpTo(list, i)) # 0
    BY <2>1, <2>2, FS_EmptySet
  <2> QED
    BY <1>0, <2>2, <2>3, <2>4
<1>3. rank \in [S -> S]
  BY <1>2 DEF Ranks
<1>4. ASSUME NEW i \in S, NEW j \in S, rank[i] = rank[j] PROVE i = j
  <2> SUFFICES ASSUME i # j PROVE FALSE
    OBVIOUS
  <2>1. rank[i] < rank[j] \/ rank[j] < rank[i]
    BY PrecedesTotal, RankGrows
  <2>2. rank[i] \in S /\ rank[j] \in S
    BY <1>3
  <2> QED
    BY <1>4, <2>1, <2>2
<1> HIDE DEF rank
<1>5. rank \in Injection(S, S)
  <2> HIDE DEF S
  <2> QED
    BY <1>3, <1>4 DEF Injection, IsInjective
<1>6. rank \in Surjection(S, S)
  <2> HIDE DEF S
  <2>1. Cardinality(S) = Cardinality(S) <=> rank \in Surjection(S, S)
    BY <1>1, <1>5, FS_Injection
  <2> QED
    BY <2>1
<1>7. rank \in Bijection(S, S)
  BY <1>5, <1>6 DEF Bijection
<1> QED
  BY <1>7 DEF rank

LEMMA OrderExists ==
  ASSUME NEW list \in Seq(Str)
  PROVE  \E p \in Bijection(1..Len(list), 1..Len(list)) : InOrder(list, p)
<1> DEFINE S == 1..Len(list)
           rank == Ranks(list)
           p == Inverse(rank, S, S)
<1>1. rank \in Bijection(S, S)
  BY RankPlaces
<1>s. \A i, j \in S : Precedes(list, i, j) => rank[i] < rank[j]
  BY RankGrows
<1> HIDE DEF rank
<1>2. p \in Bijection(S, S) /\ Inverse(p, S, S) = rank
  BY <1>1, Fun_BijInverse
<1>3. \A i \in S : rank[p[i]] = i
  <2>1. \A s \in S : Inverse(p, S, S)[p[s]] = s
    BY <1>2, Fun_BijInverse
  <2> QED
    BY <1>2, <2>1
<1> HIDE DEF p
<1>4. p \in [S -> S]
  BY <1>2 DEF Bijection, Injection
<1>5. ASSUME NEW i \in S, NEW j \in S, i < j
      PROVE  Before(list[p[i]], list[p[j]]) \/ list[p[i]] = list[p[j]]
  <2>1. p[i] \in S /\ p[j] \in S
    BY <1>4
  <2>2. rank[p[i]] = i /\ rank[p[j]] = j
    BY <1>3
  <2>3. p[i] # p[j] /\ ~Precedes(list, p[j], p[i])
    BY <1>5, <1>s, <2>1, <2>2
  <2>4. Precedes(list, p[i], p[j])
    BY <2>1, <2>3, PrecedesTotal
  <2> QED
    BY <2>4 DEF Precedes
<1>6. InOrder(list, p)
  BY <1>5 DEF InOrder
<1> QED
  BY <1>2, <1>6

Permuted(list, sorted, p) ==
    /\ p \in Bijection(1..Len(list), 1..Len(list))
    /\ sorted = [i \in 1..Len(list) |-> list[p[i]]]

Ordered(list) ==
    \A i, j \in 1..Len(list) : i < j => Before(list[i], list[j]) \/ list[i] = list[j]

LEMMA SortedIsOrdered ==
  ASSUME NEW list \in Seq(Str)
  PROVE  /\ Sorted(list) \in Seq(Str)
         /\ Len(Sorted(list)) = Len(list)
         /\ Ordered(Sorted(list))
         /\ \E p : Permuted(list, Sorted(list), p)
<1> DEFINE S == 1..Len(list)
           p == CHOOSE p \in Bijection(S, S) : InOrder(list, p)
           sorted == [i \in S |-> list[p[i]]]
<1>1. p \in Bijection(S, S) /\ InOrder(list, p)
  BY OrderExists
<1>2. Sorted(list) = sorted
  BY Zenon DEF Sorted, InOrder
<1> HIDE DEF p
<1>3. p \in [S -> S]
  BY <1>1 DEF Bijection, Injection
<1>4. \A i \in S : list[p[i]] \in Str
  BY <1>3
<1>5. sorted \in Seq(Str) /\ Len(sorted) = Len(list)
  BY <1>4
<1>6. Ordered(sorted)
  BY <1>1, <1>5 DEF Ordered, InOrder
<1>7. Permuted(list, sorted, p)
  BY <1>1 DEF Permuted
<1> QED
  BY <1>2, <1>5, <1>6, <1>7

-----------------------------------------------------------------------------
(* What sorting keeps, and what it makes equal *)

At(list, x) == {i \in 1..Len(list) : list[i] = x}

LEMMA AtIsFinite ==
  ASSUME NEW list \in Seq(Str), NEW x
  PROVE  IsFiniteSet(At(list, x))
<1>1. IsFiniteSet(1..Len(list))
  BY FS_Interval
<1>2. At(list, x) \subseteq 1..Len(list)
  BY DEF At
<1> QED
  BY <1>1, <1>2, FS_Subset

SameOccurrences(a, b) ==
    /\ Range(a) = Range(b)
    /\ \A x \in Range(a) : Cardinality(At(a, x)) = Cardinality(At(b, x))

LEMMA OccurrencesMean ==
  ASSUME NEW a \in Seq(Str), NEW b \in Seq(Str)
  PROVE  Occurrences(a) = Occurrences(b) <=> SameOccurrences(a, b)
<1>1. DOMAIN a = 1..Len(a) /\ DOMAIN b = 1..Len(b)
  OBVIOUS
<1>2. /\ Occurrences(a) = [s \in Range(a) |-> Cardinality(At(a, s))]
      /\ Occurrences(b) = [s \in Range(b) |-> Cardinality(At(b, s))]
  BY <1>1, Zenon DEF Occurrences, At
<1> DEFINE R == Range(a)
           Q == Range(b)
<1> HIDE DEF R, Q
<1>3. [s \in R |-> Cardinality(At(a, s))] = [s \in Q |-> Cardinality(At(b, s))]
        <=> R = Q /\ \A x \in R : Cardinality(At(a, x)) = Cardinality(At(b, x))
  <2>1. ASSUME [s \in R |-> Cardinality(At(a, s))] = [s \in Q |-> Cardinality(At(b, s))]
        PROVE  R = Q /\ \A x \in R : Cardinality(At(a, x)) = Cardinality(At(b, x))
    <3> DEFINE f == [s \in R |-> Cardinality(At(a, s))]
               g == [s \in Q |-> Cardinality(At(b, s))]
    <3>1. DOMAIN f = R /\ DOMAIN g = Q
      OBVIOUS
    <3>2. /\ \A x \in R : f[x] = Cardinality(At(a, x))
          /\ \A x \in Q : g[x] = Cardinality(At(b, x))
      OBVIOUS
    <3>3. f = g
      BY <2>1
    <3> HIDE DEF f, g
    <3> QED
      BY <3>1, <3>2, <3>3
  <2>2. ASSUME R = Q, \A x \in R : Cardinality(At(a, x)) = Cardinality(At(b, x))
        PROVE  [s \in R |-> Cardinality(At(a, s))] = [s \in Q |-> Cardinality(At(b, s))]
    BY <2>2
  <2> QED
    BY <2>1, <2>2
<1> QED
  BY <1>2, <1>3 DEF SameOccurrences, R, Q

LEMMA PermutedCount ==
  ASSUME NEW list \in Seq(Str), NEW sorted \in Seq(Str), NEW p, NEW x,
         Len(sorted) = Len(list), Permuted(list, sorted, p)
  PROVE  Cardinality(At(sorted, x)) = Cardinality(At(list, x))
<1> DEFINE n == 1..Len(list)
           S == At(sorted, x)
           T == At(list, x)
           f == [i \in S |-> p[i]]
<1>1. /\ p \in [n -> n] /\ \A i, j \in n : p[i] = p[j] => i = j
      /\ \A k \in n : \E i \in n : p[i] = k
  <2>1. p \in Injection(n, n) /\ p \in Surjection(n, n)
    BY DEF Permuted, Bijection
  <2> HIDE DEF n
  <2>2. p \in [n -> n] /\ IsInjective(p)
    BY <2>1 DEF Injection
  <2>3. \A k \in n : \E i \in n : p[i] = k
    BY <2>1 DEF Surjection
  <2>4. \A i, j \in n : p[i] = p[j] => i = j
    BY <2>2 DEF IsInjective
  <2> QED
    BY <2>2, <2>3, <2>4
<1>2. \A i \in n : sorted[i] = list[p[i]]
  BY DEF Permuted
<1>3. S = {i \in n : sorted[i] = x} /\ T = {i \in n : list[i] = x}
  BY DEF At
<1> HIDE DEF n, S, T
<1>4. \A i \in S : i \in n /\ p[i] \in T
  BY <1>1, <1>2, <1>3
<1>5. \A k \in T : \E i \in S : p[i] = k
  <2> SUFFICES ASSUME NEW k \in T PROVE \E i \in S : p[i] = k
    OBVIOUS
  <2>1. k \in n /\ list[k] = x
    BY <1>3
  <2>2. PICK i \in n : p[i] = k
    BY <1>1, <2>1
  <2>3. i \in S
    BY <1>2, <1>3, <2>1, <2>2
  <2> QED
    BY <2>2, <2>3
<1>6. f \in [S -> T] /\ \A i \in S : f[i] = p[i]
  BY <1>4
<1> HIDE DEF f
<1>7. f \in Bijection(S, T)
  <2>1. \A i, j \in S : f[i] = f[j] => i = j
    BY <1>1, <1>4, <1>6
  <2>2. \A k \in T : \E i \in S : f[i] = k
    BY <1>5, <1>6
  <2>3. f \in Injection(S, T)
    BY <1>6, <2>1 DEF Injection, IsInjective
  <2>4. f \in Surjection(S, T)
    BY <1>6, <2>2 DEF Surjection
  <2> QED
    BY <2>3, <2>4 DEF Bijection
<1>8. ExistsBijection(S, T)
  BY <1>7 DEF ExistsBijection
<1>9. IsFiniteSet(S)
  BY AtIsFinite DEF S
<1>10. Cardinality(T) = Cardinality(S)
  BY <1>8, <1>9, FS_Bijection
<1> QED
  BY <1>10 DEF S, T

LEMMA RangeOfList ==
  ASSUME NEW list \in Seq(Str), NEW x
  PROVE  x \in Range(list) <=> \E i \in 1..Len(list) : list[i] = x
<1>1. DOMAIN list = 1..Len(list)
  OBVIOUS
<1> QED
  BY <1>1, Zenon DEF Range

LEMMA PermutedRange ==
  ASSUME NEW list \in Seq(Str), NEW sorted \in Seq(Str), NEW p,
         Len(sorted) = Len(list), Permuted(list, sorted, p)
  PROVE  Range(sorted) = Range(list)
<1> DEFINE n == 1..Len(list)
<1>1. p \in [n -> n] /\ \A k \in n : \E i \in n : p[i] = k
  <2>1. p \in Injection(n, n) /\ p \in Surjection(n, n)
    BY DEF Permuted, Bijection
  <2> HIDE DEF n
  <2> QED
    BY <2>1 DEF Injection, Surjection
<1>2. \A i \in n : sorted[i] = list[p[i]]
  BY DEF Permuted
<1>3. \A x : x \in Range(sorted) <=> \E i \in n : sorted[i] = x
  BY RangeOfList
<1>4. \A x : x \in Range(list) <=> \E i \in n : list[i] = x
  BY RangeOfList
<1> HIDE DEF n
<1>5. \A x : x \in Range(sorted) <=> x \in Range(list)
  BY <1>1, <1>2, <1>3, <1>4
<1> QED
  BY <1>5

(* Sorting keeps how often each segment occurs.                            *)
LEMMA SortingKeeps ==
  ASSUME NEW list \in Seq(Str)
  PROVE  SameOccurrences(Sorted(list), list)
<1>1. Sorted(list) \in Seq(Str) /\ Len(Sorted(list)) = Len(list)
  BY SortedIsOrdered
<1>2. PICK p : Permuted(list, Sorted(list), p)
  BY SortedIsOrdered
<1>3. Range(Sorted(list)) = Range(list)
  BY <1>1, <1>2, PermutedRange
<1>4. \A x : Cardinality(At(Sorted(list), x)) = Cardinality(At(list, x))
  BY <1>1, <1>2, PermutedCount
<1> QED
  BY <1>3, <1>4, Zenon DEF SameOccurrences

(* Up to a place the lists agree, and there s has a segment that t, which  *)
(* is sorted, has no longer.                                               *)
Exceeds(s, t, i) ==
    /\ i \in 1..Len(s)
    /\ \A j \in 1..(i - 1) : j <= Len(t) /\ s[j] = t[j]
    /\ i > Len(t) \/ Before(s[i], t[i])

LEMMA NoneExceeds ==
  ASSUME NEW s \in Seq(Str), NEW t \in Seq(Str), NEW i, Exceeds(s, t, i), Ordered(t),
         SameOccurrences(s, t)
  PROVE  FALSE
<1>0. Len(s) \in Nat /\ Len(t) \in Nat
  OBVIOUS
<1>1. i \in 1..Len(s) /\ (i > Len(t) \/ Before(s[i], t[i]))
  BY DEF Exceeds
<1>2. \A j \in 1..(i - 1) : j <= Len(t) /\ s[j] = t[j]
  BY DEF Exceeds
<1> DEFINE x == s[i]
           S == At(s, x)
           T == At(t, x)
<1>3. x \in Str
  BY <1>1
<1>4. Cardinality(S) = Cardinality(T)
  <2>1. x \in Range(s)
    BY <1>1, RangeOfList
  <2> QED
    BY <2>1 DEF SameOccurrences
<1>5. ASSUME NEW k \in T PROVE k \in 1..(i - 1)
  <2>1. k \in 1..Len(t) /\ t[k] = x
    BY DEF At
  <2> SUFFICES ASSUME ~(k < i) PROVE FALSE
    BY <1>0, <1>1, <2>1
  <2>2. i \in 1..Len(t) /\ Before(x, t[i])
    BY <1>0, <1>1, <2>1
  <2>3. i = k \/ t[i] = t[k] \/ Before(t[i], t[k])
    BY <1>1, <2>1, <2>2 DEF Ordered
  <2>4. t[i] \in Str
    BY <2>2
  <2>5. Before(x, x)
    <3>1. CASE t[i] = x
      BY <2>2, <3>1
    <3>2. CASE Before(t[i], x)
      BY <1>3, <2>2, <2>4, <3>2, BeforeTransitive
    <3> QED
      BY <2>1, <2>3, <3>1, <3>2
  <2> QED
    BY <1>3, <2>5, NotBeforeItself
<1>6. T \subseteq S /\ i \in S /\ i \notin T
  <2>1. \A k \in 1..(i - 1) : k \in 1..Len(s)
    BY <1>0, <1>1
  <2>2. \A k \in T : t[k] = x
    BY DEF At
  <2>3. ASSUME NEW k \in T PROVE k \in S
    BY <1>2, <1>5, <2>1, <2>2 DEF At
  <2>4. i \in S
    BY <1>1 DEF At
  <2>5. i \notin T
    BY <1>1, <1>5
  <2> QED
    BY <2>3, <2>4, <2>5
<1>7. IsFiniteSet(S)
  BY AtIsFinite
<1>8. S = T
  BY <1>4, <1>6, <1>7, FS_Subset
<1> QED
  BY <1>6, <1>8

(* Sorted lists with the same segments, as often, are the same.            *)
LEMMA OneOrder ==
  ASSUME NEW s \in Seq(Str), NEW t \in Seq(Str), Ordered(s), Ordered(t), SameOccurrences(s, t)
  PROVE  s = t
<1>0. Len(s) \in Nat /\ Len(t) \in Nat
  OBVIOUS
<1>1. SameOccurrences(t, s)
  BY DEF SameOccurrences
<1> DEFINE Agree(i) == i <= Len(s) /\ i <= Len(t) /\ s[i] = t[i]
           D == {i \in Nat \ {0} : (i <= Len(s) \/ i <= Len(t)) /\ ~Agree(i)}
<1>2. CASE D = {}
  <2>1. \A i \in Nat \ {0} : i <= Len(s) \/ i <= Len(t) => Agree(i)
    BY <1>2
  <2>2. Len(s) = Len(t)
    <3>1. Len(s) <= Len(t)
      BY <1>0, <2>1
    <3>2. Len(t) <= Len(s)
      BY <1>0, <2>1
    <3> QED
      BY <1>0, <3>1, <3>2
  <2>3. \A i \in 1..Len(s) : s[i] = t[i]
    BY <1>0, <2>1
  <2> QED
    BY <2>2, <2>3, SeqEqual
<1>3. CASE D # {}
  <2>1. D \subseteq Nat
    OBVIOUS
  <2>2. PICK i \in D : \A j \in D : i <= j
    <3> HIDE DEF D
    <3> QED
      BY <1>3, <2>1, Least
  <2>3. i \in Nat \ {0} /\ (i <= Len(s) \/ i <= Len(t)) /\ ~Agree(i)
    BY <2>2
  <2>4. \A j \in 1..(i - 1) : Agree(j)
    <3> SUFFICES ASSUME NEW j \in 1..(i - 1), ~Agree(j) PROVE FALSE
      OBVIOUS
    <3>1. j \in Nat \ {0} /\ (j <= Len(s) \/ j <= Len(t)) /\ ~(i <= j)
      BY <1>0, <2>3
    <3>2. j \in D
      BY <3>1
    <3> QED
      BY <2>2, <3>1, <3>2
  <2>5. CASE i > Len(t)
    <3>1. Exceeds(s, t, i)
      BY <1>0, <2>3, <2>4, <2>5 DEF Exceeds
    <3> QED
      BY <3>1, NoneExceeds
  <2>6. CASE i > Len(s)
    <3>1. Exceeds(t, s, i)
      BY <1>0, <2>3, <2>4, <2>6 DEF Exceeds
    <3> QED
      BY <1>1, <3>1, NoneExceeds
  <2>7. CASE i <= Len(s) /\ i <= Len(t)
    <3>1. i \in 1..Len(s) /\ i \in 1..Len(t) /\ s[i] # t[i]
      BY <2>3, <2>7
    <3>2. s[i] \in Str /\ t[i] \in Str
      BY <3>1
    <3>3. CASE Before(s[i], t[i])
      <4>1. Exceeds(s, t, i)
        BY <2>4, <3>1, <3>3 DEF Exceeds
      <4> QED
        BY <4>1, NoneExceeds
    <3>4. CASE Before(t[i], s[i])
      <4>1. Exceeds(t, s, i)
        BY <2>4, <3>1, <3>4 DEF Exceeds
      <4> QED
        BY <1>1, <4>1, NoneExceeds
    <3> QED
      BY <3>1, <3>2, <3>3, <3>4, BeforeTotal
  <2> QED
    BY <1>0, <2>3, <2>5, <2>6, <2>7
<1> QED
  BY <1>2, <1>3

LEMMA SameOccurrencesTransitive ==
  ASSUME NEW a, NEW b, NEW c, SameOccurrences(a, b), SameOccurrences(b, c)
  PROVE  SameOccurrences(a, c)
BY DEF SameOccurrences

LEMMA SameOccurrencesReversed ==
  ASSUME NEW a, NEW b, SameOccurrences(a, b)
  PROVE  SameOccurrences(b, a)
BY DEF SameOccurrences

-----------------------------------------------------------------------------
(* HKDF info bytes *)

(* The bytes of a label and a context, place by place.                     *)
LEMMA InfoBytes ==
  ASSUME NEW k \in Seq(Byte), NEW x \in Seq(Byte)
  PROVE  LET info == k \o <<Colon>> \o x
         IN /\ Len(info) = Len(k) + 1 + Len(x)
            /\ \A i \in 1 .. Len(k) : info[i] = k[i]
            /\ info[Len(k) + 1] = Colon
            /\ \A j \in 1 .. Len(x) : info[Len(k) + 1 + j] = x[j]
<1> DEFINE left == k \o <<Colon>>
           info == left \o x
<1>1. <<Colon>> \in Seq(Byte) /\ Len(<<Colon>>) = 1 /\ <<Colon>>[1] = Colon
  BY ByteAssumption
<1>2. Len(k) \in Nat /\ Len(x) \in Nat
  BY LenProperties, Zenon
<1>3. /\ left \in Seq(Byte) /\ Len(left) = Len(k) + 1
      /\ \A i \in 1 .. Len(k) + 1 : left[i] = IF i <= Len(k) THEN k[i] ELSE <<Colon>>[i - Len(k)]
  <2> DEFINE colon == <<Colon>>
  <2> HIDE DEF colon
  <2>1. colon \in Seq(Byte) /\ Len(colon) = 1
    BY <1>1 DEF colon
  <2>2. /\ k \o colon \in Seq(Byte) /\ Len(k \o colon) = Len(k) + Len(colon)
        /\ \A i \in 1 .. Len(k) + Len(colon) :
             (k \o colon)[i] = IF i <= Len(k) THEN k[i] ELSE colon[i - Len(k)]
    <3>1. k \o colon \in Seq(Byte)
      BY <2>1, ConcatProperties, Zenon
    <3>2. Len(k \o colon) = Len(k) + Len(colon)
      BY <2>1, ConcatProperties, Zenon
    <3>3. \A i \in 1 .. Len(k) + Len(colon) :
             (k \o colon)[i] = IF i <= Len(k) THEN k[i] ELSE colon[i - Len(k)]
      BY <2>1, ConcatProperties, Zenon
    <3> QED
      BY <3>1, <3>2, <3>3
  <2> QED
    BY <2>1, <2>2 DEF colon
<1>4. (Len(k) + 1) - Len(k) = 1 /\ Len(k) + 1 \in 1 .. Len(k) + 1 /\ ~(Len(k) + 1 <= Len(k))
  BY <1>2
<1>5. left[Len(k) + 1] = Colon
  BY <1>1, <1>3, <1>4
<1>6. \A i \in 1 .. Len(k) : left[i] = k[i]
  BY <1>2, <1>3
<1> HIDE DEF left
<1>7. /\ Len(info) = Len(left) + Len(x)
      /\ \A i \in 1 .. Len(left) + Len(x) :
           info[i] = IF i <= Len(left) THEN left[i] ELSE x[i - Len(left)]
  <2>1. left \in Seq(Byte)
    BY <1>3
  <2>2. Len(left \o x) = Len(left) + Len(x)
    BY <2>1, ConcatProperties, Zenon
  <2>3. \A i \in 1 .. Len(left) + Len(x) :
          (left \o x)[i] = IF i <= Len(left) THEN left[i] ELSE x[i - Len(left)]
    BY <2>1, ConcatProperties, Zenon
  <2> QED
    BY <2>2, <2>3, Zenon
<1> HIDE DEF info
<1>8. Len(info) = Len(k) + 1 + Len(x)
  BY <1>2, <1>3, <1>7
<1>9. \A i \in 1 .. Len(k) + 1 : info[i] = left[i]
  BY <1>2, <1>3, <1>7
<1>10. ASSUME NEW j \in 1 .. Len(x) PROVE info[Len(k) + 1 + j] = x[j]
  <2>1. /\ Len(k) + 1 + j \in 1 .. Len(left) + Len(x) /\ ~(Len(k) + 1 + j <= Len(left))
        /\ (Len(k) + 1 + j) - Len(left) = j
    BY <1>2, <1>3
  <2> QED
    BY <1>7, <2>1
<1>11. info[Len(k) + 1] = Colon /\ \A i \in 1 .. Len(k) : info[i] = k[i]
  BY <1>2, <1>5, <1>6, <1>9
<1> QED
  BY <1>8, <1>10, <1>11 DEF info, left

(* A label ends where the first colon is.                                  *)
LEMMA NoColonInside ==
  ASSUME NEW k \in Seq(Byte), Colon \notin Range(k), NEW i \in 1 .. Len(k)
  PROVE  k[i] # Colon
<1>1. i \in DOMAIN k
  BY LenProperties, Zenon
<1> QED
  BY <1>1 DEF Range

LEMMA LabelIsShortest ==
  ASSUME NEW k \in Seq(Byte), NEW l \in Seq(Byte), NEW x \in Seq(Byte), NEW y \in Seq(Byte),
         Colon \notin Range(k),
         k \o <<Colon>> \o x = l \o <<Colon>> \o y
  PROVE  Len(k) <= Len(l)
<1>1. Len(k) \in Nat /\ Len(l) \in Nat
  BY LenProperties, Zenon
<1>2. (l \o <<Colon>> \o y)[Len(l) + 1] = Colon
  BY InfoBytes
<1>3. \A i \in 1 .. Len(k) : (k \o <<Colon>> \o x)[i] = k[i]
  BY InfoBytes
<1>4. SUFFICES ASSUME Len(l) < Len(k) PROVE FALSE
  BY <1>1
<1>5. Len(l) + 1 \in 1 .. Len(k)
  BY <1>1, <1>4
<1>6. k[Len(l) + 1] = Colon
  BY <1>2, <1>3, <1>5
<1> QED
  BY <1>5, <1>6, NoColonInside

(* Sequences of one length that agree place by place are equal.            *)
LEMMA SameBytes ==
  ASSUME NEW s \in Seq(Byte), NEW t \in Seq(Byte), Len(s) = Len(t),
         \A i \in 1 .. Len(s) : s[i] = t[i]
  PROVE  s = t
BY SeqEqual, Zenon

(* Labels without a colon and contexts of any bytes, colons included, can  *)
(* be read off the info bytes: hkdf_expand_with_context hands HKDF another *)
(* info for every label and every context.                                 *)
THEOREM InfoNamesBoth ==
  ASSUME NEW k \in Seq(Byte), NEW l \in Seq(Byte), NEW x \in Seq(Byte), NEW y \in Seq(Byte),
         Colon \notin Range(k), Colon \notin Range(l), Info(k, x) = Info(l, y)
  PROVE  k = l /\ x = y
<1>1. /\ Len(k) \in Nat /\ Len(l) \in Nat /\ Len(x) \in Nat /\ Len(y) \in Nat
  BY LenProperties, Zenon
<1>2. CASE x = << >> /\ y = << >>
  BY <1>2 DEF Info
<1>3. ASSUME NEW u \in Seq(Byte), NEW v \in Seq(Byte), NEW z \in Seq(Byte),
             Colon \notin Range(u), u = v \o <<Colon>> \o z
      PROVE  FALSE
  <2>1. Len(u) = Len(v) + 1 + Len(z) /\ u[Len(v) + 1] = Colon
    BY <1>3, InfoBytes
  <2>2. Len(v) \in Nat /\ Len(z) \in Nat
    BY LenProperties, Zenon
  <2>3. Len(v) + 1 \in 1 .. Len(u)
    BY <2>1, <2>2
  <2> QED
    BY <1>3, <2>1, <2>3, NoColonInside
<1>4. CASE x = << >> /\ y # << >>
  <2>1. k = l \o <<Colon>> \o y
    BY <1>4 DEF Info
  <2> QED
    BY <1>3, <2>1
<1>5. CASE x # << >> /\ y = << >>
  <2>1. l = k \o <<Colon>> \o x
    BY <1>5 DEF Info
  <2> QED
    BY <1>3, <2>1
<1>6. CASE x # << >> /\ y # << >>
  <2> DEFINE info == k \o <<Colon>> \o x
             other == l \o <<Colon>> \o y
  <2>1. info = other
    BY <1>6 DEF Info
  <2>2. Len(k) = Len(l)
    <3>1. Len(k) <= Len(l)
      BY <2>1, LabelIsShortest
    <3>2. Len(l) <= Len(k)
      BY <2>1, LabelIsShortest
    <3> QED
      BY <1>1, <3>1, <3>2
  <2>3. /\ Len(info) = Len(k) + 1 + Len(x)
        /\ \A i \in 1 .. Len(k) : info[i] = k[i]
        /\ \A j \in 1 .. Len(x) : info[Len(k) + 1 + j] = x[j]
    BY InfoBytes
  <2>4. /\ Len(other) = Len(l) + 1 + Len(y)
        /\ \A i \in 1 .. Len(l) : other[i] = l[i]
        /\ \A j \in 1 .. Len(y) : other[Len(l) + 1 + j] = y[j]
    BY InfoBytes
  <2> HIDE DEF info, other
  <2>5. k = l
    BY <2>1, <2>2, <2>3, <2>4, SameBytes
  <2>6. Len(x) = Len(y)
    BY <1>1, <2>1, <2>2, <2>3, <2>4
  <2>7. \A j \in 1 .. Len(x) : x[j] = y[j]
    BY <2>1, <2>2, <2>3, <2>4, <2>6
  <2> QED
    BY <2>5, <2>6, <2>7, SameBytes
<1> QED
  BY <1>2, <1>4, <1>5, <1>6

-----------------------------------------------------------------------------
(* Joined segments can be told apart *)

Linked(s, t) == s \o <<Colon>> \o t

LEMMA LinkedIsString ==
  ASSUME NEW s \in Str, NEW t \in Str
  PROVE  Linked(s, t) \in Str /\ Linked(s, t) # << >>
<1>1. <<Colon>> \in Seq(Byte) /\ Len(<<Colon>>) = 1
  BY ByteAssumption
<1>2. s \in Seq(Byte) /\ t \in Seq(Byte)
  BY DEF Str
<1> DEFINE colon == <<Colon>>
<1> HIDE DEF colon
<1>3. s \o colon \in Seq(Byte) /\ Len(s \o colon) = Len(s) + Len(colon)
  BY <1>1, <1>2, ConcatProperties, Zenon DEF colon
<1>4. /\ (s \o colon) \o t \in Seq(Byte)
      /\ Len((s \o colon) \o t) = Len(s \o colon) + Len(t)
  BY <1>2, <1>3, ConcatProperties, Zenon
<1>5. Len((s \o colon) \o t) # 0
  <2>1. Len(s) \in Nat /\ Len(t) \in Nat /\ Len(colon) = 1
    BY <1>1, <1>2 DEF colon
  <2> QED
    BY <1>3, <1>4, <2>1
<1>6. (s \o colon) \o t # << >>
  <2> SUFFICES ASSUME (s \o colon) \o t = << >> PROVE FALSE
    OBVIOUS
  <2>1. Len(<< >>) = 0
    OBVIOUS
  <2> QED
    BY <1>5, <2>1, Zenon
<1> QED
  BY <1>4, <1>6 DEF Linked, colon, Str

(* The segments joined so far.                                             *)
Joins(list, f) ==
    /\ f \in [0..Len(list) -> Str]
    /\ f[0] = << >>
    /\ \A i \in 1..Len(list) :
         f[i] = IF i = 1 THEN list[1] ELSE Linked(f[i - 1], list[i])

JoinOf(list) == \E f : Joins(list, f) /\ Join(list) = f[Len(list)]

LEMMA JoinIsJoined ==
  ASSUME NEW list \in Seq(Str)
  PROVE  JoinOf(list)
<1>0. PICK n \in Nat : n = Len(list)
  OBVIOUS
<1> DEFINE step == [i \in 1..n |-> [s \in Str |-> IF i = 1 THEN list[1] ELSE Linked(s, list[i])]]
<1>1. \A i \in 1..n : list[i] \in Str
  BY <1>0
<1>2. ASSUME NEW i \in 1..n PROVE [s \in Str |-> IF i = 1 THEN list[1] ELSE Linked(s, list[i])] \in [Str -> Str]
  <2>1. \A s \in Str : Linked(s, list[i]) \in Str
    BY <1>1, LinkedIsString
  <2>2. 1 \in 1..n
    OBVIOUS
  <2>3. list[1] \in Str
    BY <1>1, <2>2
  <2> QED
    BY <2>1, <2>3
<1>3. step \in [1..n -> [Str -> Str]]
  BY <1>2
<1>4. \A i \in 1..n, s \in Str : step[i][s] = IF i = 1 THEN list[1] ELSE Linked(s, list[i])
  OBVIOUS
<1> HIDE DEF step
<1>5. << >> \in Str
  BY DEF Str
<1>6. Recursive(Str, << >>, n, step)
  BY <1>3, <1>5, Recursion
<1>7. PICK f \in [0..n -> Str] : f[0] = << >> /\ \A i \in 1..n : f[i] = step[i][f[i - 1]]
  BY <1>6 DEF Recursive
<1>8. \A i \in 1..n : f[i] = IF i = 1 THEN list[1] ELSE Linked(f[i - 1], list[i])
  <2> SUFFICES ASSUME NEW i \in 1..n
               PROVE  f[i] = IF i = 1 THEN list[1] ELSE Linked(f[i - 1], list[i])
    OBVIOUS
  <2>1. f[i - 1] \in Str
    BY <1>7
  <2> QED
    BY <1>4, <1>7, <2>1
<1>9. Joins(list, f)
  BY <1>0, <1>7, <1>8 DEF Joins
<1> DEFINE g == [i \in 0..n |-> CASE i = 0 -> << >>
                                  [] i = 1 -> list[1]
                                  [] OTHER -> f[i - 1] \o <<Colon>> \o list[i]]
<1>10. f = g
  <2>1. \A i \in 0..n : f[i] = CASE i = 0 -> << >>
                                  [] i = 1 -> list[1]
                                  [] OTHER -> f[i - 1] \o <<Colon>> \o list[i]
    <3> SUFFICES ASSUME NEW i \in 0..n
                 PROVE  f[i] = CASE i = 0 -> << >>
                                  [] i = 1 -> list[1]
                                  [] OTHER -> f[i - 1] \o <<Colon>> \o list[i]
      OBVIOUS
    <3>1. CASE i = 0
      BY <1>7, <3>1
    <3>2. CASE i = 1
      BY <1>8, <3>2
    <3>3. CASE i # 0 /\ i # 1
      <4>1. f[i] = Linked(f[i - 1], list[i])
        BY <1>8, <3>3
      <4> QED
        BY <3>3, <4>1 DEF Linked
    <3> QED
      BY <3>1, <3>2, <3>3
  <2> QED
    BY <1>7, <2>1
<1> DEFINE Is(h) == h = [i \in 0..n |-> CASE i = 0 -> << >>
                                  [] i = 1 -> list[1]
                                  [] OTHER -> h[i - 1] \o <<Colon>> \o list[i]]
           joined == CHOOSE h : Is(h)
<1>11. Is(f)
  BY <1>10
<1>12. Is(joined)
  <2> HIDE DEF Is
  <2> QED
    BY <1>11
<1>13. Join(list) = joined[n]
  BY <1>0 DEF Join
<1> HIDE DEF joined
<1> DEFINE T == {i \in 0..n : f[i] = joined[i]}
<1>14. \A i \in 0..n : joined[i] = CASE i = 0 -> << >>
                                      [] i = 1 -> list[1]
                                      [] OTHER -> Linked(joined[i - 1], list[i])
  BY <1>12 DEF Linked
<1>15. 0 \in T
  <2>1. joined[0] = << >>
    BY <1>14
  <2> QED
    BY <1>7, <2>1
<1>16. ASSUME NEW i \in 1..n, i - 1 \in T PROVE i \in T
  <2>1. CASE i = 1
    <3>1. f[i] = list[1] /\ joined[i] = list[1]
      BY <1>8, <1>14, <2>1
    <3> QED
      BY <3>1
  <2>2. CASE i # 1
    <3>1. f[i - 1] = joined[i - 1]
      BY <1>16
    <3>2. f[i] = Linked(f[i - 1], list[i])
      BY <1>8, <2>2
    <3>3. joined[i] = Linked(joined[i - 1], list[i])
      BY <1>14, <2>2
    <3> QED
      BY <3>1, <3>2, <3>3
  <2> QED
    BY <2>1, <2>2
<1> HIDE DEF T
<1>17. 0..n \subseteq T
  BY <1>15, <1>16, InductUpTo
<1>18. n \in T
  BY <1>17
<1>19. Join(list) = f[Len(list)]
  BY <1>0, <1>13, <1>18 DEF T
<1> QED
  BY <1>9, <1>19 DEF JoinOf

LEMMA JoinIsString ==
  ASSUME NEW list \in Seq(Str)
  PROVE  Join(list) \in Str
<1>1. PICK f : Joins(list, f) /\ Join(list) = f[Len(list)]
  BY JoinIsJoined DEF JoinOf
<1>2. f \in [0..Len(list) -> Str] /\ Len(list) \in 0..Len(list)
  BY <1>1 DEF Joins
<1> QED
  BY <1>1, <1>2

LEMMA JoinOfNone ==
  Join(<< >>) = << >>
<1>1. << >> \in Seq(Str) /\ Len(<< >>) = 0
  OBVIOUS
<1>2. PICK f : Joins(<< >>, f) /\ Join(<< >>) = f[Len(<< >>)]
  BY <1>1, JoinIsJoined DEF JoinOf
<1> QED
  BY <1>1, <1>2 DEF Joins

JoinGrows(list, s) ==
    Join(Append(list, s)) = IF list = << >> THEN s ELSE Linked(Join(list), s)

LEMMA JoinOfMore ==
  ASSUME NEW list \in Seq(Str), NEW s \in Str
  PROVE  JoinGrows(list, s)
<1>0. PICK n \in Nat : n = Len(list)
  OBVIOUS
<1> DEFINE more == Append(list, s)
<1>1. more \in Seq(Str) /\ Len(more) = n + 1 /\ more[n + 1] = s /\ \A i \in 1..n : more[i] = list[i]
  BY <1>0
<1> HIDE DEF more
<1>2. PICK f : Joins(list, f) /\ Join(list) = f[Len(list)]
  BY JoinIsJoined DEF JoinOf
<1>3. PICK g : Joins(more, g) /\ Join(more) = g[Len(more)]
  BY <1>1, JoinIsJoined DEF JoinOf
<1>4. f[0] = << >> /\ \A i \in 1..n : f[i] = IF i = 1 THEN list[1] ELSE Linked(f[i - 1], list[i])
  BY <1>0, <1>2 DEF Joins
<1>5. g[0] = << >> /\ \A i \in 1..n + 1 : g[i] = IF i = 1 THEN more[1] ELSE Linked(g[i - 1], more[i])
  BY <1>1, <1>3 DEF Joins
<1> DEFINE T == {i \in 0..n : f[i] = g[i]}
<1>6. 0 \in T
  BY <1>4, <1>5
<1>7. ASSUME NEW i \in 1..n, i - 1 \in T PROVE i \in T
  <2>1. f[i - 1] = g[i - 1] /\ more[i] = list[i] /\ i \in 1..n + 1
    BY <1>1, <1>7
  <2>2. CASE i = 1
    BY <1>4, <1>5, <2>1, <2>2
  <2>3. CASE i # 1
    <3>1. f[i] = Linked(f[i - 1], list[i])
      BY <1>4, <2>3
    <3>2. g[i] = Linked(g[i - 1], more[i])
      BY <1>5, <2>1, <2>3
    <3> QED
      BY <2>1, <3>1, <3>2
  <2> QED
    BY <2>2, <2>3
<1> HIDE DEF T
<1>8. 0..n \subseteq T
  BY <1>6, <1>7, InductUpTo
<1>9. f[n] = g[n]
  BY <1>8 DEF T
<1>10. CASE n = 0
  <2>1. list = << >>
    BY <1>0, <1>10, EmptySeq
  <2>2. g[1] = more[1] /\ more[1] = s
    BY <1>1, <1>5, <1>10
  <2> QED
    BY <1>1, <1>3, <1>10, <2>1, <2>2 DEF JoinGrows, more
<1>11. CASE n # 0
  <2>1. list # << >>
    BY <1>0, <1>11
  <2>2. n + 1 # 1 /\ n + 1 \in 1..n + 1 /\ (n + 1) - 1 = n
    BY <1>11
  <2>3. g[n + 1] = Linked(g[n], more[n + 1])
    BY <1>5, <2>2
  <2> QED
    BY <1>0, <1>1, <1>2, <1>3, <1>9, <2>1, <2>3 DEF JoinGrows, more
<1> QED
  BY <1>10, <1>11

HasColon(s) == \E i \in 1..Len(s) : s[i] = Colon

LEMMA LinkHasColon ==
  ASSUME NEW s \in Str, NEW t \in Str
  PROVE  HasColon(Linked(s, t))
<1>1. Len(s) \in Nat /\ Len(t) \in Nat
  BY DEF Str
<1>2. Len(Linked(s, t)) = Len(s) + 1 + Len(t) /\ Linked(s, t)[Len(s) + 1] = Colon
  BY InfoBytes DEF Linked, Str
<1> QED
  BY <1>1, <1>2 DEF HasColon

(* A well-formed segment is not empty and has no colon.                    *)
IsPlain(s) == s # << >> /\ ~HasColon(s)

LEMMA TailsAlike ==
  ASSUME NEW s \in Str, NEW t \in Str, NEW x \in Str, NEW y \in Str, ~HasColon(y),
         Linked(s, x) = Linked(t, y)
  PROVE  Len(y) <= Len(x)
<1>0. Len(s) \in Nat /\ Len(t) \in Nat /\ Len(x) \in Nat /\ Len(y) \in Nat
  BY DEF Str
<1>1. Len(Linked(s, x)) = Len(s) + 1 + Len(x) /\ Linked(s, x)[Len(s) + 1] = Colon
  BY InfoBytes DEF Linked, Str
<1>2. /\ Len(Linked(t, y)) = Len(t) + 1 + Len(y)
      /\ \A j \in 1..Len(y) : Linked(t, y)[Len(t) + 1 + j] = y[j]
  BY InfoBytes DEF Linked, Str
<1>3. Len(s) + 1 + Len(x) = Len(t) + 1 + Len(y)
  BY <1>1, <1>2
<1> SUFFICES ASSUME Len(x) < Len(y) PROVE FALSE
  BY <1>0
<1>j. Len(y) - Len(x) \in 1..Len(y)
  BY <1>0
<1>4. PICK j \in 1..Len(y) : j = Len(y) - Len(x)
  BY <1>j
<1>5. Len(t) + 1 + j = Len(s) + 1
  BY <1>0, <1>3, <1>4
<1>6. y[j] = Colon
  BY <1>1, <1>2, <1>5
<1> QED
  BY <1>6 DEF HasColon

LEMMA LinkTold ==
  ASSUME NEW s \in Str, NEW t \in Str, NEW x \in Str, NEW y \in Str,
         ~HasColon(x), ~HasColon(y), Linked(s, x) = Linked(t, y)
  PROVE  s = t /\ x = y
<1>0. Len(s) \in Nat /\ Len(t) \in Nat /\ Len(x) \in Nat /\ Len(y) \in Nat
  BY DEF Str
<1>1. Len(x) = Len(y)
  <2>1. Len(x) <= Len(y) /\ Len(y) <= Len(x)
    BY TailsAlike
  <2> QED
    BY <1>0, <2>1
<1>2. /\ Len(Linked(s, x)) = Len(s) + 1 + Len(x)
      /\ \A i \in 1..Len(s) : Linked(s, x)[i] = s[i]
      /\ \A j \in 1..Len(x) : Linked(s, x)[Len(s) + 1 + j] = x[j]
  BY InfoBytes DEF Linked, Str
<1>3. /\ Len(Linked(t, y)) = Len(t) + 1 + Len(y)
      /\ \A i \in 1..Len(t) : Linked(t, y)[i] = t[i]
      /\ \A j \in 1..Len(y) : Linked(t, y)[Len(t) + 1 + j] = y[j]
  BY InfoBytes DEF Linked, Str
<1>4. Len(s) = Len(t)
  BY <1>0, <1>1, <1>2, <1>3
<1>5. \A i \in 1..Len(s) : s[i] = t[i]
  BY <1>2, <1>3, <1>4
<1>6. \A j \in 1..Len(x) : x[j] = y[j]
  BY <1>1, <1>2, <1>3, <1>4
<1>7. s = t
  BY <1>4, <1>5, SameBytes DEF Str
<1>8. x = y
  BY <1>1, <1>6, SameBytes DEF Str
<1> QED
  BY <1>7, <1>8

WellFormedList(list) == \A i \in 1..Len(list) : IsPlain(list[i])

LEMMA WellFormedMeans ==
  ASSUME NEW list \in Seq(Str)
  PROVE  WellFormed(list) <=> WellFormedList(list)
<1>1. \A s \in Str : Colon \notin Range(s) <=> ~HasColon(s)
  <2> SUFFICES ASSUME NEW s \in Str PROVE Colon \notin Range(s) <=> ~HasColon(s)
    OBVIOUS
  <2>1. DOMAIN s = 1..Len(s)
    BY DEF Str
  <2> QED
    BY <2>1, Zenon DEF Range, HasColon
<1>2. \A i \in 1..Len(list) : list[i] \in Str
  OBVIOUS
<1>3. \A x : x \in Range(list) <=> \E i \in 1..Len(list) : list[i] = x
  BY RangeOfList
<1> QED
  BY <1>1, <1>2, <1>3 DEF WellFormed, WellFormedList, IsPlain

JoinsApart(a, b) == Join(a) = Join(b) => a = b

LEMMA WellFormedFront ==
  ASSUME NEW list \in Seq(Str), NEW s \in Str, WellFormedList(Append(list, s))
  PROVE  WellFormedList(list) /\ IsPlain(s)
<1> DEFINE more == Append(list, s)
<1>1. Len(more) = Len(list) + 1 /\ more[Len(list) + 1] = s /\ \A i \in 1..Len(list) : more[i] = list[i]
  OBVIOUS
<1>2. Len(list) \in Nat /\ \A i \in 1..Len(more) : IsPlain(more[i])
  BY DEF WellFormedList
<1> HIDE DEF more
<1>3. Len(list) + 1 \in 1..Len(more) /\ \A i \in 1..Len(list) : i \in 1..Len(more)
  BY <1>1, <1>2
<1>4. IsPlain(s)
  BY <1>1, <1>2, <1>3, Zenon
<1>5. \A i \in 1..Len(list) : IsPlain(list[i])
  BY <1>1, <1>2, <1>3, Zenon
<1> QED
  BY <1>4, <1>5, Zenon DEF WellFormedList

(* What a list with a last segment is joined to is not empty, and has a    *)
(* colon in it unless that segment is the only one.                        *)
LEMMA JoinOfSome ==
  ASSUME NEW list \in Seq(Str), NEW s \in Str, IsPlain(s)
  PROVE  /\ Join(Append(list, s)) # << >>
         /\ HasColon(Join(Append(list, s))) <=> list # << >>
<1>1. JoinGrows(list, s)
  BY JoinOfMore
<1>2. Join(list) \in Str
  BY JoinIsString
<1>3. CASE list = << >>
  <2>1. Join(Append(list, s)) = s
    BY <1>1, <1>3, Zenon DEF JoinGrows
  <2>2. s # << >> /\ ~HasColon(s)
    BY DEF IsPlain
  <2> QED
    BY <1>3, <2>1, <2>2
<1>4. CASE list # << >>
  <2>1. Join(Append(list, s)) = Linked(Join(list), s)
    BY <1>1, <1>4, Zenon DEF JoinGrows
  <2>2. Linked(Join(list), s) # << >> /\ HasColon(Linked(Join(list), s))
    BY <1>2, LinkedIsString, LinkHasColon
  <2> QED
    BY <1>4, <2>1, <2>2, Zenon
<1> QED
  BY <1>3, <1>4

LEMMA JoinInjective ==
  ASSUME NEW a \in Seq(Str), NEW b \in Seq(Str), WellFormedList(a), WellFormedList(b)
  PROVE  JoinsApart(a, b)
<1> DEFINE T == {n \in Nat : \A x, y \in Seq(Str) :
                   Len(x) = n /\ WellFormedList(x) /\ WellFormedList(y) => JoinsApart(x, y)}
<1>e. ASSUME NEW y \in Seq(Str), WellFormedList(y), y # << >>, Join(y) = << >>
      PROVE  FALSE
  <2>1. PICK d \in Seq(Str), t \in Str : y = Append(d, t)
    BY <1>e, SequenceEmptyOrAppend
  <2>2. IsPlain(t)
    BY <1>e, <2>1, WellFormedFront
  <2>3. Join(Append(d, t)) # << >>
    BY <2>2, JoinOfSome
  <2> QED
    BY <1>e, <2>1, <2>3
<1>1. 0 \in T
  <2> SUFFICES ASSUME NEW x \in Seq(Str), NEW y \in Seq(Str), Len(x) = 0, WellFormedList(y),
                      Join(x) = Join(y)
               PROVE  x = y
    BY DEF JoinsApart
  <2>1. x = << >>
    BY EmptySeq
  <2>2. Join(y) = << >>
    BY <2>1, JoinOfNone
  <2> QED
    BY <1>e, <2>1, <2>2
<1>2. ASSUME NEW n \in Nat, n \in T PROVE n + 1 \in T
  <2> SUFFICES ASSUME NEW x \in Seq(Str), NEW y \in Seq(Str), Len(x) = n + 1,
                      WellFormedList(x), WellFormedList(y), Join(x) = Join(y)
               PROVE  x = y
    BY DEF JoinsApart
  <2>1. x # << >>
    OBVIOUS
  <2>2. y # << >>
    BY <1>e, <2>1, JoinOfNone
  <2>3. PICK c \in Seq(Str), s \in Str : x = Append(c, s)
    BY <2>1, SequenceEmptyOrAppend
  <2>4. PICK d \in Seq(Str), t \in Str : y = Append(d, t)
    BY <2>2, SequenceEmptyOrAppend
  <2>5. Len(c) = n
    BY <2>3
  <2>6. WellFormedList(c) /\ WellFormedList(d) /\ IsPlain(s) /\ IsPlain(t)
    BY <2>3, <2>4, WellFormedFront
  <2>7. JoinGrows(c, s) /\ JoinGrows(d, t)
    BY JoinOfMore
  <2>8. c = << >> <=> d = << >>
    <3>1. HasColon(Join(x)) <=> c # << >>
      BY <2>3, <2>6, JoinOfSome
    <3>2. HasColon(Join(y)) <=> d # << >>
      BY <2>4, <2>6, JoinOfSome
    <3> QED
      BY <3>1, <3>2, Zenon
  <2>9. CASE c = << >>
    <3>1. Join(x) = s /\ Join(y) = t
      BY <2>3, <2>4, <2>7, <2>8, <2>9, Zenon DEF JoinGrows
    <3> QED
      BY <2>3, <2>4, <2>8, <2>9, <3>1, Zenon
  <2>10. CASE c # << >>
    <3>1. Join(x) = Linked(Join(c), s) /\ Join(y) = Linked(Join(d), t)
      BY <2>3, <2>4, <2>7, <2>8, <2>10, Zenon DEF JoinGrows
    <3>2. Join(c) \in Str /\ Join(d) \in Str
      BY JoinIsString
    <3>3. ~HasColon(s) /\ ~HasColon(t)
      BY <2>6 DEF IsPlain
    <3>4. Linked(Join(c), s) = Linked(Join(d), t)
      BY <3>1
    <3>5. Join(c) = Join(d) /\ s = t
      BY <3>2, <3>3, <3>4, LinkTold
    <3>6. JoinsApart(c, d)
      BY <1>2, <2>5, <2>6
    <3>7. c = d
      BY <3>5, <3>6 DEF JoinsApart
    <3> QED
      BY <2>3, <2>4, <3>5, <3>7
  <2> QED
    BY <2>9, <2>10
<1> HIDE DEF T
<1>3. Nat \subseteq T
  BY <1>1, <1>2, Induct
<1>4. Len(a) \in T
  BY <1>3
<1> QED
  BY <1>4 DEF T

(* What build_vault_context returns is a string of bytes.                  *)
LEMMA ContextIsString ==
  ASSUME NEW list \in Seq(Str)
  PROVE  BuildVaultContext(list) \in Seq(Byte)
<1>1. Sorted(list) \in Seq(Str)
  BY SortedIsOrdered
<1>2. Join(Sorted(list)) \in Str
  BY <1>1, JoinIsString
<1> QED
  BY <1>2 DEF BuildVaultContext, Str

NamesVault(a, b) ==
    /\ Occurrences(a) = Occurrences(b) => BuildVaultContext(a) = BuildVaultContext(b)
    /\ WellFormed(a) /\ WellFormed(b) /\ BuildVaultContext(a) = BuildVaultContext(b)
         => Occurrences(a) = Occurrences(b)

LEMMA SortedIsWellFormed ==
  ASSUME NEW list \in Seq(Str), WellFormed(list)
  PROVE  WellFormedList(Sorted(list))
<1>1. Sorted(list) \in Seq(Str)
  BY SortedIsOrdered
<1>2. Range(Sorted(list)) = Range(list)
  BY SortingKeeps DEF SameOccurrences
<1>3. WellFormed(Sorted(list))
  BY <1>2, Zenon DEF WellFormed
<1> QED
  BY <1>1, <1>3, WellFormedMeans

LEMMA OneContext ==
  ASSUME NEW a \in Seq(Str), NEW b \in Seq(Str)
  PROVE  NamesVault(a, b)
<1>1. /\ Sorted(a) \in Seq(Str) /\ Ordered(Sorted(a)) /\ SameOccurrences(Sorted(a), a)
      /\ Sorted(b) \in Seq(Str) /\ Ordered(Sorted(b)) /\ SameOccurrences(Sorted(b), b)
  BY SortedIsOrdered, SortingKeeps
<1>2. ASSUME Occurrences(a) = Occurrences(b)
      PROVE  BuildVaultContext(a) = BuildVaultContext(b)
  <2>1. SameOccurrences(a, b)
    BY <1>2, OccurrencesMean
  <2>2. SameOccurrences(Sorted(a), b)
    BY <1>1, <2>1, SameOccurrencesTransitive
  <2>3. SameOccurrences(b, Sorted(b))
    BY <1>1, SameOccurrencesReversed
  <2>4. SameOccurrences(Sorted(a), Sorted(b))
    BY <2>2, <2>3, SameOccurrencesTransitive
  <2>5. Sorted(a) = Sorted(b)
    BY <1>1, <2>4, OneOrder
  <2> QED
    BY <2>5, Zenon DEF BuildVaultContext
<1>3. ASSUME WellFormed(a), WellFormed(b), BuildVaultContext(a) = BuildVaultContext(b)
      PROVE  Occurrences(a) = Occurrences(b)
  <2>1. WellFormedList(Sorted(a)) /\ WellFormedList(Sorted(b))
    BY <1>3, SortedIsWellFormed
  <2>2. JoinsApart(Sorted(a), Sorted(b))
    BY <1>1, <2>1, JoinInjective
  <2>3. Sorted(a) = Sorted(b)
    BY <1>3, <2>2, Zenon DEF JoinsApart, BuildVaultContext
  <2>4. SameOccurrences(a, Sorted(b))
    BY <1>1, <2>3, SameOccurrencesReversed
  <2>5. SameOccurrences(a, b)
    BY <1>1, <2>4, SameOccurrencesTransitive
  <2> QED
    BY <2>5, OccurrencesMean
<1> QED
  BY <1>2, <1>3 DEF NamesVault

-----------------------------------------------------------------------------
(* Vaults *)

(* Lists of segments are lists of strings.                                 *)
SegmentsOK == segments \in [Caller -> Seq(Seq(Byte))]

LEMMA SegmentsAreStrings == Segment \subseteq Seq(Byte)
BY DEF Segment, BoundedSeq, SeqOf

LEMMA SegmentsInit == ContextInit => SegmentsOK
BY DEF ContextInit, SegmentsOK

LEMMA SegmentsStep == SegmentsOK /\ [ContextNext]_segments => SegmentsOK'
<1> SUFFICES ASSUME SegmentsOK, [ContextNext]_segments PROVE SegmentsOK'
  OBVIOUS
<1>1. ASSUME NEW c \in Caller, NEW s \in Segment, AddSegment(c, s) PROVE SegmentsOK'
  <2>1. s \in Seq(Byte) /\ segments[c] \in Seq(Seq(Byte))
    BY SegmentsAreStrings DEF SegmentsOK
  <2>2. Append(segments[c], s) \in Seq(Seq(Byte))
    BY <2>1, AppendProperties
  <2>3. segments' = [segments EXCEPT ![c] = Append(segments[c], s)]
    BY <1>1 DEF AddSegment
  <2> QED
    BY <2>2, <2>3 DEF SegmentsOK
<1>2. ASSUME NEW c \in Caller, StartOver(c) PROVE SegmentsOK'
  <2>1. << >> \in Seq(Seq(Byte))
    OBVIOUS
  <2> QED
    BY <1>2, <2>1 DEF StartOver, SegmentsOK
<1>3. CASE UNCHANGED segments
  BY <1>3 DEF SegmentsOK
<1> QED
  BY <1>1, <1>2, <1>3 DEF ContextNext

THEOREM ContextTypes == ContextSpec => []SegmentsOK
BY SegmentsInit, SegmentsStep, PTL DEF ContextSpec

(* No two key streams of unlike labels or contexts share their info bytes, *)
(* those of the personal wallet included, for segments of any length.      *)
THEOREM StreamsApart == ContextSpec => []StreamsNeverCollide
<1>1. SegmentsOK => StreamsNeverCollide
  <2> SUFFICES ASSUME SegmentsOK, NEW c \in Caller, NEW d \in Caller,
                      NEW k \in Label, NEW l \in Label,
                      Info(k, BuildVaultContext(segments[c]))
                        = Info(l, BuildVaultContext(segments[d]))
               PROVE  /\ k = l
                      /\ BuildVaultContext(segments[c]) = BuildVaultContext(segments[d])
    BY DEF StreamsNeverCollide
  <2>1. segments[c] \in Seq(Str) /\ segments[d] \in Seq(Str)
    BY DEF SegmentsOK, Str
  <2>2. /\ BuildVaultContext(segments[c]) \in Seq(Byte)
        /\ BuildVaultContext(segments[d]) \in Seq(Byte)
    BY <2>1, ContextIsString
  <2>3. /\ k \in Seq(Byte) /\ l \in Seq(Byte) /\ Colon \notin Range(k) /\ Colon \notin Range(l)
    BY LabelAssumption
  <2> QED
    BY <2>2, <2>3, InfoNamesBoth
<1> QED
  BY <1>1, ContextTypes, PTL

(* Two vaults have one context just when their segments are the same, as   *)
(* often, in whatever order they were collected - if no segment is empty   *)
(* or has a colon (build_vault_context): for segments of any length and    *)
(* vaults of any number of segments.                                       *)
THEOREM ContextsName == ContextSpec => []ContextNamesVault
<1>1. SegmentsOK => ContextNamesVault
  <2> SUFFICES ASSUME SegmentsOK, NEW c \in Caller, NEW d \in Caller
               PROVE  NamesVault(segments[c], segments[d])
    BY DEF ContextNamesVault, NamesVault
  <2>1. segments[c] \in Seq(Str) /\ segments[d] \in Seq(Str)
    BY DEF SegmentsOK, Str
  <2> QED
    BY <2>1, OneContext
<1> QED
  BY <1>1, ContextTypes, PTL
=============================================================================
