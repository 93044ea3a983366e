--------------------------- MODULE Envelope_proof ---------------------------
(***************************************************************************)
(* Proofs about Envelope, for any wallets and credentials, every choice of *)
(* formats and any number of envelopes.                                    *)
(***************************************************************************)
EXTENDS Envelope, TLAPS, SequenceTheorems

-----------------------------------------------------------------------------
(* Keys *)

LEMMA Seeds ==
  ASSUME NEW r
  PROVE  XSeed(r) = <<"hkdf-material", r, "x25519">> /\ KemSeed(r) = <<"hkdf-material", r, "xkem">>
BY DEF XSeed, KemSeed, MaterialSeeds, Chain, CurveOf

(* Key pairs and wallets are one to one.                                   *)
LEMMA KeysNameWallets ==
  ASSUME NEW q, NEW r
  PROVE  /\ XPub(XSeed(q)) = XPub(XSeed(r)) => q = r
         /\ KemPub(KemSeed(q)) = KemPub(KemSeed(r)) => q = r
BY Seeds DEF XPub, KemPub, PublicKey

(* An ephemeral seed is no wallet's.                                       *)
Ephemeral(eph) == \A r : XPub(eph) # XPub(XSeed(r))

LEMMA EphemeralSeeds ==
  /\ \A i : Ephemeral(Random(i, "ephemeral"))
  /\ \A seed64 : Ephemeral(Expand(seed64, "eph-x25519"))
BY Seeds DEF Ephemeral, Random, Expand, XPub, PublicKey

(* Two Diffie-Hellman secrets with ephemerals meet only for the same       *)
(* ephemeral and the same wallet.                                          *)
LEMMA SharedSecret ==
  ASSUME NEW e, NEW f, NEW q, NEW r, Ephemeral(e), Ephemeral(f)
  PROVE  DH(e, XPub(XSeed(q))) = DH(XSeed(r), XPub(f))
           <=> XPub(e) = XPub(f) /\ XPub(XSeed(q)) = XPub(XSeed(r))
<1>1. XPub(e) # XPub(XSeed(r)) /\ XPub(e) # XPub(XSeed(q)) /\ XPub(f) # XPub(XSeed(q))
  BY DEF Ephemeral
<1> QED
  BY <1>1 DEF DH

LEMMA KemSecret ==
  ASSUME NEW q, NEW r, NEW rand, NEW ek, NEW other
  PROVE  /\ Decapsulate(KemSeed(r), Encapsulate(ek, rand).ct) = Encapsulate(ek, other).ss
              <=> ek = KemPub(KemSeed(r)) /\ rand = other
         /\ Encapsulate(ek, rand).ct = Encapsulate(q, other).ct <=> ek = q /\ rand = other
<1>1. /\ Encapsulate(ek, rand).ct = <<"kem-ct", ek, rand>>
      /\ Encapsulate(ek, other).ss = <<"kem-ss", ek, other>>
      /\ Encapsulate(q, other).ct = <<"kem-ct", q, other>>
  BY DEF Encapsulate
<1> QED
  BY <1>1 DEF Decapsulate

(* A v2 seed says whose wallet, which nonce and which recipient it is for. *)
LEMMA SameSeed64 ==
  ASSUME NEW q, NEW r, NEW m, NEW n, NEW x, NEW y, NEW k, NEW l
  PROVE  Seed64(WrapMaster(q), m, XPub(XSeed(x)), KemPub(KemSeed(k)))
           = Seed64(WrapMaster(r), n, XPub(XSeed(y)), KemPub(KemSeed(l)))
         <=> q = r /\ m = n /\ x = y /\ k = l
<1>1. WrapMaster(q) = WrapMaster(r) <=> q = r
  BY Seeds DEF WrapMaster
<1>2. XPub(XSeed(x)) = XPub(XSeed(y)) <=> x = y
  BY KeysNameWallets, Zenon
<1>3. KemPub(KemSeed(k)) = KemPub(KemSeed(l)) <=> k = l
  BY KeysNameWallets, Zenon
<1> QED
  BY <1>1, <1>2, <1>3 DEF Seed64

(* Under one nonce and for one recipient, a wrap names who derived it.     *)
LEMMA SameWrap ==
  ASSUME NEW q, NEW r, NEW n, NEW x, NEW k
  PROVE  RegeneratedWrap(q, n, XPub(XSeed(x)), KemPub(KemSeed(k)))
           = RegeneratedWrap(r, n, XPub(XSeed(x)), KemPub(KemSeed(k)))
         <=> q = r
<1> DEFINE s(o) == Seed64(WrapMaster(o), n, XPub(XSeed(x)), KemPub(KemSeed(k)))
           made(o) == RegeneratedWrap(o, n, XPub(XSeed(x)), KemPub(KemSeed(k)))
<1>1. s(q) = s(r) <=> q = r
  BY SameSeed64
<1>2. made(q).iv = Expand(s(q), "wrap-iv") /\ made(r).iv = Expand(s(r), "wrap-iv")
  BY DEF RegeneratedWrap, WrapV2
<1> HIDE DEF s, made
<1>3. Expand(s(q), "wrap-iv") = Expand(s(r), "wrap-iv") => s(q) = s(r)
  BY DEF Expand
<1>4. made(q) = made(r) <=> q = r
  BY <1>1, <1>2, <1>3
<1> QED
  BY <1>4 DEF made

-----------------------------------------------------------------------------
(* What opens what *)

LEMMA LegacyOpens ==
  ASSUME NEW a, NEW b, NEW c, NEW q, NEW r, NEW s, NEW t
  PROVE  OpenLegacy(t, LegacyEnvelope(a, XPub(XSeed(q))).eph,
                    LegacyEnvelope(b, XPub(XSeed(r))).aes_key,
                    LegacyEnvelope(c, XPub(XSeed(s))).iv,
                    LegacyEnvelope(c, XPub(XSeed(s))).data)
           = IF a = b /\ b = c /\ r = t THEN {c} ELSE {}
<1> DEFINE eph == LegacyEnvelope(a, XPub(XSeed(q))).eph
           key == LegacyEnvelope(b, XPub(XSeed(r))).aes_key
           iv == LegacyEnvelope(c, XPub(XSeed(s))).iv
           data == LegacyEnvelope(c, XPub(XSeed(s))).data
           inner == Decrypt(<<"sha256", DH(XSeed(t), eph)>>, iv, key)
<1>1. /\ eph = XPub(Random(a, "ephemeral"))
      /\ key.key = <<"sha256", DH(Random(b, "ephemeral"), XPub(XSeed(r)))>>
      /\ key.iv = Random(b, "iv") /\ key.plaintext = Random(b, "aes key")
      /\ iv = Random(c, "iv")
      /\ data.key = Random(c, "aes key") /\ data.iv = iv /\ data.plaintext = c
  BY DEF LegacyEnvelope, Encrypt
<1>2. OpenLegacy(t, eph, key, iv, data) = UNION {Decrypt(aes, iv, data) : aes \in inner}
  BY DEF OpenLegacy
<1> HIDE DEF eph, key, iv, data
<1>3. key.key = <<"sha256", DH(XSeed(t), eph)>> <=> a = b /\ r = t
  <2>1. DH(Random(b, "ephemeral"), XPub(XSeed(r))) = DH(XSeed(t), XPub(Random(a, "ephemeral")))
          <=> XPub(Random(b, "ephemeral")) = XPub(Random(a, "ephemeral"))
              /\ XPub(XSeed(r)) = XPub(XSeed(t))
    BY SharedSecret, EphemeralSeeds
  <2>2. XPub(Random(b, "ephemeral")) = XPub(Random(a, "ephemeral")) <=> a = b
    BY DEF XPub, PublicKey, Random
  <2>3. XPub(XSeed(r)) = XPub(XSeed(t)) <=> r = t
    BY KeysNameWallets, Zenon
  <2>4. DH(Random(b, "ephemeral"), XPub(XSeed(r))) = DH(XSeed(t), eph) <=> a = b /\ r = t
    BY <1>1, <2>1, <2>2, <2>3, Zenon
  <2>5. \A x, y : <<"sha256", x>> = <<"sha256", y>> <=> x = y
    OBVIOUS
  <2> QED
    BY <1>1, <2>4, <2>5, Zenon
<1>4. key.iv = iv <=> b = c
  <2>1. Random(b, "iv") = Random(c, "iv") <=> b = c
    BY DEF Random
  <2> QED
    BY <1>1, <2>1, Zenon
<1>5. CASE a = b /\ b = c /\ r = t
  <2>1. inner = {Random(c, "aes key")}
    BY <1>1, <1>3, <1>4, <1>5 DEF Decrypt
  <2>2. Decrypt(Random(c, "aes key"), iv, data) = {c}
    BY <1>1 DEF Decrypt
  <2> HIDE DEF inner
  <2>3. UNION {Decrypt(aes, iv, data) : aes \in inner} = {c}
    BY <2>1, <2>2
  <2> QED
    BY <1>2, <1>5, <2>3 DEF eph, key, iv, data
<1>6. CASE ~(a = b /\ b = c /\ r = t)
  <2>1. inner = {}
    BY <1>3, <1>4, <1>6 DEF Decrypt
  <2> HIDE DEF inner
  <2>2. UNION {Decrypt(aes, iv, data) : aes \in inner} = {}
    BY <2>1
  <2> QED
    BY <1>2, <1>6, <2>2 DEF eph, key, iv, data
<1> QED
  BY <1>5, <1>6

LEMMA HybridOpens ==
  ASSUME NEW a, NEW b, NEW c, NEW t, NEW xa, NEW xb, NEW xc, NEW ka, NEW kb, NEW kc
  PROVE  OpenHybrid(t, HybridEnvelope(a, XPub(XSeed(xa)), KemPub(KemSeed(ka))).eph,
                    HybridEnvelope(b, XPub(XSeed(xb)), KemPub(KemSeed(kb))).kem_ct,
                    HybridEnvelope(c, XPub(XSeed(xc)), KemPub(KemSeed(kc))).iv,
                    HybridEnvelope(c, XPub(XSeed(xc)), KemPub(KemSeed(kc))).data)
           = IF a = b /\ b = c /\ kb = kc /\ xc = t /\ kc = t THEN {c} ELSE {}
<1> DEFINE eph == HybridEnvelope(a, XPub(XSeed(xa)), KemPub(KemSeed(ka))).eph
           ct == HybridEnvelope(b, XPub(XSeed(xb)), KemPub(KemSeed(kb))).kem_ct
           iv == HybridEnvelope(c, XPub(XSeed(xc)), KemPub(KemSeed(kc))).iv
           data == HybridEnvelope(c, XPub(XSeed(xc)), KemPub(KemSeed(kc))).data
           rk == KemPub(KemSeed(kc))
           kem == Encapsulate(rk, Random(c, "kem"))
           made == DH(Random(c, "ephemeral"), XPub(XSeed(xc)))
           read == DH(XSeed(t), eph)
<1>1. /\ eph = XPub(Random(a, "ephemeral"))
      /\ ct = Encapsulate(KemPub(KemSeed(kb)), Random(b, "kem")).ct
      /\ data.key = HybridKey(made, kem.ss, XPub(Random(c, "ephemeral")), kem.ct)
      /\ data.iv = iv /\ data.plaintext = c
  BY DEF HybridEnvelope, Encrypt
<1>2. OpenHybrid(t, eph, ct, iv, data)
        = IF data.key = HybridKey(read, Decapsulate(KemSeed(t), ct), eph, ct) THEN {c} ELSE {}
  <2> HIDE DEF eph, ct, iv, data, read
  <2> QED
    BY <1>1 DEF OpenHybrid, Decrypt, read
<1> HIDE DEF eph, ct, iv, data, kem, made, read, rk
<1>3. data.key = HybridKey(read, Decapsulate(KemSeed(t), ct), eph, ct)
        <=> /\ made = read /\ kem.ss = Decapsulate(KemSeed(t), ct)
            /\ XPub(Random(c, "ephemeral")) = eph /\ kem.ct = ct
  <2>1. \A u, v, w, x, u1, v1, w1, x1 : HybridKey(u, v, w, x) = HybridKey(u1, v1, w1, x1)
                                       <=> u = u1 /\ v = v1 /\ w = w1 /\ x = x1
    BY DEF HybridKey
  <2>2. HybridKey(made, kem.ss, XPub(Random(c, "ephemeral")), kem.ct)
          = HybridKey(read, Decapsulate(KemSeed(t), ct), eph, ct)
        <=> /\ made = read /\ kem.ss = Decapsulate(KemSeed(t), ct)
            /\ XPub(Random(c, "ephemeral")) = eph /\ kem.ct = ct
    BY <2>1
  <2> QED
    BY <1>1, <2>2
<1>4. XPub(Random(c, "ephemeral")) = eph <=> a = c
  <2>1. XPub(Random(c, "ephemeral")) = XPub(Random(a, "ephemeral")) <=> a = c
    BY DEF XPub, PublicKey, Random
  <2> QED
    BY <1>1, <2>1, Zenon
<1>5. made = read <=> a = c /\ xc = t
  <2>1. made = read
          <=> XPub(Random(c, "ephemeral")) = XPub(Random(a, "ephemeral")) /\ XPub(XSeed(xc)) = XPub(XSeed(t))
    BY <1>1, SharedSecret, EphemeralSeeds DEF made, read
  <2>2. XPub(XSeed(xc)) = XPub(XSeed(t)) <=> xc = t
    BY KeysNameWallets, Zenon
  <2> QED
    BY <1>1, <1>4, <2>1, <2>2, Zenon
<1>6. kem.ct = ct <=> b = c /\ kb = kc
  <2>1. Random(b, "kem") = Random(c, "kem") <=> b = c
    BY DEF Random
  <2>2. kem.ct = ct <=> rk = KemPub(KemSeed(kb)) /\ Random(c, "kem") = Random(b, "kem")
    BY <1>1, KemSecret DEF kem
  <2>3. rk = KemPub(KemSeed(kb)) <=> kb = kc
    BY KeysNameWallets, Zenon DEF rk
  <2> QED
    BY <2>1, <2>2, <2>3
<1>8. kem.ct = ct => (kem.ss = Decapsulate(KemSeed(t), ct) <=> kc = t)
  <2>1. kem.ss = Decapsulate(KemSeed(t), kem.ct) <=> rk = KemPub(KemSeed(t))
    BY KemSecret DEF kem
  <2>2. rk = KemPub(KemSeed(t)) <=> kc = t
    BY KeysNameWallets, Zenon DEF rk
  <2> QED
    BY <2>1, <2>2
<1>9. data.key = HybridKey(read, Decapsulate(KemSeed(t), ct), eph, ct)
        <=> a = b /\ b = c /\ kb = kc /\ xc = t /\ kc = t
  BY <1>3, <1>4, <1>5, <1>6, <1>8
<1> QED
  BY <1>2, <1>9 DEF eph, ct, iv, data

(* A wrap opens for both keys it was made for, and gives its data key.     *)
LEMMA WrapOpens ==
  ASSUME NEW t, NEW q, NEW n, NEW x, NEW k
  PROVE  LET seed64 == Seed64(WrapMaster(q), n, XPub(XSeed(x)), KemPub(KemSeed(k)))
             wrap == RegeneratedWrap(q, n, XPub(XSeed(x)), KemPub(KemSeed(k)))
         IN Decrypt(DkKey(DH(XSeed(t), wrap.eph), Decapsulate(KemSeed(t), wrap.kem_ct)),
                    wrap.iv, wrap.ct)
              = IF x = t /\ k = t THEN {Expand(seed64, "dk")} ELSE {}
<1> DEFINE seed64 == Seed64(WrapMaster(q), n, XPub(XSeed(x)), KemPub(KemSeed(k)))
           wrap == RegeneratedWrap(q, n, XPub(XSeed(x)), KemPub(KemSeed(k)))
           kem == Encapsulate(KemPub(KemSeed(k)), Expand(seed64, "kem-rand"))
<1>1. /\ wrap.eph = XPub(Expand(seed64, "eph-x25519")) /\ wrap.kem_ct = kem.ct
      /\ wrap.ct.key = DkKey(DH(Expand(seed64, "eph-x25519"), XPub(XSeed(x))), kem.ss)
      /\ wrap.ct.iv = wrap.iv /\ wrap.ct.plaintext = Expand(seed64, "dk")
  BY DEF RegeneratedWrap, WrapV2, Encrypt
<1> HIDE DEF seed64, wrap, kem
<1>2. wrap.ct.key = DkKey(DH(XSeed(t), wrap.eph), Decapsulate(KemSeed(t), wrap.kem_ct))
        <=> x = t /\ k = t
  <2>1. \A u, v, u1, v1 : DkKey(u, v) = DkKey(u1, v1) <=> u = u1 /\ v = v1
    BY DEF DkKey
  <2>2. DH(Expand(seed64, "eph-x25519"), XPub(XSeed(x))) = DH(XSeed(t), wrap.eph)
          <=> XPub(XSeed(x)) = XPub(XSeed(t))
    BY <1>1, SharedSecret, EphemeralSeeds
  <2>3. kem.ss = Decapsulate(KemSeed(t), wrap.kem_ct) <=> KemPub(KemSeed(k)) = KemPub(KemSeed(t))
    BY <1>1, KemSecret DEF kem
  <2>4. /\ XPub(XSeed(x)) = XPub(XSeed(t)) <=> x = t
        /\ KemPub(KemSeed(k)) = KemPub(KemSeed(t)) <=> k = t
    BY KeysNameWallets, Zenon
  <2>5. DkKey(DH(Expand(seed64, "eph-x25519"), XPub(XSeed(x))), kem.ss)
          = DkKey(DH(XSeed(t), wrap.eph), Decapsulate(KemSeed(t), wrap.kem_ct))
        <=> /\ DH(Expand(seed64, "eph-x25519"), XPub(XSeed(x))) = DH(XSeed(t), wrap.eph)
            /\ kem.ss = Decapsulate(KemSeed(t), wrap.kem_ct)
    BY <2>1
  <2> QED
    BY <1>1, <2>2, <2>3, <2>4, <2>5
<1>3. Decrypt(DkKey(DH(XSeed(t), wrap.eph), Decapsulate(KemSeed(t), wrap.kem_ct)), wrap.iv, wrap.ct)
        = IF x = t /\ k = t THEN {Expand(seed64, "dk")} ELSE {}
  BY <1>1, <1>2 DEF Decrypt
<1> QED
  BY <1>3 DEF seed64, wrap

(* An envelope is addressed to the wallet of its two keys.                 *)
LEMMA HeaderNames ==
  ASSUME NEW t, NEW header, NEW x, NEW k,
         header.rx = XPub(XSeed(x)), header.kem_hash = <<"sha256", KemPub(KemSeed(k))>>
  PROVE  AddressedTo(t, header) <=> x = t /\ k = t
<1>1. /\ XPub(XSeed(x)) = XPub(XSeed(t)) <=> x = t
      /\ KemPub(KemSeed(k)) = KemPub(KemSeed(t)) <=> k = t
  BY KeysNameWallets, Zenon
<1>2. <<"sha256", KemPub(KemSeed(k))>> = <<"sha256", KemPub(KemSeed(t))>>
        <=> KemPub(KemSeed(k)) = KemPub(KemSeed(t))
  OBVIOUS
<1>3. AddressedTo(t, header)
        <=> /\ XPub(XSeed(x)) = XPub(XSeed(t))
            /\ <<"sha256", KemPub(KemSeed(k))>> = <<"sha256", KemPub(KemSeed(t))>>
  BY Zenon DEF AddressedTo
<1> QED
  BY <1>1, <1>2, <1>3, Zenon

-----------------------------------------------------------------------------
(* Sequences of anything *)

IsSeq(s) == \E S : s \in Seq(S)

LEMMA AppendOne ==
  ASSUME NEW s, NEW e, IsSeq(s)
  PROVE  /\ IsSeq(Append(s, e))
         /\ Len(s) \in Nat /\ Len(Append(s, e)) = Len(s) + 1
         /\ DOMAIN s = 1 .. Len(s) /\ DOMAIN Append(s, e) = 1 .. Len(s) + 1
         /\ \A i \in DOMAIN s : Append(s, e)[i] = s[i]
         /\ Append(s, e)[Len(s) + 1] = e
<1>1. PICK S : s \in Seq(S)
  BY DEF IsSeq
<1> DEFINE T == S \cup {e}
<1>2. s \in Seq(T) /\ e \in T
  <2>1. S \subseteq T /\ e \in T
    OBVIOUS
  <2> QED
    BY <1>1, <2>1, SeqMonotonic, Zenon
<1> HIDE DEF T
<1>3. Len(s) \in Nat /\ DOMAIN s = 1 .. Len(s)
  BY <1>2, LenProperties, Zenon
<1>4. /\ Append(s, e) \in Seq(T) /\ Len(Append(s, e)) = Len(s) + 1
      /\ \A i \in 1 .. Len(s) : Append(s, e)[i] = s[i]
      /\ Append(s, e)[Len(s) + 1] = e
  BY <1>2, AppendProperties
<1>5. DOMAIN Append(s, e) = 1 .. Len(Append(s, e))
  BY <1>4, LenProperties, Zenon
<1> QED
  BY <1>3, <1>4, <1>5 DEF IsSeq

LEMMA ReplaceOne ==
  ASSUME NEW s, IsSeq(s), NEW j \in DOMAIN s, NEW e
  PROVE  LET t == [s EXCEPT ![j] = e]
         IN /\ IsSeq(t) /\ Len(t) = Len(s) /\ DOMAIN t = DOMAIN s
            /\ t[j] = e /\ \A i \in DOMAIN s : i # j => t[i] = s[i]
<1>1. PICK S : s \in Seq(S)
  BY DEF IsSeq
<1> DEFINE T == S \cup {e}
           t == [s EXCEPT ![j] = e]
<1>2. s \in Seq(T) /\ e \in T
  <2>1. S \subseteq T /\ e \in T
    OBVIOUS
  <2> QED
    BY <1>1, <2>1, SeqMonotonic, Zenon
<1>3. DOMAIN s = 1 .. Len(s)
  BY <1>1, LenProperties, Zenon
<1> HIDE DEF T
<1>4. t \in Seq(T) /\ Len(t) = Len(s)
  BY <1>2, <1>3, ExceptSeq, Zenon
<1>5. DOMAIN t = DOMAIN s /\ t[j] = e /\ \A i \in DOMAIN s : i # j => t[i] = s[i]
  OBVIOUS
<1> QED
  BY <1>4, <1>5 DEF IsSeq

-----------------------------------------------------------------------------
(* The invariant *)

(* What a caller posted as the i-th envelope.                              *)
IsMade(p, i) ==
    \/ p.format = "legacy" /\ p.rx \in XKeys /\ p.envelope = LegacyEnvelope(i, p.rx)
    \/ /\ p.format = "v1" /\ p.rx \in XKeys /\ p.rk \in KemKeys
       /\ p.envelope = HybridEnvelope(i, p.rx, p.rk)
    \/ /\ p.format = "xkem" /\ p.rk \in KemKeys
       /\ p.envelope = Encapsulate(p.rk, Random(i, "kem"))
    \/ /\ p.format = "v2" /\ p.rx \in XKeys /\ p.rk \in KemKeys
       /\ p.envelope = EnvelopeV2(i, p.sender, p.envelope.nonce, p.rx, p.rk)

(* A wrap is what the wallet that derived it makes for that envelope.      *)
AreWrapsOf(ws, p) ==
    /\ \A w \in ws : w.wrap = RegeneratedWrap(w.by, p.envelope.nonce, p.rx, p.rk)
    /\ \A v, w \in ws : v = w

StoresOK ==
    /\ IsSeq(posted) /\ IsSeq(wraps) /\ Len(posted) = Len(wraps)
    /\ \A i \in DOMAIN posted :
         /\ IsMade(posted[i], i)
         /\ posted[i].format = "v2" => AreWrapsOf(wraps[i], posted[i])
         /\ posted[i].format # "v2" => wraps[i] = {}

EnvelopeInv == StoresOK /\ NoSplicing

LEMMA EnvelopeInitInv == Init => EnvelopeInv
<1> SUFFICES ASSUME Init PROVE EnvelopeInv
  OBVIOUS
<1>1. posted = << >> /\ wraps = << >> /\ ret.op # "decrypt"
  BY DEF Init
<1>2. IsSeq(posted) /\ IsSeq(wraps) /\ DOMAIN posted = {}
  <2>1. << >> \in Seq({})
    OBVIOUS
  <2> QED
    BY <1>1, <2>1 DEF IsSeq
<1> QED
  BY <1>1, <1>2 DEF EnvelopeInv, StoresOK, NoSplicing

(* A step that gives nothing and stores nothing.                           *)
LEMMA Unchanged ==
  ASSUME EnvelopeInv, UNCHANGED <<posted, wraps>>, ret'.op # "decrypt"
  PROVE  EnvelopeInv'
<1>1. NoSplicing'
  BY DEF NoSplicing
<1>2. StoresOK'
  BY DEF EnvelopeInv, StoresOK, IsMade, AreWrapsOf, XKeys, KemKeys
<1> QED
  BY <1>1, <1>2 DEF EnvelopeInv

(* A new envelope disturbs no other.                                       *)
LEMMA PostPreserves ==
  ASSUME StoresOK, NEW format, NEW sender, NEW rx, NEW rk, NEW envelope, NEW stored,
         Post(format, sender, rx, rk, envelope, stored),
         LET p == [format |-> format, sender |-> sender, rx |-> rx, rk |-> rk,
                   envelope |-> envelope]
         IN IsMade(p, NextId) /\ IF format = "v2" THEN AreWrapsOf(stored, p) ELSE stored = {}
  PROVE  EnvelopeInv'
<1> DEFINE p == [format |-> format, sender |-> sender, rx |-> rx, rk |-> rk,
                 envelope |-> envelope]
<1>1. /\ posted' = Append(posted, p) /\ wraps' = Append(wraps, stored)
      /\ ret' = [op |-> "encrypt"]
  BY DEF Post
<1>2. IsMade(p, Len(posted) + 1) /\ IF p.format = "v2" THEN AreWrapsOf(stored, p) ELSE stored = {}
  BY DEF NextId
<1> HIDE DEF p
<1>3. IsSeq(posted) /\ IsSeq(wraps) /\ Len(posted) = Len(wraps)
  BY DEF StoresOK
<1>4. /\ IsSeq(posted') /\ IsSeq(wraps') /\ Len(posted') = Len(wraps')
      /\ Len(posted) \in Nat /\ DOMAIN posted = 1 .. Len(posted)
      /\ DOMAIN posted' = 1 .. Len(posted) + 1
      /\ \A i \in DOMAIN posted : posted'[i] = posted[i] /\ wraps'[i] = wraps[i]
      /\ posted'[Len(posted) + 1] = p /\ wraps'[Len(posted) + 1] = stored
  BY <1>1, <1>3, AppendOne
<1>5. ASSUME NEW i \in DOMAIN posted'
      PROVE  /\ IsMade(posted'[i], i)
             /\ posted'[i].format = "v2" => AreWrapsOf(wraps'[i], posted'[i])
             /\ posted'[i].format # "v2" => wraps'[i] = {}
  <2>1. CASE i \in DOMAIN posted
    BY <1>4, <2>1 DEF StoresOK
  <2>2. CASE i = Len(posted) + 1
    BY <1>2, <1>4, <2>2
  <2> QED
    BY <1>4, <2>1, <2>2
<1>6. NoSplicing'
  BY <1>1 DEF NoSplicing
<1> QED
  BY <1>4, <1>5, <1>6 DEF EnvelopeInv, StoresOK, IsMade, AreWrapsOf, XKeys, KemKeys

LEMMA SenderStepPreserves ==
  ASSUME EnvelopeInv, SenderStep
  PROVE  EnvelopeInv'
<1>1. ASSUME NEW rx \in XKeys, PostLegacy(rx) PROVE EnvelopeInv'
  BY <1>1, PostPreserves DEF PostLegacy, EnvelopeInv, IsMade
<1>2. ASSUME NEW rk \in KemKeys, PostEncapsulation(rk) PROVE EnvelopeInv'
  BY <1>2, PostPreserves DEF PostEncapsulation, EnvelopeInv, IsMade
<1>3. ASSUME NEW rx \in XKeys, NEW rk \in KemKeys, PostHybrid(rx, rk) PROVE EnvelopeInv'
  BY <1>3, PostPreserves DEF PostHybrid, EnvelopeInv, IsMade
<1>4. ASSUME NEW rx \in XKeys, NEW rk \in KemKeys, NEW m \in Mnemonic, NEW p \in Primary,
             NEW nonce, PostV2(m, p, nonce, rx, rk)
      PROVE  EnvelopeInv'
  <2> DEFINE e == EnvelopeV2(NextId, m.material, nonce, rx, rk)
  <2>1. CASE SenderUnseals(m, p)
    <3>1. Post("v2", m.material, rx, rk, e, {[by |-> m.material, wrap |-> e.wrap]})
      BY <1>4, <2>1 DEF PostV2
    <3>2. e.nonce = nonce /\ e.wrap = RegeneratedWrap(m.material, nonce, rx, rk)
      BY DEF EnvelopeV2, RegeneratedWrap
    <3>3. e = EnvelopeV2(NextId, m.material, e.nonce, rx, rk)
      BY <3>2
    <3> HIDE DEF e
    <3>4. StoresOK
      BY DEF EnvelopeInv
    <3> QED
      BY <3>1, <3>2, <3>3, <3>4, PostPreserves DEF IsMade, AreWrapsOf
  <2>2. CASE ~SenderUnseals(m, p)
    <3>1. UNCHANGED <<posted, wraps>> /\ ret' = [op |-> "unseal failed"]
      BY <1>4, <2>2 DEF PostV2
    <3> QED
      BY <3>1, Unchanged
  <2> QED
    BY <2>1, <2>2
<1> QED
  BY <1>1, <1>2, <1>3, <1>4 DEF SenderStep

(* Losing and regenerating wraps keeps them what they are.                 *)
LEMMA StoreWrapsPreserves ==
  ASSUME EnvelopeInv, NEW i \in DOMAIN posted, posted[i].format = "v2",
         NEW ws, AreWrapsOf(ws, posted[i]),
         wraps' = [wraps EXCEPT ![i] = ws], UNCHANGED posted, ret'.op # "decrypt"
  PROVE  EnvelopeInv'
<1>1. /\ IsSeq(posted) /\ IsSeq(wraps) /\ Len(posted) = Len(wraps)
      /\ DOMAIN posted = DOMAIN wraps
  <2>1. IsSeq(posted) /\ IsSeq(wraps) /\ Len(posted) = Len(wraps)
    BY DEF EnvelopeInv, StoresOK
  <2>2. DOMAIN posted = 1 .. Len(posted) /\ DOMAIN wraps = 1 .. Len(wraps)
    BY <2>1, AppendOne
  <2> QED
    BY <2>1, <2>2
<1>2. /\ IsSeq(wraps') /\ Len(wraps') = Len(wraps)
      /\ wraps'[i] = ws /\ \A j \in DOMAIN wraps : j # i => wraps'[j] = wraps[j]
  BY <1>1, ReplaceOne
<1>3. ASSUME NEW j \in DOMAIN posted
      PROVE  /\ IsMade(posted[j], j)
             /\ posted[j].format = "v2" => AreWrapsOf(wraps'[j], posted[j])
             /\ posted[j].format # "v2" => wraps'[j] = {}
  BY <1>1, <1>2 DEF EnvelopeInv, StoresOK
<1>4. NoSplicing'
  BY DEF NoSplicing
<1> QED
  BY <1>1, <1>2, <1>3, <1>4 DEF EnvelopeInv, StoresOK, IsMade, AreWrapsOf, XKeys, KemKeys

LEMMA StoreStepPreserves ==
  ASSUME EnvelopeInv, StoreStep
  PROVE  EnvelopeInv'
<1>1. PICK i \in DOMAIN posted : \/ LoseWrap(i)
                                \/ \E m \in Mnemonic, p \in Primary : Regenerate(i, m, p)
  BY DEF StoreStep
<1>2. CASE LoseWrap(i)
  <2>1. AreWrapsOf({}, posted[i])
    BY DEF AreWrapsOf
  <2> QED
    BY <1>2, <2>1, StoreWrapsPreserves DEF LoseWrap
<1>3. ASSUME NEW m \in Mnemonic, NEW p \in Primary, Regenerate(i, m, p)
      PROVE  EnvelopeInv'
  <2>1. CASE SenderUnseals(m, p)
    <3>1. AreWrapsOf({NewWrap(i, m.material)}, posted[i])
      BY DEF AreWrapsOf, NewWrap
    <3> QED
      BY <1>3, <2>1, <3>1, StoreWrapsPreserves DEF Regenerate
  <2>2. CASE ~SenderUnseals(m, p)
    <3>1. UNCHANGED <<posted, wraps>> /\ ret' = [op |-> "unseal failed"]
      BY <1>3, <2>2 DEF Regenerate
    <3> QED
      BY <3>1, Unchanged
  <2> QED
    BY <2>1, <2>2
<1> QED
  BY <1>1, <1>2, <1>3

-----------------------------------------------------------------------------
(* Readers *)

(* A read that gives something shows one envelope of the reader's.         *)
Whole(a, b, c, r) ==
    /\ \A i \in {a, b, c} : IsFor(i, r)
    /\ IF posted[a].format # "v2" THEN a = b /\ b = c
       ELSE /\ posted[b].envelope.nonce = posted[c].envelope.nonce
            /\ \E w \in wraps[b] : w.by = posted[c].sender

LEMMA ReadPreserves ==
  ASSUME EnvelopeInv, NEW m, NEW bytes, NEW a, NEW b, NEW c, NEW outcome,
         Read(m, bytes, <<a, b, c>>, outcome),
         outcome # {} => Whole(a, b, c, m.material)
  PROVE  EnvelopeInv'
<1>1. UNCHANGED <<posted, wraps>>
  BY DEF Read
<1>2. ret'.op = "decrypt" =>
        ret'.parts = <<a, b, c>> /\ ret'.reader = m.material /\ outcome # {}
  BY DEF Read
<1>3. NoSplicing'
  <2> SUFFICES ASSUME ret'.op = "decrypt"
               PROVE  LET x == ret'.parts[1] y == ret'.parts[2] z == ret'.parts[3]
                      IN /\ \A i \in {x, y, z} : IsFor(i, ret'.reader)
                         /\ IF posted[x].format # "v2" THEN x = y /\ y = z
                            ELSE /\ posted[y].envelope.nonce = posted[z].envelope.nonce
                                 /\ \E w \in wraps[y] : w.by = posted[z].sender
    BY <1>1 DEF NoSplicing, IsFor
  <2> QED
    BY <1>2 DEF Whole
<1> QED
  BY <1>1, <1>3 DEF EnvelopeInv, StoresOK, IsMade, AreWrapsOf, XKeys, KemKeys

(* The keys an envelope was made for are those of wallets.                 *)
LEMMA MadeFor ==
  ASSUME StoresOK, NEW i \in DOMAIN posted
  PROVE  /\ posted[i].format = "legacy" =>
              \E x \in Root :
                /\ posted[i].rx = XPub(XSeed(x))
                /\ posted[i].envelope = LegacyEnvelope(i, XPub(XSeed(x)))
                /\ \A r : IsFor(i, r) <=> x = r
         /\ posted[i].format = "v1" =>
              \E x, k \in Root :
                /\ posted[i].envelope = HybridEnvelope(i, XPub(XSeed(x)), KemPub(KemSeed(k)))
                /\ \A r : IsFor(i, r) <=> x = r /\ k = r
         /\ posted[i].format = "xkem" =>
              \E k \in Root :
                /\ posted[i].envelope = Encapsulate(KemPub(KemSeed(k)), Random(i, "kem"))
                /\ \A r : IsFor(i, r) <=> k = r
         /\ posted[i].format = "v2" =>
              \E x, k \in Root :
                /\ posted[i].rx = XPub(XSeed(x)) /\ posted[i].rk = KemPub(KemSeed(k))
                /\ posted[i].envelope = EnvelopeV2(i, posted[i].sender, posted[i].envelope.nonce,
                                                  XPub(XSeed(x)), KemPub(KemSeed(k)))
                /\ \A r : IsFor(i, r) <=> x = r /\ k = r
<1>1. IsMade(posted[i], i)
  BY DEF StoresOK
<1>2. \A x, r : /\ XPub(XSeed(x)) = XPub(XSeed(r)) <=> x = r
                /\ KemPub(KemSeed(x)) = KemPub(KemSeed(r)) <=> x = r
  BY KeysNameWallets, Zenon
<1>3. CASE posted[i].format = "legacy"
  <2>1. PICK x \in Root : posted[i].rx = XPub(XSeed(x))
    BY <1>1, <1>3 DEF IsMade, XKeys
  <2>2. posted[i].envelope = LegacyEnvelope(i, XPub(XSeed(x)))
    BY <1>1, <1>3, <2>1 DEF IsMade
  <2> QED
    BY <1>2, <1>3, <2>1, <2>2 DEF IsFor
<1>4. CASE posted[i].format = "v1"
  <2>1. PICK x \in Root, k \in Root : posted[i].rx = XPub(XSeed(x)) /\ posted[i].rk = KemPub(KemSeed(k))
    BY <1>1, <1>4 DEF IsMade, XKeys, KemKeys
  <2>2. posted[i].envelope = HybridEnvelope(i, XPub(XSeed(x)), KemPub(KemSeed(k)))
    BY <1>1, <1>4, <2>1 DEF IsMade
  <2> QED
    BY <1>2, <1>4, <2>1, <2>2 DEF IsFor
<1>5. CASE posted[i].format = "xkem"
  <2>1. PICK k \in Root : posted[i].rk = KemPub(KemSeed(k))
    BY <1>1, <1>5 DEF IsMade, KemKeys
  <2>2. posted[i].envelope = Encapsulate(KemPub(KemSeed(k)), Random(i, "kem"))
    BY <1>1, <1>5, <2>1 DEF IsMade
  <2> QED
    BY <1>2, <1>5, <2>1, <2>2 DEF IsFor
<1>6. CASE posted[i].format = "v2"
  <2>1. PICK x \in Root, k \in Root : posted[i].rx = XPub(XSeed(x)) /\ posted[i].rk = KemPub(KemSeed(k))
    BY <1>1, <1>6 DEF IsMade, XKeys, KemKeys
  <2>2. posted[i].envelope = EnvelopeV2(i, posted[i].sender, posted[i].envelope.nonce,
                                        XPub(XSeed(x)), KemPub(KemSeed(k)))
    BY <1>1, <1>6, <2>1 DEF IsMade
  <2> QED
    BY <1>2, <1>6, <2>1, <2>2 DEF IsFor
<1> QED
  BY <1>3, <1>4, <1>5, <1>6

(* What a reader gets of three parts, of the formats with one key pair.    *)
LEMMA LegacyParts ==
  ASSUME StoresOK, NEW a \in Of("legacy"), NEW b \in Of("legacy"), NEW c \in Of("legacy"), NEW r
  PROVE  OpenLegacy(r, posted[a].envelope.eph, posted[b].envelope.aes_key,
                    posted[c].envelope.iv, posted[c].envelope.data)
           = IF a = b /\ b = c /\ IsFor(b, r) THEN {c} ELSE {}
<1>1. /\ a \in DOMAIN posted /\ b \in DOMAIN posted /\ c \in DOMAIN posted
      /\ posted[a].format = "legacy" /\ posted[b].format = "legacy" /\ posted[c].format = "legacy"
  BY DEF Of
<1>2. PICK x : posted[a].envelope = LegacyEnvelope(a, XPub(XSeed(x)))
  BY <1>1, MadeFor
<1>3. PICK y : /\ posted[b].envelope = LegacyEnvelope(b, XPub(XSeed(y)))
               /\ IsFor(b, r) <=> y = r
  BY <1>1, MadeFor
<1>4. PICK z : posted[c].envelope = LegacyEnvelope(c, XPub(XSeed(z)))
  BY <1>1, MadeFor
<1>5. OpenLegacy(r, LegacyEnvelope(a, XPub(XSeed(x))).eph,
                 LegacyEnvelope(b, XPub(XSeed(y))).aes_key,
                 LegacyEnvelope(c, XPub(XSeed(z))).iv,
                 LegacyEnvelope(c, XPub(XSeed(z))).data)
        = IF a = b /\ b = c /\ y = r THEN {c} ELSE {}
  BY LegacyOpens
<1>6. OpenLegacy(r, posted[a].envelope.eph, posted[b].envelope.aes_key,
                 posted[c].envelope.iv, posted[c].envelope.data)
        = IF a = b /\ b = c /\ y = r THEN {c} ELSE {}
  BY <1>2, <1>3, <1>4, <1>5
<1> QED
  BY <1>3, <1>6

LEMMA HybridParts ==
  ASSUME StoresOK, NEW a \in Of("v1"), NEW b \in Of("v1"), NEW c \in Of("v1"), NEW r
  PROVE  OpenHybrid(r, posted[a].envelope.eph, posted[b].envelope.kem_ct,
                    posted[c].envelope.iv, posted[c].envelope.data)
           = IF a = b /\ b = c /\ IsFor(c, r) THEN {c} ELSE {}
<1>1. /\ a \in DOMAIN posted /\ b \in DOMAIN posted /\ c \in DOMAIN posted
      /\ posted[a].format = "v1" /\ posted[b].format = "v1" /\ posted[c].format = "v1"
  BY DEF Of
<1>2. PICK xa, ka : posted[a].envelope = HybridEnvelope(a, XPub(XSeed(xa)), KemPub(KemSeed(ka)))
  BY <1>1, MadeFor
<1>3. PICK xb, kb : /\ posted[b].envelope = HybridEnvelope(b, XPub(XSeed(xb)), KemPub(KemSeed(kb)))
                    /\ \A t : IsFor(b, t) <=> xb = t /\ kb = t
  BY <1>1, MadeFor
<1>4. PICK xc, kc : /\ posted[c].envelope = HybridEnvelope(c, XPub(XSeed(xc)), KemPub(KemSeed(kc)))
                    /\ \A t : IsFor(c, t) <=> xc = t /\ kc = t
  BY <1>1, MadeFor
<1>5. OpenHybrid(r, HybridEnvelope(a, XPub(XSeed(xa)), KemPub(KemSeed(ka))).eph,
                 HybridEnvelope(b, XPub(XSeed(xb)), KemPub(KemSeed(kb))).kem_ct,
                 HybridEnvelope(c, XPub(XSeed(xc)), KemPub(KemSeed(kc))).iv,
                 HybridEnvelope(c, XPub(XSeed(xc)), KemPub(KemSeed(kc))).data)
        = IF a = b /\ b = c /\ kb = kc /\ xc = r /\ kc = r THEN {c} ELSE {}
  BY HybridOpens, ZenonT(60)
<1>6. OpenHybrid(r, posted[a].envelope.eph, posted[b].envelope.kem_ct,
                 posted[c].envelope.iv, posted[c].envelope.data)
        = IF a = b /\ b = c /\ kb = kc /\ xc = r /\ kc = r THEN {c} ELSE {}
  BY <1>2, <1>3, <1>4, <1>5
<1>7. b = c /\ IsFor(c, r) => kb = kc
  BY <1>3, <1>4
<1> QED
  BY <1>4, <1>6, <1>7

LEMMA V2Parts ==
  ASSUME StoresOK, NEW a \in Of("v2"), NEW b \in Of("v2"), NEW c \in Of("v2"),
         NEW w \in wraps[b], NEW r
  PROVE  OpenV2(r, posted[a].envelope, w.wrap, posted[c].envelope.blob)
           = IF /\ IsFor(a, r) /\ IsFor(b, r) /\ IsFor(c, r)
                /\ posted[b].envelope.nonce = posted[c].envelope.nonce
                /\ w.by = posted[c].sender
             THEN {c} ELSE {}
<1>1. /\ a \in DOMAIN posted /\ b \in DOMAIN posted /\ c \in DOMAIN posted
      /\ posted[a].format = "v2" /\ posted[b].format = "v2" /\ posted[c].format = "v2"
  BY DEF Of
<1>2. PICK xa, ka : /\ posted[a].envelope = EnvelopeV2(a, posted[a].sender, posted[a].envelope.nonce,
                                                      XPub(XSeed(xa)), KemPub(KemSeed(ka)))
                    /\ \A t : IsFor(a, t) <=> xa = t /\ ka = t
  BY <1>1, MadeFor
<1>3. PICK xb, kb : /\ posted[b].rx = XPub(XSeed(xb)) /\ posted[b].rk = KemPub(KemSeed(kb))
                    /\ \A t : IsFor(b, t) <=> xb = t /\ kb = t
  BY <1>1, MadeFor
<1>4. PICK xc, kc : /\ posted[c].rx = XPub(XSeed(xc)) /\ posted[c].rk = KemPub(KemSeed(kc))
                    /\ posted[c].envelope = EnvelopeV2(c, posted[c].sender, posted[c].envelope.nonce,
                                                      XPub(XSeed(xc)), KemPub(KemSeed(kc)))
                    /\ \A t : IsFor(c, t) <=> xc = t /\ kc = t
  BY <1>1, MadeFor
<1>5. w.wrap = RegeneratedWrap(w.by, posted[b].envelope.nonce, XPub(XSeed(xb)), KemPub(KemSeed(kb)))
  BY <1>1, <1>3 DEF StoresOK, AreWrapsOf
<1> DEFINE header == posted[a].envelope
           blob == posted[c].envelope.blob
           sb == Seed64(WrapMaster(w.by), posted[b].envelope.nonce,
                        XPub(XSeed(xb)), KemPub(KemSeed(kb)))
           sc == Seed64(WrapMaster(posted[c].sender), posted[c].envelope.nonce,
                        XPub(XSeed(xc)), KemPub(KemSeed(kc)))
           inner == Decrypt(DkKey(DH(XSeed(r), w.wrap.eph),
                                  Decapsulate(KemSeed(r), w.wrap.kem_ct)),
                            w.wrap.iv, w.wrap.ct)
           same == /\ w.by = posted[c].sender
                   /\ posted[b].envelope.nonce = posted[c].envelope.nonce
                   /\ xb = xc /\ kb = kc
<1>6. OpenV2(r, header, w.wrap, blob)
        = IF xa = r /\ ka = r /\ xb = r /\ kb = r /\ same THEN {c} ELSE {}
  <2>1. OpenV2(r, header, w.wrap, blob)
          = IF ~AddressedTo(r, header) THEN {}
            ELSE UNION {Decrypt(dk, blob.iv, blob.ct) : dk \in inner}
    BY DEF OpenV2
  <2>2. blob.ct.key = Expand(sc, "dk") /\ blob.ct.iv = blob.iv /\ blob.ct.plaintext = c
    <3>1. LET made == EnvelopeV2(c, posted[c].sender, posted[c].envelope.nonce,
                                 XPub(XSeed(xc)), KemPub(KemSeed(kc))).blob
          IN made.ct.key = Expand(sc, "dk") /\ made.ct.iv = made.iv /\ made.ct.plaintext = c
      BY DEF EnvelopeV2, Encrypt
    <3> HIDE DEF sc
    <3> QED
      BY <1>4, <3>1
  <2>3. header.rx = XPub(XSeed(xa)) /\ header.kem_hash = <<"sha256", KemPub(KemSeed(ka))>>
    <3>1. LET made == EnvelopeV2(a, posted[a].sender, posted[a].envelope.nonce,
                                 XPub(XSeed(xa)), KemPub(KemSeed(ka)))
          IN made.rx = XPub(XSeed(xa)) /\ made.kem_hash = <<"sha256", KemPub(KemSeed(ka))>>
      BY DEF EnvelopeV2
    <3> QED
      BY <1>2, <3>1
  <2>4. AddressedTo(r, header) <=> xa = r /\ ka = r
    BY <2>3, HeaderNames
  <2>5. inner = IF xb = r /\ kb = r THEN {Expand(sb, "dk")} ELSE {}
    <3> DEFINE made == RegeneratedWrap(w.by, posted[b].envelope.nonce,
                                       XPub(XSeed(xb)), KemPub(KemSeed(kb)))
    <3>1. Decrypt(DkKey(DH(XSeed(r), made.eph), Decapsulate(KemSeed(r), made.kem_ct)),
                  made.iv, made.ct)
            = IF xb = r /\ kb = r THEN {Expand(sb, "dk")} ELSE {}
      BY WrapOpens
    <3> HIDE DEF made, sb
    <3>2. w.wrap = made
      BY <1>5 DEF made
    <3> QED
      BY <3>1, <3>2
  <2>6. sb = sc <=> same
    BY SameSeed64
  <2> HIDE DEF header, blob, sb, sc, inner, same
  <2>7. Expand(sb, "dk") = Expand(sc, "dk") <=> same
    <3>1. Expand(sb, "dk") = Expand(sc, "dk") <=> sb = sc
      BY DEF Expand
    <3> QED
      BY <2>6, <3>1
  <2>8. Decrypt(Expand(sb, "dk"), blob.iv, blob.ct) = IF same THEN {c} ELSE {}
    BY <2>2, <2>7 DEF Decrypt
  <2>9. UNION {Decrypt(dk, blob.iv, blob.ct) : dk \in inner}
          = IF xb = r /\ kb = r /\ same THEN {c} ELSE {}
    <3>1. CASE xb = r /\ kb = r
      <4>1. inner = {Expand(sb, "dk")}
        BY <2>5, <3>1
      <4>2. UNION {Decrypt(dk, blob.iv, blob.ct) : dk \in inner}
              = Decrypt(Expand(sb, "dk"), blob.iv, blob.ct)
        BY <4>1
      <4> QED
        BY <2>8, <3>1, <4>2
    <3>2. CASE ~(xb = r /\ kb = r)
      <4>1. inner = {}
        BY <2>5, <3>2
      <4>2. UNION {Decrypt(dk, blob.iv, blob.ct) : dk \in inner} = {}
        BY <4>1
      <4> QED
        BY <3>2, <4>2
    <3> QED
      BY <3>1, <3>2
  <2> QED
    BY <2>1, <2>4, <2>9
<1>7. xa = r /\ ka = r /\ xb = r /\ kb = r /\ same
        <=> /\ IsFor(a, r) /\ IsFor(b, r) /\ IsFor(c, r)
            /\ posted[b].envelope.nonce = posted[c].envelope.nonce
            /\ w.by = posted[c].sender
  BY <1>2, <1>3, <1>4
<1> QED
  BY <1>6, <1>7

LEMMA ReaderStepPreserves ==
  ASSUME EnvelopeInv, ReaderStep
  PROVE  EnvelopeInv'
<1>1. StoresOK
  BY DEF EnvelopeInv
<1>2. ASSUME NEW m \in Mnemonic, NEW bytes \in Credential,
             NEW a \in Of("legacy"), NEW b \in Of("legacy"), NEW c \in Of("legacy"),
             ReadLegacy(m, bytes, a, b, c)
      PROVE  EnvelopeInv'
  <2> DEFINE outcome == OpenLegacy(m.material, posted[a].envelope.eph, posted[b].envelope.aes_key,
                                   posted[c].envelope.iv, posted[c].envelope.data)
  <2>1. outcome # {} => Whole(a, b, c, m.material)
    BY <1>1, LegacyParts, ZenonT(60) DEF Whole, Of
  <2> QED
    BY <1>2, <2>1, ReadPreserves DEF ReadLegacy
<1>3. ASSUME NEW m \in Mnemonic, NEW bytes \in Credential,
             NEW a \in Of("v1"), NEW b \in Of("v1"), NEW c \in Of("v1"),
             ReadHybrid(m, bytes, a, b, c)
      PROVE  EnvelopeInv'
  <2> DEFINE outcome == OpenHybrid(m.material, posted[a].envelope.eph, posted[b].envelope.kem_ct,
                                   posted[c].envelope.iv, posted[c].envelope.data)
  <2>1. outcome # {} => Whole(a, b, c, m.material)
    BY <1>1, HybridParts, ZenonT(60) DEF Whole, Of
  <2> QED
    BY <1>3, <2>1, ReadPreserves DEF ReadHybrid
<1>4. ASSUME NEW m \in Mnemonic, NEW bytes \in Credential,
             NEW a \in Of("v2"), NEW b \in Of("v2"), NEW c \in Of("v2"),
             ReadV2(m, bytes, a, b, c)
      PROVE  EnvelopeInv'
  <2>1. PICK w \in wraps[b] :
          Read(m, bytes, <<a, b, c>>,
               OpenV2(m.material, posted[a].envelope, w.wrap, posted[c].envelope.blob))
    BY <1>4 DEF ReadV2
  <2>2. OpenV2(m.material, posted[a].envelope, w.wrap, posted[c].envelope.blob) # {} =>
          Whole(a, b, c, m.material)
    <3>1. posted[a].format = "v2"
      BY DEF Of
    <3>2. SUFFICES ASSUME OpenV2(m.material, posted[a].envelope, w.wrap,
                                 posted[c].envelope.blob) # {}
                   PROVE  Whole(a, b, c, m.material)
      OBVIOUS
    <3>3. /\ IsFor(a, m.material) /\ IsFor(b, m.material) /\ IsFor(c, m.material)
          /\ posted[b].envelope.nonce = posted[c].envelope.nonce
          /\ w.by = posted[c].sender
      <4>1. OpenV2(m.material, posted[a].envelope, w.wrap, posted[c].envelope.blob)
              = IF /\ IsFor(a, m.material) /\ IsFor(b, m.material) /\ IsFor(c, m.material)
                   /\ posted[b].envelope.nonce = posted[c].envelope.nonce
                   /\ w.by = posted[c].sender
                THEN {c} ELSE {}
        BY <1>1, V2Parts
      <4> QED
        BY <3>2, <4>1
    <3> QED
      BY <3>1, <3>3 DEF Whole
  <2> QED
    BY <2>1, <2>2, ReadPreserves
<1>5. ASSUME NEW m \in Mnemonic, NEW bytes \in Credential, NEW a \in Of("xkem"),
             ReadEncapsulation(m, bytes, a)
      PROVE  EnvelopeInv'
  <2>1. UNCHANGED <<posted, wraps>> /\ (ret'.op = "decrypt" => ret'.parts = <<a>>)
    BY <1>5 DEF ReadEncapsulation, Read
  <2>2. NoSplicing'
    BY <2>1 DEF NoSplicing
  <2> QED
    BY <2>1, <2>2 DEF EnvelopeInv, StoresOK, IsMade, AreWrapsOf, XKeys, KemKeys
<1> QED
  BY <1>2, <1>3, <1>4, <1>5 DEF ReaderStep

LEMMA EnvelopeStepPreserves == EnvelopeInv /\ [Next]_vars => EnvelopeInv'
<1> SUFFICES ASSUME EnvelopeInv, [Next]_vars PROVE EnvelopeInv'
  OBVIOUS
<1>1. CASE UNCHANGED vars
  BY <1>1 DEF vars, EnvelopeInv, StoresOK, NoSplicing, IsFor, IsMade, AreWrapsOf, XKeys, KemKeys
<1> QED
  BY <1>1, SenderStepPreserves, StoreStepPreserves, ReaderStepPreserves DEF Next

(* The inductive invariant of envelopes: what is posted and stored is what *)
(* senders made, and what was read was whole.                              *)
THEOREM EnvelopeInvariance == Spec => []EnvelopeInv
BY EnvelopeInitInv, EnvelopeStepPreserves, PTL DEF Spec

(* Whatever parts are put together, one envelope for the reader is read.   *)
THEOREM NothingSpliced == Spec => []NoSplicing
<1>1. EnvelopeInv => NoSplicing
  BY DEF EnvelopeInv
<1> QED
  BY <1>1, EnvelopeInvariance, PTL

(* An envelope opens for its recipient, for ever, and for nobody else.     *)
THEOREM OnlyRecipientReads == Spec => []RecipientAndOnlyRecipientReads
<1>1. EnvelopeInv => RecipientAndOnlyRecipientReads
  <2> SUFFICES ASSUME EnvelopeInv, NEW i \in DOMAIN posted, NEW r \in Root,
                      posted[i].format = "v2" => \E w \in wraps[i] : w.by = posted[i].sender
               PROVE  OutcomeOf(i, r) = IF IsFor(i, r) THEN {PlaintextOf(i)} ELSE {}
    BY DEF RecipientAndOnlyRecipientReads
  <2>1. StoresOK
    BY DEF EnvelopeInv
  <2>2. CASE posted[i].format = "legacy"
    <3>1. OpenLegacy(r, posted[i].envelope.eph, posted[i].envelope.aes_key,
                     posted[i].envelope.iv, posted[i].envelope.data)
            = IF IsFor(i, r) THEN {i} ELSE {}
      BY <2>1, <2>2, LegacyParts DEF Of
    <3> QED
      BY <2>2, <3>1 DEF OutcomeOf, PlaintextOf
  <2>3. CASE posted[i].format = "v1"
    <3>1. OpenHybrid(r, posted[i].envelope.eph, posted[i].envelope.kem_ct,
                     posted[i].envelope.iv, posted[i].envelope.data)
            = IF IsFor(i, r) THEN {i} ELSE {}
      BY <2>1, <2>3, HybridParts DEF Of
    <3> QED
      BY <2>3, <3>1 DEF OutcomeOf, PlaintextOf
  <2>4. CASE posted[i].format = "xkem"
    <3>1. PICK k \in Root :
            /\ posted[i].envelope = Encapsulate(KemPub(KemSeed(k)), Random(i, "kem"))
            /\ IsFor(i, r) <=> k = r
      BY <2>1, <2>4, MadeFor
    <3>2. Decapsulate(KemSeed(r), posted[i].envelope.ct) = posted[i].envelope.ss
            <=> KemPub(KemSeed(k)) = KemPub(KemSeed(r))
      BY <3>1, KemSecret
    <3>3. KemPub(KemSeed(k)) = KemPub(KemSeed(r)) <=> k = r
      BY KeysNameWallets, Zenon
    <3> QED
      BY <2>4, <3>1, <3>2, <3>3 DEF OutcomeOf, PlaintextOf
  <2>5. CASE posted[i].format = "v2"
    <3>1. PICK w \in wraps[i] : w.by = posted[i].sender
      BY <2>5
    <3>2. wraps[i] = {w}
      BY <2>1, <2>5, <3>1 DEF StoresOK, AreWrapsOf
    <3>3. UNION {OpenV2(r, posted[i].envelope, stored.wrap, posted[i].envelope.blob) : stored \in wraps[i]}
            = OpenV2(r, posted[i].envelope, w.wrap, posted[i].envelope.blob)
      BY <3>2
    <3>4. OpenV2(r, posted[i].envelope, w.wrap, posted[i].envelope.blob)
            = IF IsFor(i, r) THEN {i} ELSE {}
      <4>1. i \in Of("v2")
        BY <2>5 DEF Of
      <4>2. OpenV2(r, posted[i].envelope, w.wrap, posted[i].envelope.blob)
              = IF /\ IsFor(i, r) /\ IsFor(i, r) /\ IsFor(i, r)
                   /\ posted[i].envelope.nonce = posted[i].envelope.nonce
                   /\ w.by = posted[i].sender
                THEN {i} ELSE {}
        BY <2>1, <4>1, V2Parts
      <4> QED
        BY <3>1, <4>2
    <3> QED
      BY <2>5, <3>3, <3>4 DEF OutcomeOf, PlaintextOf
  <2> QED
    BY <2>1, <2>2, <2>3, <2>4, <2>5 DEF StoresOK, IsMade
<1> QED
  BY <1>1, EnvelopeInvariance, PTL

(* A wrap derived from the wallet of the sender, and no other wallet, is   *)
(* the wrap as it was posted.                                              *)
THEOREM WrapsComeBack == Spec => []WrapsAreReproducible
<1>1. EnvelopeInv => WrapsAreReproducible
  <2> SUFFICES ASSUME EnvelopeInv, NEW i \in DOMAIN posted, NEW w \in wraps[i]
               PROVE  w.wrap = posted[i].envelope.wrap <=> w.by = posted[i].sender
    BY DEF WrapsAreReproducible
  <2>1. StoresOK
    BY DEF EnvelopeInv
  <2>2. posted[i].format = "v2" /\ AreWrapsOf(wraps[i], posted[i])
    BY <2>1 DEF StoresOK
  <2>3. PICK x, k : /\ posted[i].rx = XPub(XSeed(x)) /\ posted[i].rk = KemPub(KemSeed(k))
                    /\ posted[i].envelope
                         = EnvelopeV2(i, posted[i].sender, posted[i].envelope.nonce,
                                      XPub(XSeed(x)), KemPub(KemSeed(k)))
    BY <2>1, <2>2, MadeFor
  <2> DEFINE Made(r) == RegeneratedWrap(r, posted[i].envelope.nonce,
                                        XPub(XSeed(x)), KemPub(KemSeed(k)))
  <2>4. w.wrap = Made(w.by)
    BY <2>2, <2>3 DEF AreWrapsOf
  <2>5. posted[i].envelope.wrap = Made(posted[i].sender)
    <3>1. EnvelopeV2(i, posted[i].sender, posted[i].envelope.nonce,
                     XPub(XSeed(x)), KemPub(KemSeed(k))).wrap = Made(posted[i].sender)
      BY DEF EnvelopeV2, RegeneratedWrap
    <3> HIDE DEF Made
    <3> QED
      BY <2>3, <3>1
  <2>6. \A q, r : Made(q) = Made(r) <=> q = r
    BY SameWrap
  <2> QED
    BY <2>4, <2>5, <2>6, Zenon
<1> QED
  BY <1>1, EnvelopeInvariance, PTL

-----------------------------------------------------------------------------
(* Keys and IVs *)

(* What a ciphertext of the i-th envelope was sealed under: a wrap with    *)
(* the IV its seed gives, which also gives what is sealed; anything else   *)
(* with an IV drawn for the envelope, legacy's two under unlike keys.      *)
SealedAs(x, i) ==
    \/ \E seed64 : x.iv = Expand(seed64, "wrap-iv") /\ x.plaintext = Expand(seed64, "dk")
    \/ x.iv = Random(i, "blob-iv") /\ x.plaintext = i
    \/ /\ x.iv = Random(i, "iv") /\ x.plaintext = i
       /\ \A secret : x.key # <<"sha256", secret>>
    \/ /\ x.iv = Random(i, "iv") /\ x.plaintext = Random(i, "aes key")
       /\ \E secret : x.key = <<"sha256", secret>>

LEMMA CiphertextsSealed ==
  ASSUME StoresOK, NEW i \in DOMAIN posted, NEW x \in Ciphertexts(i)
  PROVE  SealedAs(x, i)
<1> DEFINE e == posted[i].envelope
<1>1. IsMade(posted[i], i) /\ (posted[i].format = "v2" => AreWrapsOf(wraps[i], posted[i]))
  BY DEF StoresOK
<1>2. CASE posted[i].format = "legacy"
  <2>1. e = LegacyEnvelope(i, posted[i].rx)
    BY <1>1, <1>2 DEF IsMade
  <2>2. x \in {e.aes_key, e.data}
    BY <1>2 DEF Ciphertexts
  <2>3. LET made == LegacyEnvelope(i, posted[i].rx)
        IN /\ made.aes_key.iv = Random(i, "iv") /\ made.aes_key.plaintext = Random(i, "aes key")
           /\ \E secret : made.aes_key.key = <<"sha256", secret>>
           /\ made.data.iv = Random(i, "iv") /\ made.data.plaintext = i
           /\ made.data.key = Random(i, "aes key")
    BY DEF LegacyEnvelope, Encrypt
  <2>4. \A secret : Random(i, "aes key") # <<"sha256", secret>>
    BY DEF Random
  <2> QED
    BY <2>1, <2>2, <2>3, <2>4 DEF SealedAs
<1>3. CASE posted[i].format = "v1"
  <2>1. e = HybridEnvelope(i, posted[i].rx, posted[i].rk)
    BY <1>1, <1>3 DEF IsMade
  <2>2. x = e.data
    BY <1>3 DEF Ciphertexts
  <2>3. LET made == HybridEnvelope(i, posted[i].rx, posted[i].rk)
        IN /\ made.data.iv = Random(i, "iv") /\ made.data.plaintext = i
           /\ \E u, v, w, y : made.data.key = HybridKey(u, v, w, y)
    BY DEF HybridEnvelope, Encrypt
  <2>4. \A u, v, w, y, secret : HybridKey(u, v, w, y) # <<"sha256", secret>>
    BY DEF HybridKey
  <2> QED
    BY <2>1, <2>2, <2>3, <2>4 DEF SealedAs
<1>4. CASE posted[i].format = "xkem"
  BY <1>4 DEF Ciphertexts
<1>5. CASE posted[i].format = "v2"
  <2>1. e = EnvelopeV2(i, posted[i].sender, e.nonce, posted[i].rx, posted[i].rk)
    BY <1>1, <1>5 DEF IsMade
  <2>2. x = e.blob.ct \/ \E w \in wraps[i] : x = w.wrap.ct
    BY <1>5 DEF Ciphertexts
  <2>3. CASE x = e.blob.ct
    <3>1. LET made == EnvelopeV2(i, posted[i].sender, e.nonce, posted[i].rx, posted[i].rk)
          IN made.blob.ct.iv = Random(i, "blob-iv") /\ made.blob.ct.plaintext = i
      BY DEF EnvelopeV2, BlobIv, Encrypt
    <3> HIDE DEF e
    <3> QED
      BY <2>1, <2>3, <3>1 DEF SealedAs
  <2>4. ASSUME NEW w \in wraps[i], x = w.wrap.ct PROVE SealedAs(x, i)
    <3>1. w.wrap = RegeneratedWrap(w.by, e.nonce, posted[i].rx, posted[i].rk)
      BY <1>1, <1>5 DEF AreWrapsOf
    <3>2. LET made == RegeneratedWrap(w.by, e.nonce, posted[i].rx, posted[i].rk)
          IN \E seed64 : /\ made.ct.iv = Expand(seed64, "wrap-iv")
                         /\ made.ct.plaintext = Expand(seed64, "dk")
      BY DEF RegeneratedWrap, WrapV2, Encrypt
    <3> QED
      BY <2>4, <3>1, <3>2 DEF SealedAs
  <2> QED
    BY <2>2, <2>3, <2>4
<1> QED
  BY <1>1, <1>2, <1>3, <1>4, <1>5 DEF IsMade

LEMMA IvsTell ==
  /\ \A s, t : Expand(s, "wrap-iv") = Expand(t, "wrap-iv") => s = t
  /\ \A s, i : Expand(s, "wrap-iv") # Random(i, "iv") /\ Expand(s, "wrap-iv") # Random(i, "blob-iv")
  /\ \A i, j : Random(i, "iv") # Random(j, "blob-iv")
  /\ \A i, j : Random(i, "iv") = Random(j, "iv") => i = j
  /\ \A i, j : Random(i, "blob-iv") = Random(j, "blob-iv") => i = j
BY DEF Expand, Random

(* No two messages are sealed under one key and IV, whatever nonces are    *)
(* used again and whoever regenerates wraps.                               *)
THEOREM KeysAndIvsOnce == Spec => []IvNeverReused
<1>1. EnvelopeInv => IvNeverReused
  <2> SUFFICES ASSUME EnvelopeInv, NEW i \in DOMAIN posted, NEW j \in DOMAIN posted,
                      NEW x \in Ciphertexts(i), NEW y \in Ciphertexts(j),
                      x.key = y.key, x.iv = y.iv
               PROVE  x.plaintext = y.plaintext
    BY DEF IvNeverReused
  <2>1. SealedAs(x, i) /\ SealedAs(y, j)
    BY CiphertextsSealed DEF EnvelopeInv
  <2> QED
    BY <2>1, IvsTell DEF SealedAs
<1> QED
  BY <1>1, EnvelopeInvariance, PTL
=============================================================================
