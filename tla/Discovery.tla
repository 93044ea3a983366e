----------------------------- MODULE Discovery -----------------------------
(***************************************************************************)
(* VA-DAR: a mnemonic is found and opened again with an e-mail address and *)
(* a password alone (vadar.rs, and its bindings in ffi.rs and wasm.rs).    *)
(*                                                                         *)
(* The library derives, from address and password, a discovery id, a key   *)
(* that seals the mnemonic into an artefact (SA2) and a key that signs     *)
(* registry updates.  Devices, the relayer with its registry and the       *)
(* artefact store are outside the repository; they are modelled from what  *)
(* the library computes for them.  Updates are lost, repeated, reordered   *)
(* and put together from parts; the store serves any artefact it has; a    *)
(* device looks up an entry first and fetches the artefact later.          *)
(*                                                                         *)
(* Cryptography is symbolic as in module Sealing.  Addresses are sequences *)
(* of characters, because two of them may name one mailbox.                *)
(***************************************************************************)
EXTENDS Integers, SequencesExt

CONSTANTS
  Password,    (* Passwords.                                              *)
  Spelling,    (* E-mail addresses as they are typed.                     *)
  Reaches,     (* From each spelling to the mailbox that mail to it       *)
               (* reaches, a user at a domain.                            *)
  LowerOf,     (* From capital letters to small ones.                     *)
  Mnemonic,    (* Mnemonics to back up.                                   *)
  MaxBackups   (* Bound: backups made in a behaviour.                     *)

VARIABLES
  backups,     (* The n-th backup: what a device sealed, uploaded, signed  *)
               (* and sent.                                               *)
  registry,    (* From discovery ids to entries.                          *)
  newest,      (* History: for password and mailbox the number of the     *)
               (* backup accepted last, 0 for none.                       *)
  device       (* The recovering device: its credentials, the entry it    *)
               (* looked up, the backup it should get, and its result.    *)

vars == <<backups, registry, newest, device>>

-----------------------------------------------------------------------------
(* normalize_email *)

Until(s, c) ==
    LET i == SelectInSeq(s, LAMBDA x : x = c)
    IN IF i = 0 THEN s ELSE SubSeq(s, 1, i - 1)

Space == " "

Trim(s) ==
    LET word == {i \in DOMAIN s : s[i] # Space}
    IN IF word = {} THEN << >> ELSE SubSeq(s, Min(word), Max(word))

LowerCase(s) ==
    [i \in DOMAIN s |-> IF s[i] \in DOMAIN LowerOf THEN LowerOf[s[i]] ELSE s[i]]

(* Mutants of NormalizeEmail: the tag stays; dots are taken out.           *)
NormalizeKeepsTag(email) == LowerCase(Trim(email))
NormalizeDropsDots(email) ==
    LET s == LowerCase(Trim(email))
    IN SelectSeq(Until(Until(s, "@"), "+"), LAMBDA x : x # ".")
         \o SubSeq(s, Len(Until(s, "@")) + 1, Len(s))

(* Split at the first "@"; the local part ends at its first "+".           *)
NormalizeEmail(email) ==
    LET s == LowerCase(Trim(email))
        local == Until(s, "@")
    IN IF local = s THEN s
       ELSE Until(local, "+") \o SubSeq(s, Len(local) + 1, Len(s))

(* Mail to an address reaches its mailbox, whatever the case, with spaces  *)
(* around it, and a tag after the user's name, which begins with a "+"     *)
(* (RFC 5233).  The tag is what is between plus and at.                    *)
IsAddressOf(email, mailbox) ==
    \E first, plus, at, last \in DOMAIN email :
      /\ first <= plus /\ plus <= at /\ at <= last
      /\ \A i \in DOMAIN email : i < first \/ i > last => email[i] = Space
      /\ email[first] # Space /\ email[last] # Space
      /\ \A i \in first..(at - 1) : email[i] # "@"
      /\ \A i \in first..(plus - 1) : email[i] # "+"
      /\ email[at] = "@" /\ email[plus] \in {"+", "@"}
      /\ mailbox = [user   |-> LowerCase(SubSeq(email, first, plus - 1)),
                    domain |-> LowerCase(SubSeq(email, at + 1, last))]

ASSUME ReachesAssumption ==
    /\ DOMAIN Reaches = Spelling
    /\ \A s \in Spelling : s \in Seq(Range(s)) /\ IsAddressOf(s, Reaches[s])

(* Case concerns letters only.                                             *)
ASSUME LowerAssumption ==
    (DOMAIN LowerOf \cup Range(LowerOf)) \cap {"@", "+"} = {}

-----------------------------------------------------------------------------
(* Keys, all from one base key whose salt is the normalised address *)

VadarBaseKey(p, email) == <<"argon2id-vadar", email, p>>

Ksa(p, email) == <<"acegf:sa2:seal", VadarBaseKey(p, email)>>
Kidx(p, email) == <<"va-dar:discovery:index", VadarBaseKey(p, email)>>
Kreg(p, email) == <<"va-dar:registry:auth", VadarBaseKey(p, email)>>

DiscoveryId(p, email) == <<"hmac", Kidx(p, email), email>>

OwnerSeed(p, email) == <<"va-dar:owner:keypair", email, Kreg(p, email)>>
OwnerPubkey(p, email) == <<"ed25519", OwnerSeed(p, email)>>

(* AES-256-GCM-SIV under a random nonce, bound to version, algorithm and   *)
(* address.                                                                *)
SealSa2(m, p, email, nonce) ==
    [nonce |-> nonce, key |-> Ksa(p, email), aad |-> email, mnemonic |-> m]

UnsealSa2(sa2, p, email) ==
    IF sa2.key = Ksa(p, email) /\ sa2.aad = email THEN {sa2.mnemonic} ELSE {}

Commit(sa2) == <<"sha256", sa2>>

UpdateMessageNoCommit(id, cid, version, commit) ==   \* mutant of UpdateMessage
    <<"vadar-update", id, cid, version>>

UpdateMessage(id, cid, version, commit) ==
    <<"vadar-update", id, cid, version, commit>>

SignUpdate(p, email, id, cid, version, commit) ==
    [seed |-> OwnerSeed(p, email), msg |-> UpdateMessage(id, cid, version, commit)]

UpdateVerifies(pubkey, msg, sig) == pubkey = <<"ed25519", sig.seed>> /\ sig.msg = msg

-----------------------------------------------------------------------------
(* A device backs up *)

Version(id) == IF id \in DOMAIN registry THEN registry[id].version ELSE 0

(* It seals under a new nonce, uploads, and signs the version after the    *)
(* one it saw; the artefact store names uploads by its own cid.            *)
NewBackup(p, spelling, m) ==
    LET email == NormalizeEmail(spelling)
        n     == Len(backups) + 1
        id    == DiscoveryId(p, email)
        sa2   == SealSa2(m, p, email, n)
    IN [password |-> p, mailbox |-> Reaches[spelling],
        id |-> id, pubkey |-> OwnerPubkey(p, email),
        cid |-> n, sa2 |-> sa2, version |-> Version(id) + 1,
        sig |-> SignUpdate(p, email, id, n, Version(id) + 1, Commit(sa2))]

Backup(p, spelling, m) ==
    /\ Len(backups) < MaxBackups
    /\ backups' = Append(backups, NewBackup(p, spelling, m))
    /\ UNCHANGED <<registry, newest, device>>

-----------------------------------------------------------------------------
(* The relayer *)

(* The owner of an id is whoever created it.                               *)
Owner(b) == IF b.id \in DOMAIN registry THEN registry[b.id].pubkey ELSE b.pubkey

(* It rebuilds the message from the cid of update a and the commit of      *)
(* update c, and takes it for update b if b's signature says so and the    *)
(* version is new.                                                         *)
Accept(n, a, c) ==
    LET b == backups[n]
        commit == Commit(backups[c].sa2)
    IN /\ b.version > Version(b.id)
       /\ UpdateVerifies(Owner(b), UpdateMessage(b.id, backups[a].cid, b.version, commit), b.sig)
       /\ registry' =
            [id \in DOMAIN registry \cup {b.id} |->
               IF id = b.id
               THEN [pubkey |-> Owner(b), cid |-> backups[a].cid,
                     version |-> b.version, commit |-> commit]
               ELSE registry[id]]
       /\ newest' = [newest EXCEPT ![<<b.password, b.mailbox>>] = n]
       /\ UNCHANGED <<backups, device>>

-----------------------------------------------------------------------------
(* A device recovers *)

Idle == [phase |-> "idle"]

Lookup(p, spelling) ==
    LET id == DiscoveryId(p, NormalizeEmail(spelling))
    IN /\ device' = [phase    |-> IF id \in DOMAIN registry THEN "found" ELSE "not found",
                     password |-> p,
                     spelling |-> spelling,
                     entry    |-> IF id \in DOMAIN registry THEN {registry[id]} ELSE {},
                     wanted   |-> newest[<<p, Reaches[spelling]>>]]
       /\ UNCHANGED <<backups, registry, newest>>

(* The store was asked for the cid of the entry and serves upload n: the   *)
(* commit tells the right artefact, whatever happened to the entry since.  *)
Fetch(n) ==
    /\ device.phase = "found"
    /\ LET sa2    == backups[n].sa2
           entry  == CHOOSE e \in device.entry : TRUE
           opened == UnsealSa2(sa2, device.password, NormalizeEmail(device.spelling))
       IN device' =
            [phase    |-> IF Commit(sa2) # entry.commit THEN "wrong artefact"
                          ELSE IF opened = {} THEN "unseal failed" ELSE "recovered",
             password |-> device.password,
             spelling |-> device.spelling,
             wanted   |-> device.wanted,
             asked    |-> entry.cid,
             served   |-> n,
             mnemonic |-> IF Commit(sa2) = entry.commit THEN opened ELSE {}]
    /\ UNCHANGED <<backups, registry, newest>>

-----------------------------------------------------------------------------
Init ==
    /\ backups = << >>
    /\ registry = [id \in {} |-> {}]
    /\ newest = [owner \in Password \X Range(Reaches) |-> 0]
    /\ device = Idle

Next ==
    \/ \E p \in Password, s \in Spelling, m \in Mnemonic : Backup(p, s, m)
    \/ \E n, a, c \in DOMAIN backups : Accept(n, a, c)
    \/ \E p \in Password, s \in Spelling : Lookup(p, s)
    \/ \E n \in DOMAIN backups : Fetch(n)

Spec == Init /\ [][Next]_vars

-----------------------------------------------------------------------------
(* Correctness *)

(* What a device recovers was backed up under its password for its own     *)
(* mailbox, by whatever spelling, and was the newest such backup accepted  *)
(* when the entry was looked up.                                           *)
RecoversNewestBackup ==
    device.phase = "recovered" =>
      /\ device.wanted # 0
      /\ LET b == backups[device.wanted]
         IN /\ b.password = device.password
            /\ b.mailbox = Reaches[device.spelling]
            /\ device.mnemonic = {b.sa2.mnemonic}

(* Address and password suffice: after a backup was accepted, a device     *)
(* with any spelling of the mailbox finds it, and what it asks the store   *)
(* for is what it needs.                                                   *)
AcceptedBackupsAreFound ==
    /\ device.phase = "not found" => device.wanted = 0
    /\ device.phase # "unseal failed"
    /\ device.phase = "wrong artefact" => device.served # device.asked

(* An entry changes as a whole, to one that its owner signed: parts of     *)
(* different updates never meet, and nobody else's update takes an id.     *)
EntriesStayWhole ==
    \A id \in DOMAIN registry :
      LET e == registry[id]
          b == backups[e.cid]
      IN /\ e.commit = Commit(b.sa2)
         /\ e.version = b.version
         /\ e.pubkey = b.pubkey /\ id = b.id
=============================================================================
