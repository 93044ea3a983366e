---------------------------- MODULE Services_proof ----------------------------
(***************************************************************************)
(* Proofs about Discovery, for any addresses, passwords and mnemonics and  *)
(* any number of backups; and about HfiPay, for any wallets, passphrases,  *)
(* identifiers, refunds and epochs, any number of mnemonics and replies,   *)
(* hashes of any length and fields of any size.                            *)
(***************************************************************************)
EXTENDS Discovery, HfiPay, TLAPS, SequenceTheorems

-----------------------------------------------------------------------------
(* Discovery *)

(* What a device makes as the n-th backup, of version v.                   *)
Made(p, spelling, m, n, v) ==
    LET email == NormalizeEmail(spelling)
        sa2   == SealSa2(m, p, email, n)
        id    == DiscoveryId(p, email)
    IN [password |-> p, mailbox |-> Reaches[spelling],
        id |-> id, pubkey |-> OwnerPubkey(p, email),
        cid |-> n, sa2 |-> sa2, version |-> v,
        sig |-> SignUpdate(p, email, id, n, v, Commit(sa2))]

MadeBackups == {Made(p, s, m, n, v) : p \in Password, s \in Spelling, m \in Mnemonic,
                                      n \in Nat, v \in Nat}

BackupsOK ==
    /\ backups \in Seq(MadeBackups)
    /\ \A n \in DOMAIN backups : backups[n].cid = n

(* An entry is one backup, as its owner signed it.                         *)
IsEntryOf(e, n) ==
    /\ n \in DOMAIN backups
    /\ e.cid = n
    /\ e.commit = Commit(backups[n].sa2)
    /\ e.version = backups[n].version
    /\ e.pubkey = backups[n].pubkey

RegistryOK ==
    \A id \in DOMAIN registry :
      /\ IsEntryOf(registry[id], registry[id].cid)
      /\ backups[registry[id].cid].id = id
      /\ registry[id].version \in Nat

DiscoveryInv == BackupsOK /\ RegistryOK

-----------------------------------------------------------------------------
(* The n-th backup, and who made it.                                       *)
LEMMA BackupsAreMade ==
  ASSUME BackupsOK, NEW n \in DOMAIN backups
  PROVE  \E p \in Password, s \in Spelling, m \in Mnemonic, v \in Nat :
           backups[n] = Made(p, s, m, n, v)
<1>1. n \in 1..Len(backups) /\ backups[n] \in MadeBackups /\ backups[n].cid = n
  BY DEF BackupsOK
<1>2. PICK p \in Password, s \in Spelling, m \in Mnemonic, k \in Nat, v \in Nat :
        backups[n] = Made(p, s, m, k, v)
  BY <1>1 DEF MadeBackups
<1>3. k = n
  BY <1>1, <1>2 DEF Made
<1> QED
  BY <1>2, <1>3

(* The fields of a backup.                                                 *)
LEMMA MadeFields ==
  ASSUME NEW p, NEW s, NEW m, NEW n, NEW v
  PROVE  LET b == Made(p, s, m, n, v)
             email == NormalizeEmail(s)
         IN /\ b.password = p /\ b.mailbox = Reaches[s]
            /\ b.id = DiscoveryId(p, email) /\ b.pubkey = OwnerPubkey(p, email)
            /\ b.cid = n /\ b.version = v /\ b.sa2 = SealSa2(m, p, email, n)
            /\ b.sig = SignUpdate(p, email, b.id, n, v, Commit(b.sa2))
BY DEF Made

LEMMA BackupAppends ==
  ASSUME DiscoveryInv, NEW p \in Password, NEW s \in Spelling, NEW m \in Mnemonic,
         Backup(p, s, m)
  PROVE  /\ BackupsOK'
         /\ Len(backups') = Len(backups) + 1
         /\ \A n \in DOMAIN backups : n \in DOMAIN backups' /\ backups'[n] = backups[n]
<1> DEFINE b == NewBackup(p, s, m)
           v == Version(DiscoveryId(p, NormalizeEmail(s))) + 1
<1>1. backups \in Seq(MadeBackups) /\ backups' = Append(backups, b)
  BY DEF DiscoveryInv, BackupsOK, Backup
<1>2. Len(backups) \in Nat
  BY <1>1
<1>3. v \in Nat
  BY DEF DiscoveryInv, RegistryOK, Version
<1>4. b = Made(p, s, m, Len(backups) + 1, v)
  BY DEF NewBackup, Made
<1>5. b.cid = Len(backups) + 1
  BY <1>4, MadeFields
<1> HIDE DEF b, v
<1>6. b \in MadeBackups
  BY <1>2, <1>3, <1>4 DEF MadeBackups
<1>7. /\ backups' \in Seq(MadeBackups)
      /\ Len(backups') = Len(backups) + 1
      /\ DOMAIN backups = 1..Len(backups) /\ DOMAIN backups' = 1..(Len(backups) + 1)
      /\ \A n \in 1..Len(backups) : backups'[n] = backups[n]
      /\ backups'[Len(backups) + 1] = b
  BY <1>1, <1>6
<1>8. \A n \in DOMAIN backups' : backups'[n].cid = n
  <2> SUFFICES ASSUME NEW n \in DOMAIN backups' PROVE backups'[n].cid = n
    OBVIOUS
  <2>1. CASE n = Len(backups) + 1
    BY <1>5, <1>7, <2>1
  <2>2. CASE n # Len(backups) + 1
    <3>1. n \in DOMAIN backups
      BY <1>2, <1>7, <2>2
    <3> QED
      BY <1>7, <3>1 DEF DiscoveryInv, BackupsOK
  <2> QED
    BY <2>1, <2>2
<1> QED
  BY <1>2, <1>7, <1>8 DEF BackupsOK

(* Whatever the relayer takes is one whole backup by the owner of the id.  *)
LEMMA AcceptsWhole ==
  ASSUME DiscoveryInv, NEW n \in DOMAIN backups, NEW a \in DOMAIN backups,
         NEW c \in DOMAIN backups, Accept(n, a, c)
  PROVE  /\ backups[a].cid = n
         /\ Commit(backups[c].sa2) = Commit(backups[n].sa2)
         /\ Owner(backups[n]) = backups[n].pubkey
         /\ backups[n].version \in Nat
<1>1. PICK p \in Password, s \in Spelling, m \in Mnemonic, v \in Nat :
        backups[n] = Made(p, s, m, n, v)
  BY BackupsAreMade DEF DiscoveryInv
<1> DEFINE b == backups[n]
           email == NormalizeEmail(s)
<1>2. /\ b.id = DiscoveryId(p, email) /\ b.pubkey = OwnerPubkey(p, email)
      /\ b.version = v
      /\ b.sig = SignUpdate(p, email, b.id, n, v, Commit(b.sa2))
  BY <1>1, MadeFields
<1>3. UpdateVerifies(Owner(b), UpdateMessage(b.id, backups[a].cid, b.version, Commit(backups[c].sa2)), b.sig)
  BY DEF Accept
<1>4. /\ Owner(b) = <<"ed25519", b.sig.seed>>
      /\ b.sig.msg = UpdateMessage(b.id, backups[a].cid, b.version, Commit(backups[c].sa2))
  BY <1>3 DEF UpdateVerifies
<1>5. /\ b.sig.seed = OwnerSeed(p, email)
      /\ b.sig.msg = UpdateMessage(b.id, n, v, Commit(b.sa2))
  BY <1>2 DEF SignUpdate
<1>6. Owner(b) = b.pubkey
  BY <1>2, <1>4, <1>5 DEF OwnerPubkey
<1>7. backups[a].cid = n /\ Commit(backups[c].sa2) = Commit(b.sa2)
  BY <1>4, <1>5 DEF UpdateMessage
<1> QED
  BY <1>2, <1>6, <1>7

LEMMA AcceptPreserves ==
  ASSUME DiscoveryInv, NEW n \in DOMAIN backups, NEW a \in DOMAIN backups,
         NEW c \in DOMAIN backups, Accept(n, a, c)
  PROVE  /\ DiscoveryInv'
         /\ DOMAIN registry' = DOMAIN registry \cup {backups[n].id}
         /\ registry'[backups[n].id].cid = n
         /\ \A id \in DOMAIN registry : id # backups[n].id => registry'[id] = registry[id]
<1> DEFINE b == backups[n]
           new == [pubkey |-> Owner(b), cid |-> backups[a].cid,
                   version |-> b.version, commit |-> Commit(backups[c].sa2)]
<1>1. /\ backups' = backups
      /\ registry' = [id \in DOMAIN registry \cup {b.id} |-> IF id = b.id THEN new ELSE registry[id]]
  BY DEF Accept
<1>2. new.cid = n /\ new.commit = Commit(b.sa2) /\ new.pubkey = b.pubkey /\ new.version = b.version
      /\ b.version \in Nat
  BY AcceptsWhole
<1> HIDE DEF new
<1>3. /\ DOMAIN registry' = DOMAIN registry \cup {b.id}
      /\ registry'[b.id] = new
      /\ \A id \in DOMAIN registry : id # b.id => registry'[id] = registry[id]
  BY <1>1
<1>4. BackupsOK'
  BY <1>1 DEF DiscoveryInv, BackupsOK
<1>5. RegistryOK'
  <2> SUFFICES ASSUME NEW id \in DOMAIN registry'
               PROVE  /\ IsEntryOf(registry[id], registry[id].cid)'
                      /\ backups'[registry'[id].cid].id = id
                      /\ registry'[id].version \in Nat
    BY DEF RegistryOK
  <2>1. CASE id = b.id
    BY <1>1, <1>2, <1>3, <2>1 DEF IsEntryOf
  <2>2. CASE id # b.id
    <3>1. id \in DOMAIN registry /\ registry'[id] = registry[id]
      BY <1>3, <2>2
    <3> QED
      BY <1>1, <3>1 DEF DiscoveryInv, RegistryOK, IsEntryOf
  <2> QED
    BY <2>1, <2>2
<1> QED
  BY <1>2, <1>3, <1>4, <1>5 DEF DiscoveryInv

-----------------------------------------------------------------------------
(* The invariant is inductive *)

LEMMA DiscoveryInitInv == Init => DiscoveryInv
<1> SUFFICES ASSUME Init PROVE DiscoveryInv
  OBVIOUS
<1>1. backups = << >> /\ DOMAIN registry = {}
  BY DEF Init
<1>2. BackupsOK
  BY <1>1 DEF BackupsOK
<1>3. RegistryOK
  BY <1>1 DEF RegistryOK
<1> QED
  BY <1>2, <1>3 DEF DiscoveryInv

LEMMA BackupPreserves ==
  ASSUME DiscoveryInv, NEW p \in Password, NEW s \in Spelling, NEW m \in Mnemonic,
         Backup(p, s, m)
  PROVE  DiscoveryInv'
<1>1. /\ BackupsOK'
      /\ \A n \in DOMAIN backups : n \in DOMAIN backups' /\ backups'[n] = backups[n]
  BY BackupAppends
<1>2. registry' = registry
  BY DEF Backup
<1>3. RegistryOK'
  BY <1>1, <1>2 DEF DiscoveryInv, RegistryOK, IsEntryOf
<1> QED
  BY <1>1, <1>3 DEF DiscoveryInv

LEMMA DiscoveryStepPreserves == DiscoveryInv /\ [Next]_vars => DiscoveryInv'
<1> SUFFICES ASSUME DiscoveryInv, [Next]_vars PROVE DiscoveryInv'
  OBVIOUS
<1>1. CASE backups' = backups /\ registry' = registry
  BY <1>1 DEF DiscoveryInv, BackupsOK, RegistryOK, IsEntryOf
<1>2. ASSUME NEW p \in Password, NEW s \in Spelling, NEW m \in Mnemonic, Backup(p, s, m)
      PROVE  DiscoveryInv'
  BY <1>2, BackupPreserves
<1>3. ASSUME NEW n \in DOMAIN backups, NEW a \in DOMAIN backups, NEW c \in DOMAIN backups,
             Accept(n, a, c)
      PROVE  DiscoveryInv'
  BY <1>3, AcceptPreserves
<1>4. ASSUME NEW p, NEW s, Lookup(p, s) PROVE DiscoveryInv'
  BY <1>1, <1>4 DEF Lookup
<1>5. ASSUME NEW n, Fetch(n) PROVE DiscoveryInv'
  BY <1>1, <1>5 DEF Fetch
<1>6. CASE UNCHANGED vars
  BY <1>1, <1>6 DEF vars
<1> QED
  BY <1>2, <1>3, <1>4, <1>5, <1>6 DEF Next

(* The inductive invariant of the registry: what devices made, and entries *)
(* that are one backup each.                                               *)
THEOREM DiscoveryInvariance == Spec => []DiscoveryInv
BY DiscoveryInitInv, DiscoveryStepPreserves, PTL DEF Spec

(* No mixing of updates and no taking of an id, whatever the relayer is    *)
(* told, for any number of backups.                                        *)
THEOREM WholeEntries == Spec => []EntriesStayWhole
<1>1. DiscoveryInv => EntriesStayWhole
  BY DEF DiscoveryInv, RegistryOK, IsEntryOf, EntriesStayWhole
<1> QED
  BY <1>1, DiscoveryInvariance, PTL

-----------------------------------------------------------------------------
(* Addresses *)

Character == {"@", "+"} \cup Range(LowerOf) \cup UNION {Range(s) : s \in Spelling}

LEMMA Characters ==
  /\ "@" \in Character /\ "+" \in Character
  /\ \A c \in DOMAIN LowerOf : LowerOf[c] \in Character
  /\ \A s \in Spelling : s \in Seq(Character)
<1>1. "@" \in Character /\ "+" \in Character
  BY Zenon DEF Character
<1>2. ASSUME NEW c \in DOMAIN LowerOf PROVE LowerOf[c] \in Character
  <2>1. LowerOf[c] \in Range(LowerOf)
    BY Zenon DEF Range
  <2> QED
    BY <2>1, Zenon DEF Character
<1>3. ASSUME NEW s \in Spelling PROVE s \in Seq(Character)
  <2>1. s \in Seq(Range(s))
    BY ReachesAssumption
  <2>2. Range(s) \subseteq Character
    BY Zenon DEF Character
  <2> QED
    BY <2>1, <2>2
<1> QED
  BY <1>1, <1>2, <1>3

(* A text is cut at the first such character, or nowhere.                  *)
LEMMA UntilIs ==
  ASSUME NEW s \in Seq(Character), NEW c \in Character, NEW n \in 0..Len(s),
         \A i \in 1..n : s[i] # c, n < Len(s) => s[n + 1] = c
  PROVE  Until(s, c) = SubSeq(s, 1, n)
<1> DEFINE I == {i \in 1..Len(s) : s[i] = c}
<1>1. Until(s, c) = (IF I = {} THEN s ELSE SubSeq(s, 1, Min(I) - 1)) \/ (I # {} /\ Min(I) = 0)
  BY Zenon DEF Until, SelectInSeq
<1>2. CASE n = Len(s)
  <2>1. I = {}
    BY <1>2
  <2>2. Until(s, c) = s
    BY <2>1, Zenon DEF Until, SelectInSeq
  <2> QED
    BY <1>2, <2>2, SubSeqFull
<1>3. CASE n < Len(s)
  <2>1. n + 1 \in I /\ \A i \in I : n + 1 <= i
    BY <1>3
  <2>2. Min(I) \in I /\ \A i \in I : Min(I) <= i
    BY <2>1, Zenon DEF Min
  <2>3. Min(I) = n + 1
    BY <2>1, <2>2
  <2>4. I # {} /\ Min(I) # 0 /\ Min(I) - 1 = n
    BY <2>1, <2>3
  <2>5. Until(s, c) = SubSeq(s, 1, Min(I) - 1)
    BY <2>4, Zenon DEF Until, SelectInSeq
  <2> QED
    BY <2>4, <2>5
<1> QED
  BY <1>2, <1>3

(* Spaces go, and only those around the text.                              *)
LEMMA TrimIs ==
  ASSUME NEW s \in Seq(Character), NEW first \in 1..Len(s), NEW last \in 1..Len(s), first <= last,
         s[first] # Space, s[last] # Space,
         \A i \in 1..Len(s) : i < first \/ i > last => s[i] = Space
  PROVE  Trim(s) = SubSeq(s, first, last)
<1> DEFINE word == {i \in DOMAIN s : s[i] # Space}
<1>1. first \in word /\ last \in word /\ \A i \in word : first <= i /\ i <= last
  OBVIOUS
<1>2. Min(word) \in word /\ \A i \in word : Min(word) <= i
  BY <1>1, Zenon DEF Min
<1>3. Max(word) \in word /\ \A i \in word : Max(word) >= i
  <2>1. \A i \in word : last >= i
    BY <1>1
  <2> QED
    BY <1>1, <2>1, Zenon DEF Max
<1>4. word \subseteq Int
  OBVIOUS
<1> HIDE DEF word
<1>5. Min(word) = first
  <2>1. Min(word) <= first /\ first <= Min(word) /\ Min(word) \in Int
    BY <1>1, <1>2, <1>4
  <2> QED
    BY <2>1
<1>6. Max(word) = last
  <2>1. Max(word) <= last /\ last <= Max(word) /\ Max(word) \in Int
    BY <1>1, <1>3, <1>4
  <2> QED
    BY <2>1
<1> QED
  BY <1>1, <1>5, <1>6, Zenon DEF Trim, word

(* Letters change one by one, and "@" and "+" are none.                    *)
LEMMA LowerIs ==
  ASSUME NEW s \in Seq(Character)
  PROVE  /\ LowerCase(s) \in Seq(Character) /\ Len(LowerCase(s)) = Len(s)
         /\ \A i \in 1..Len(s) : /\ LowerCase(s)[i] = "@" <=> s[i] = "@"
                                 /\ LowerCase(s)[i] = "+" <=> s[i] = "+"
<1>1. \A i \in 1..Len(s) : s[i] \in Character
  OBVIOUS
<1>2. LowerCase(s) = [i \in 1..Len(s) |-> IF s[i] \in DOMAIN LowerOf THEN LowerOf[s[i]] ELSE s[i]]
  BY DEF LowerCase
<1>3. \A i \in 1..Len(s) : LowerCase(s)[i] \in Character
  BY <1>1, <1>2, Characters
<1>4. \A i \in 1..Len(s) : /\ LowerCase(s)[i] = "@" <=> s[i] = "@"
                           /\ LowerCase(s)[i] = "+" <=> s[i] = "+"
  <2>1. \A c \in DOMAIN LowerOf : c \notin {"@", "+"} /\ LowerOf[c] \notin {"@", "+"}
    BY LowerAssumption, Zenon DEF Range
  <2> QED
    BY <1>1, <1>2, <2>1
<1>5. Len(s) \in Nat /\ LowerCase(s) \in [1..Len(s) -> Character]
  BY <1>2, <1>3
<1> QED
  BY <1>4, <1>5

(* Parts of a text in small letters are small letters of its parts.        *)
LEMMA LowerOfPart ==
  ASSUME NEW s \in Seq(Character), NEW m \in 1..Len(s) + 1, NEW n \in 0..Len(s)
  PROVE  LowerCase(SubSeq(s, m, n)) = SubSeq(LowerCase(s), m, n)
<1> DEFINE lower == LowerCase(s)
           part == SubSeq(s, m, n)
<1>1. lower \in Seq(Character) /\ Len(lower) = Len(s)
  BY LowerIs
<1>2. /\ part \in Seq(Character) /\ Len(part) = (IF m <= n THEN n - m + 1 ELSE 0)
      /\ \A i \in 1..(n - m + 1) : part[i] = s[m + i - 1]
  BY SubSeqProperties
<1>3. /\ SubSeq(lower, m, n) \in Seq(Character)
      /\ Len(SubSeq(lower, m, n)) = (IF m <= n THEN n - m + 1 ELSE 0)
      /\ \A i \in 1..(n - m + 1) : SubSeq(lower, m, n)[i] = lower[m + i - 1]
  BY <1>1, SubSeqProperties
<1>4. LowerCase(part) \in Seq(Character) /\ Len(LowerCase(part)) = Len(part)
  BY <1>2, LowerIs
<1>5. ASSUME NEW i \in 1..Len(part) PROVE LowerCase(part)[i] = SubSeq(lower, m, n)[i]
  <2>1. i \in 1..(n - m + 1) /\ m + i - 1 \in 1..Len(s)
    BY <1>2
  <2>2. part[i] = s[m + i - 1] /\ SubSeq(lower, m, n)[i] = lower[m + i - 1]
    BY <1>2, <1>3, <2>1
  <2>3. LowerCase(part)[i] = IF part[i] \in DOMAIN LowerOf THEN LowerOf[part[i]] ELSE part[i]
    BY DEF LowerCase
  <2>4. lower[m + i - 1] = IF s[m + i - 1] \in DOMAIN LowerOf THEN LowerOf[s[m + i - 1]] ELSE s[m + i - 1]
    BY <2>1 DEF LowerCase
  <2> QED
    BY <2>2, <2>3, <2>4
<1> QED
  BY <1>2, <1>3, <1>4, <1>5, SeqEqual

(* A part of a part.                                                       *)
LEMMA PartOfPart ==
  ASSUME NEW s \in Seq(Character), NEW first \in 1..Len(s), NEW last \in first..Len(s),
         NEW m \in first..(last + 1), NEW n \in (first - 1)..last
  PROVE  SubSeq(s, m, n) = SubSeq(SubSeq(s, first, last), m - first + 1, n - first + 1)
<1> DEFINE t == SubSeq(s, first, last)
           part == SubSeq(s, m, n)
           same == SubSeq(t, m - first + 1, n - first + 1)
<1>1. /\ t \in Seq(Character) /\ Len(t) = last - first + 1
      /\ \A i \in 1..(last - first + 1) : t[i] = s[first + i - 1]
  BY SubSeqProperties
<1>2. /\ part \in Seq(Character) /\ Len(part) = (IF m <= n THEN n - m + 1 ELSE 0)
      /\ \A i \in 1..(n - m + 1) : part[i] = s[m + i - 1]
  BY SubSeqProperties
<1>3. /\ same \in Seq(Character) /\ Len(same) = (IF m <= n THEN n - m + 1 ELSE 0)
      /\ \A i \in 1..(n - m + 1) : same[i] = t[m - first + 1 + i - 1]
  <2> DEFINE k == m - first + 1
             l == n - first + 1
  <2>1. k \in Int /\ l \in Int /\ l - k + 1 = n - m + 1 /\ (k <= l <=> m <= n)
    OBVIOUS
  <2>2. \A i \in k..l : i \in 1..Len(t)
    BY <1>1
  <2>3. \A i \in k..l : t[i] \in Character
    BY <1>1, <2>2
  <2> HIDE DEF k, l, t
  <2>4. /\ SubSeq(t, k, l) \in Seq(Character) /\ Len(SubSeq(t, k, l)) = (IF k <= l THEN l - k + 1 ELSE 0)
        /\ \A i \in 1..(l - k + 1) : SubSeq(t, k, l)[i] = t[k + i - 1]
    BY <2>1, <2>3, SubSeqProperties
  <2> QED
    BY <2>1, <2>4 DEF k, l
<1>4. ASSUME NEW i \in 1..Len(part) PROVE part[i] = same[i]
  <2>1. i \in 1..(n - m + 1) /\ m - first + i \in 1..(last - first + 1)
    BY <1>2
  <2>2. t[m - first + i] = s[m + i - 1]
    BY <1>1, <2>1
  <2>3. m - first + 1 + i - 1 = m - first + i
    BY <2>1
  <2>4. part[i] = s[m + i - 1] /\ same[i] = t[m - first + i]
    BY <1>2, <1>3, <2>1, <2>3
  <2> QED
    BY <2>2, <2>4
<1> HIDE DEF part, same
<1>5. part = same
  BY <1>2, <1>3, <1>4, SeqEqual
<1> QED
  BY <1>5 DEF part, same, t

(* A mailbox as a text.                                                    *)
AsText(mailbox) == mailbox.user \o (<<"@">> \o mailbox.domain)

IsMailbox(mailbox) ==
    /\ mailbox = [user |-> mailbox.user, domain |-> mailbox.domain]
    /\ mailbox.user \in Seq(Character) /\ mailbox.domain \in Seq(Character)
    /\ \A i \in 1..Len(mailbox.user) : mailbox.user[i] # "@"

(* Whatever is typed for a mailbox, the normaliser makes of it the text of *)
(* the mailbox.                                                            *)
THEOREM NormalizedIs ==
  ASSUME NEW s \in Seq(Character), NEW mailbox, IsAddressOf(s, mailbox)
  PROVE  NormalizeEmail(s) = AsText(mailbox) /\ IsMailbox(mailbox)
<1>1. PICK first \in DOMAIN s, plus \in DOMAIN s, at \in DOMAIN s, last \in DOMAIN s :
        /\ first <= plus /\ plus <= at /\ at <= last
        /\ \A i \in DOMAIN s : i < first \/ i > last => s[i] = Space
        /\ s[first] # Space /\ s[last] # Space
        /\ \A i \in first..(at - 1) : s[i] # "@"
        /\ \A i \in first..(plus - 1) : s[i] # "+"
        /\ s[at] = "@" /\ s[plus] \in {"+", "@"}
        /\ mailbox = [user   |-> LowerCase(SubSeq(s, first, plus - 1)),
                      domain |-> LowerCase(SubSeq(s, at + 1, last))]
  BY DEF IsAddressOf
<1> DEFINE t == SubSeq(s, first, last)
           low == LowerCase(t)
<1>2. DOMAIN s = 1..Len(s) /\ Len(s) \in Nat
  OBVIOUS
<1>3. PICK N \in Nat, a \in Nat, p \in Nat :
        /\ a \in 1..N /\ p \in 1..a
        /\ last = first + N - 1 /\ at = first + a - 1 /\ plus = first + p - 1
  <2>1. /\ last - first + 1 \in Nat /\ at - first + 1 \in Nat /\ plus - first + 1 \in Nat
        /\ at - first + 1 \in 1..(last - first + 1)
        /\ plus - first + 1 \in 1..(at - first + 1)
    BY <1>1, <1>2
  <2>2. /\ last = first + (last - first + 1) - 1 /\ at = first + (at - first + 1) - 1
        /\ plus = first + (plus - first + 1) - 1
    BY <1>1, <1>2
  <2> QED
    BY <2>1, <2>2
<1>4. t \in Seq(Character) /\ Len(t) = N /\ \A i \in 1..N : t[i] = s[first + i - 1]
  <2>1. first <= last /\ first \in Int /\ last \in Int /\ \A i \in first..last : s[i] \in Character
    BY <1>1, <1>2
  <2>2. first \in Int /\ last - first + 1 = N
    BY <1>2, <1>3
  <2>3. /\ t \in Seq(Character) /\ Len(t) = last - first + 1
        /\ \A i \in 1..(last - first + 1) : t[i] = s[first + i - 1]
    BY <2>1, SubSeqProperties
  <2> QED
    BY <2>2, <2>3
<1>5. Trim(s) = t
  <2>1. first \in 1..Len(s) /\ last \in 1..Len(s) /\ first <= last
    BY <1>1, <1>2
  <2>2. \A i \in 1..Len(s) : i < first \/ i > last => s[i] = Space
    BY <1>1, <1>2
  <2> QED
    BY <1>1, <2>1, <2>2, TrimIs
<1>6. /\ \A i \in 1..(a - 1) : t[i] # "@"
      /\ \A i \in 1..(p - 1) : t[i] # "+"
      /\ t[a] = "@" /\ t[p] \in {"+", "@"}
  <2>1. \A i \in 1..a : i \in 1..N /\ t[i] = s[first + i - 1]
    <3> HIDE DEF t
    <3> QED
      BY <1>3, <1>4
  <2>2. first \in Int /\ at \in Int /\ plus \in Int /\ plus <= at /\ first + a - 1 = at /\ first + p - 1 = plus
    BY <1>1, <1>2, <1>3
  <2> HIDE DEF t
  <2>3. ASSUME NEW i \in 1..(a - 1) PROVE t[i] # "@"
    <3>1. i \in 1..a /\ first + i - 1 \in first..(at - 1)
      BY <1>2, <2>2
    <3> QED
      BY <1>1, <2>1, <3>1
  <2>4. ASSUME NEW i \in 1..(p - 1) PROVE t[i] # "+"
    <3>1. i \in 1..a /\ first + i - 1 \in first..(plus - 1)
      BY <1>2, <2>2
    <3> QED
      BY <1>1, <2>1, <3>1
  <2>5. a \in 1..a /\ p \in 1..a
    BY <1>3
  <2>6. t[a] = s[at] /\ t[p] = s[plus]
    BY <2>1, <2>2, <2>5
  <2> QED
    BY <1>1, <2>3, <2>4, <2>6
<1>7. /\ mailbox.user = LowerCase(SubSeq(t, 1, p - 1))
      /\ mailbox.domain = LowerCase(SubSeq(t, a + 1, N))
      /\ mailbox = [user |-> mailbox.user, domain |-> mailbox.domain]
  <2>0. /\ first \in 1..Len(s) /\ last \in first..Len(s)
        /\ first \in first..(last + 1) /\ plus - 1 \in (first - 1)..last
        /\ at + 1 \in first..(last + 1) /\ last \in (first - 1)..last
    BY <1>1, <1>2
  <2>a. \A m \in first..(last + 1), n \in (first - 1)..last :
          SubSeq(s, m, n) = SubSeq(SubSeq(s, first, last), m - first + 1, n - first + 1)
    BY <2>0, PartOfPart, Zenon
  <2>1. SubSeq(s, first, plus - 1) = SubSeq(SubSeq(s, first, last), first - first + 1, plus - 1 - first + 1)
    BY <2>0, <2>a, Zenon
  <2>2. SubSeq(s, at + 1, last) = SubSeq(SubSeq(s, first, last), at + 1 - first + 1, last - first + 1)
    <3>1. PICK m \in first..(last + 1) : m = at + 1 /\ m - first + 1 = at + 1 - first + 1
      BY <2>0
    <3>2. SubSeq(s, m, last) = SubSeq(SubSeq(s, first, last), m - first + 1, last - first + 1)
      BY <2>0, <2>a, Zenon
    <3> QED
      BY <3>1, <3>2, Zenon
  <2>3. /\ first - first + 1 = 1 /\ plus - 1 - first + 1 = p - 1
        /\ at + 1 - first + 1 = a + 1 /\ last - first + 1 = N
    BY <1>2, <1>3
  <2>4. SubSeq(s, first, plus - 1) = SubSeq(t, 1, p - 1) /\ SubSeq(s, at + 1, last) = SubSeq(t, a + 1, N)
    BY <2>1, <2>2, <2>3
  <2> QED
    BY <1>1, <2>4
<1> HIDE DEF t
<1>8. /\ low \in Seq(Character) /\ Len(low) = N
      /\ \A i \in 1..N : (low[i] = "@" <=> t[i] = "@") /\ (low[i] = "+" <=> t[i] = "+")
  BY <1>4, LowerIs
<1>9. mailbox.user = SubSeq(low, 1, p - 1) /\ mailbox.domain = SubSeq(low, a + 1, N)
  <2>1. /\ 1 \in 1..(Len(t) + 1) /\ p - 1 \in 0..Len(t)
        /\ a + 1 \in 1..(Len(t) + 1) /\ N \in 0..Len(t)
    BY <1>3, <1>4
  <2>2. LowerCase(SubSeq(t, 1, p - 1)) = SubSeq(low, 1, p - 1)
    BY <1>4, <2>1, LowerOfPart
  <2>3. LowerCase(SubSeq(t, a + 1, N)) = SubSeq(low, a + 1, N)
    BY <1>4, <2>1, LowerOfPart
  <2> QED
    BY <1>7, <2>2, <2>3
<1> HIDE DEF low
<1> DEFINE local == SubSeq(low, 1, a - 1)
<1>10. Until(low, "@") = local
  <2>1. a - 1 \in 0..Len(low) /\ a - 1 + 1 = a
    BY <1>3, <1>8
  <2>2. (\A i \in 1..(a - 1) : low[i] # "@") /\ low[a] = "@"
    BY <1>3, <1>6, <1>8
  <2> QED
    BY <1>8, <2>1, <2>2, UntilIs, Characters
<1>11. local \in Seq(Character) /\ Len(local) = a - 1 /\ \A i \in 1..(a - 1) : local[i] = low[i]
  BY <1>3, <1>8, SubSeqProperties
<1> HIDE DEF local
<1>12. local # low /\ Len(local) + 1 = a
  BY <1>3, <1>8, <1>11
<1>13. Until(local, "+") = SubSeq(local, 1, p - 1)
  <2>1. p - 1 \in 0..Len(local) /\ p - 1 + 1 = p
    BY <1>3, <1>11
  <2>2. ASSUME NEW i \in 1..(p - 1) PROVE local[i] # "+"
    <3>1. i \in 1..(a - 1) /\ i \in 1..N
      BY <1>3
    <3> QED
      BY <1>6, <1>8, <1>11, <3>1, Zenon
  <2>3. p - 1 < Len(local) => local[p] = "+"
    <3> SUFFICES ASSUME p - 1 < Len(local) PROVE local[p] = "+"
      OBVIOUS
    <3>1. p \in 1..(a - 1)
      BY <1>3, <1>11
    <3>2. t[p] = "+"
      BY <1>6, <3>1
    <3> QED
      BY <1>3, <1>8, <1>11, <3>1, <3>2
  <2> QED
    BY <1>11, <2>1, <2>2, <2>3, UntilIs, Characters
<1>14. SubSeq(local, 1, p - 1) = mailbox.user
  <2>1. p - 1 <= a - 1 /\ p - 1 \in Int /\ Len(low) = N
    BY <1>3, <1>8
  <2>2. /\ SubSeq(local, 1, p - 1) \in Seq(Character) /\ Len(SubSeq(local, 1, p - 1)) = p - 1
        /\ \A i \in 1..(p - 1) : SubSeq(local, 1, p - 1)[i] = local[i]
    <3>1. \A i \in 1..(p - 1) : local[i] \in Character
      BY <1>3, <1>11
    <3>2. PICK k \in Nat : k = p - 1
      BY <1>3
    <3>3. 1 \in Int /\ k \in Int /\ \A i \in 1..k : local[i] \in Character
      BY <3>1, <3>2
    <3>4. /\ SubSeq(local, 1, k) \in Seq(Character)
          /\ Len(SubSeq(local, 1, k)) = (IF 1 <= k THEN k - 1 + 1 ELSE 0)
          /\ \A i \in 1..(k - 1 + 1) : SubSeq(local, 1, k)[i] = local[1 + i - 1]
      BY <3>3, SubSeqProperties
    <3>5. /\ SubSeq(local, 1, k) \in Seq(Character) /\ Len(SubSeq(local, 1, k)) = k
          /\ \A i \in 1..k : SubSeq(local, 1, k)[i] = local[i]
      BY <3>4
    <3> QED
      BY <3>2, <3>5, Zenon
  <2>3. /\ SubSeq(low, 1, p - 1) \in Seq(Character) /\ Len(SubSeq(low, 1, p - 1)) = p - 1
        /\ \A i \in 1..(p - 1) : SubSeq(low, 1, p - 1)[i] = low[i]
    BY <1>3, <1>8, SubSeqProperties
  <2>4. SubSeq(local, 1, p - 1) = SubSeq(low, 1, p - 1)
    BY <1>3, <1>11, <2>2, <2>3, SeqEqual
  <2> QED
    BY <1>9, <2>4
<1>15. SubSeq(low, a, N) = <<"@">> \o mailbox.domain
  <2>1. a \in 1..Len(low) /\ N \in a..Len(low) /\ low[a] = "@"
    BY <1>3, <1>6, <1>8
  <2>2. SubSeq(low, a, N) = <<low[a]>> \o SubSeq(low, a + 1, N)
    BY <1>8, <2>1, SubSeqRecursiveFirst
  <2> QED
    BY <1>9, <2>1, <2>2
<1>16. NormalizeEmail(s) = mailbox.user \o SubSeq(low, a, N)
  <2>1. NormalizeEmail(s) = (IF local = low THEN low
                             ELSE Until(local, "+") \o SubSeq(low, Len(local) + 1, Len(low)))
    BY <1>5, <1>10, Zenon DEF NormalizeEmail, low
  <2> QED
    BY <1>8, <1>12, <1>13, <1>14, <2>1, Zenon
<1>17. mailbox.user \in Seq(Character) /\ mailbox.domain \in Seq(Character)
  BY <1>3, <1>8, <1>9, SubSeqProperties
<1>18. \A i \in 1..Len(mailbox.user) : mailbox.user[i] # "@"
  <2>1. Len(mailbox.user) = p - 1 /\ \A i \in 1..(p - 1) : mailbox.user[i] = low[i]
    BY <1>3, <1>8, <1>9, SubSeqProperties
  <2>2. ASSUME NEW i \in 1..(p - 1) PROVE low[i] # "@"
    <3>1. i \in 1..(a - 1) /\ i \in 1..N
      BY <1>3
    <3> QED
      BY <1>6, <1>8, <3>1
  <2> QED
    BY <2>1, <2>2
<1> QED
  BY <1>7, <1>15, <1>16, <1>17, <1>18, Zenon DEF IsMailbox, AsText

(* Two texts, one behind the other.                                        *)
LEMMA Joined ==
  ASSUME NEW S, NEW u \in Seq(S), NEW d \in Seq(S)
  PROVE  /\ u \o d \in Seq(S) /\ Len(u \o d) = Len(u) + Len(d)
         /\ \A i \in 1..Len(u) : (u \o d)[i] = u[i]
         /\ \A i \in 1..Len(d) : (u \o d)[Len(u) + i] = d[i]
<1>1. /\ u \o d \in Seq(S) /\ Len(u \o d) = Len(u) + Len(d)
      /\ \A i \in 1..Len(u) + Len(d) : (u \o d)[i] = IF i <= Len(u) THEN u[i] ELSE d[i - Len(u)]
  BY ConcatProperties
<1>2. ASSUME NEW i \in 1..Len(u) PROVE (u \o d)[i] = u[i]
  <2>1. i \in 1..Len(u) + Len(d) /\ i <= Len(u)
    OBVIOUS
  <2> QED
    BY <1>1, <2>1, Zenon
<1>3. ASSUME NEW i \in 1..Len(d) PROVE (u \o d)[Len(u) + i] = d[i]
  <2>1. Len(u) + i \in 1..Len(u) + Len(d) /\ ~(Len(u) + i <= Len(u)) /\ (Len(u) + i) - Len(u) = i
    OBVIOUS
  <2> QED
    BY <1>1, <2>1, Zenon
<1> QED
  BY <1>1, <1>2, <1>3

(* A text with a sign after its first part.                                *)
SignedText(text, u, c, d) ==
    /\ Len(text) = Len(u) + 1 + Len(d) /\ text[Len(u) + 1] = c
    /\ \A i \in 1..Len(u) : text[i] = u[i]
    /\ \A i \in 1..Len(d) : text[Len(u) + 1 + i] = d[i]

LEMMA SignAfter ==
  ASSUME NEW S, NEW c \in S, NEW u \in Seq(S), NEW d \in Seq(S)
  PROVE  SignedText(u \o (<<c>> \o d), u, c, d)
<1>1. PICK rest \in Seq(S) : /\ rest = <<c>> \o d /\ Len(rest) = 1 + Len(d) /\ rest[1] = c
                             /\ \A i \in 1..Len(d) : rest[1 + i] = d[i]
  <2>1. PICK sign \in Seq(S) : sign = <<c>> /\ Len(sign) = 1 /\ sign[1] = c
    <3>1. <<c>> \in Seq(S) /\ Len(<<c>>) = 1 /\ <<c>>[1] = c
      OBVIOUS
    <3> QED
      BY <3>1, Zenon
  <2>2. /\ sign \o d \in Seq(S) /\ Len(sign \o d) = Len(sign) + Len(d)
        /\ \A i \in 1..Len(sign) : (sign \o d)[i] = sign[i]
        /\ \A i \in 1..Len(d) : (sign \o d)[Len(sign) + i] = d[i]
    BY Joined
  <2>3. 1 \in 1..Len(sign)
    BY <2>1
  <2> QED
    BY <2>1, <2>2, <2>3, Zenon
<1>2. PICK text \in Seq(S) :
        /\ text = u \o rest /\ Len(text) = Len(u) + Len(rest)
        /\ \A i \in 1..Len(u) : text[i] = u[i]
        /\ \A i \in 1..Len(rest) : text[Len(u) + i] = rest[i]
  <2>1. /\ u \o rest \in Seq(S) /\ Len(u \o rest) = Len(u) + Len(rest)
        /\ \A i \in 1..Len(u) : (u \o rest)[i] = u[i]
        /\ \A i \in 1..Len(rest) : (u \o rest)[Len(u) + i] = rest[i]
    BY Joined
  <2> QED
    BY <2>1, Zenon
<1>3. Len(u) \in Nat /\ Len(d) \in Nat
  OBVIOUS
<1>4. Len(text) = Len(u) + 1 + Len(d) /\ text[Len(u) + 1] = c
  BY <1>1, <1>2, <1>3
<1>5. ASSUME NEW i \in 1..Len(d) PROVE text[Len(u) + 1 + i] = d[i]
  <2>1. 1 + i \in 1..Len(rest) /\ Len(u) + 1 + i = Len(u) + (1 + i)
    BY <1>1, <1>3
  <2> QED
    BY <1>1, <1>2, <2>1
<1> QED
  BY <1>1, <1>2, <1>4, <1>5, Zenon DEF SignedText

LEMMA SignsMeet ==
  ASSUME NEW S, NEW u \in Seq(S), NEW v \in Seq(S), NEW c, NEW d, NEW e, NEW text,
         \A i \in 1..Len(v) : v[i] # c, SignedText(text, u, c, d), SignedText(text, v, c, e)
  PROVE  ~(Len(u) < Len(v))
<1> SUFFICES ASSUME Len(u) < Len(v) PROVE FALSE
  OBVIOUS
<1>1. Len(u) + 1 \in 1..Len(v)
  OBVIOUS
<1> QED
  BY <1>1, Zenon DEF SignedText

(* The text of a mailbox is split at its first "@".                        *)
LEMMA SplitAtSign ==
  ASSUME NEW S, NEW c \in S, NEW u \in Seq(S), NEW d \in Seq(S), NEW v \in Seq(S), NEW e \in Seq(S),
         \A i \in 1..Len(u) : u[i] # c, \A i \in 1..Len(v) : v[i] # c,
         u \o (<<c>> \o d) = v \o (<<c>> \o e)
  PROVE  u = v /\ d = e
<1>1. PICK text : SignedText(text, u, c, d) /\ SignedText(text, v, c, e)
  <2>1. SignedText(u \o (<<c>> \o d), u, c, d) /\ SignedText(v \o (<<c>> \o e), v, c, e)
    BY SignAfter, Zenon
  <2> QED
    BY <2>1, Zenon
<1>2. Len(u) = Len(v)
  <2>1. ~(Len(u) < Len(v)) /\ ~(Len(v) < Len(u))
    BY <1>1, SignsMeet, Zenon
  <2>2. Len(u) \in Nat /\ Len(v) \in Nat
    OBVIOUS
  <2> QED
    BY <2>1, <2>2
<1>3. u = v
  <2>1. \A i \in 1..Len(u) : u[i] = v[i]
    BY <1>1, <1>2, Zenon DEF SignedText
  <2> QED
    BY <1>2, <2>1, SeqEqual
<1>4. Len(d) = Len(e)
  <2>1. Len(u) \in Nat /\ Len(v) \in Nat /\ Len(d) \in Nat /\ Len(e) \in Nat
    OBVIOUS
  <2>2. Len(u) + 1 + Len(d) = Len(v) + 1 + Len(e)
    BY <1>1, Zenon DEF SignedText
  <2> QED
    BY <1>2, <2>1, <2>2
<1>5. d = e
  <2>1. \A i \in 1..Len(d) : d[i] = e[i]
    BY <1>1, <1>2, <1>4, Zenon DEF SignedText
  <2> QED
    BY <1>4, <2>1, SeqEqual
<1> QED
  BY <1>3, <1>5

LEMMA TextNames ==
  ASSUME NEW m, NEW n, IsMailbox(m), IsMailbox(n), AsText(m) = AsText(n)
  PROVE  m = n
<1>1. PICK c \in Character : c = "@"
  BY Characters
<1>2. /\ m.user \in Seq(Character) /\ m.domain \in Seq(Character)
      /\ n.user \in Seq(Character) /\ n.domain \in Seq(Character)
      /\ \A i \in 1..Len(m.user) : m.user[i] # c
      /\ \A i \in 1..Len(n.user) : n.user[i] # c
      /\ m.user \o (<<c>> \o m.domain) = n.user \o (<<c>> \o n.domain)
  BY <1>1, Zenon DEF IsMailbox, AsText
<1>3. m.user = n.user /\ m.domain = n.domain
  BY <1>2, SplitAtSign, Zenon
<1> QED
  BY <1>3, Zenon DEF IsMailbox

(* Spellings are one address after normalisation exactly if mail to them   *)
(* reaches one mailbox.                                                    *)
THEOREM OneAddressPerMailbox ==
  \A s, t \in Spelling : NormalizeEmail(s) = NormalizeEmail(t) <=> Reaches[s] = Reaches[t]
<1> SUFFICES ASSUME NEW s \in Spelling, NEW t \in Spelling
             PROVE  NormalizeEmail(s) = NormalizeEmail(t) <=> Reaches[s] = Reaches[t]
  OBVIOUS
<1>1. /\ NormalizeEmail(s) = AsText(Reaches[s]) /\ IsMailbox(Reaches[s])
      /\ NormalizeEmail(t) = AsText(Reaches[t]) /\ IsMailbox(Reaches[t])
  BY ReachesAssumption, NormalizedIs, Characters
<1> QED
  BY <1>1, TextNames, Zenon

-----------------------------------------------------------------------------
(* Recovery *)

(* The n-th backup is for these credentials.                               *)
IsFor(n, p, s) ==
    n \in DOMAIN backups /\ backups[n].id = DiscoveryId(p, NormalizeEmail(s))

(* The entry of a password and an address is the backup accepted last.     *)
NewestOK ==
    /\ newest \in [Password \X Range(Reaches) -> Nat]
    /\ \A p \in Password, s \in Spelling :
         LET id == DiscoveryId(p, NormalizeEmail(s))
         IN /\ id \in DOMAIN registry => newest[<<p, Reaches[s]>>] = registry[id].cid
            /\ id \notin DOMAIN registry => newest[<<p, Reaches[s]>>] = 0

Credentials == device.password \in Password /\ device.spelling \in Spelling

FoundOK ==
    /\ Credentials /\ IsFor(device.wanted, device.password, device.spelling)
    /\ \E e : /\ device.entry = {e} /\ e.cid = device.wanted
              /\ e.commit = Commit(backups[device.wanted].sa2)

RecoveredOK ==
    /\ Credentials /\ IsFor(device.wanted, device.password, device.spelling)
    /\ device.mnemonic = {backups[device.wanted].sa2.mnemonic}

(* What the device found, still holds after the entry was replaced.        *)
DeviceOK ==
    /\ device.phase \in {"idle", "found", "not found", "recovered", "wrong artefact"}
    /\ device.phase = "found" => FoundOK
    /\ device.phase = "not found" => device.wanted = 0
    /\ device.phase = "recovered" => RecoveredOK
    /\ device.phase = "wrong artefact" => device.served # device.asked

RecoveryInv == DiscoveryInv /\ NewestOK /\ DeviceOK

(* The id names password and mailbox, and the artefact opens for both.     *)
LEMMA IdNamesOwner ==
  ASSUME BackupsOK, NEW n, NEW p \in Password, NEW s \in Spelling,
         IsFor(n, p, s)
  PROVE  /\ backups[n].password = p /\ backups[n].mailbox = Reaches[s]
         /\ backups[n].sa2.nonce = n
         /\ UnsealSa2(backups[n].sa2, p, NormalizeEmail(s)) = {backups[n].sa2.mnemonic}
<1>1. n \in DOMAIN backups /\ backups[n].id = DiscoveryId(p, NormalizeEmail(s))
  BY DEF IsFor
<1>2. PICK q \in Password, t \in Spelling, m \in Mnemonic, v \in Nat :
        backups[n] = Made(q, t, m, n, v)
  BY <1>1, BackupsAreMade
<1>3. /\ backups[n].password = q /\ backups[n].mailbox = Reaches[t]
      /\ backups[n].id = DiscoveryId(q, NormalizeEmail(t))
      /\ backups[n].sa2 = SealSa2(m, q, NormalizeEmail(t), n)
  BY <1>2, MadeFields
<1>4. q = p /\ NormalizeEmail(t) = NormalizeEmail(s)
  BY <1>1, <1>3 DEF DiscoveryId, Kidx, VadarBaseKey
<1>5. Reaches[t] = Reaches[s]
  BY <1>4, OneAddressPerMailbox
<1> QED
  BY <1>3, <1>4, <1>5 DEF SealSa2, UnsealSa2

LEMMA SameRegistry ==
  ASSUME RecoveryInv, backups' = backups, registry' = registry, newest' = newest
  PROVE  DiscoveryInv' /\ NewestOK'
<1>1. DiscoveryInv'
  BY DEF RecoveryInv, DiscoveryInv, BackupsOK, RegistryOK, IsEntryOf
<1>2. NewestOK'
  BY DEF RecoveryInv, NewestOK
<1> QED
  BY <1>1, <1>2

LEMMA BackupRecovery ==
  ASSUME RecoveryInv, NEW p \in Password, NEW s \in Spelling, NEW m \in Mnemonic,
         Backup(p, s, m)
  PROVE  RecoveryInv'
<1>1. /\ DiscoveryInv'
      /\ \A n \in DOMAIN backups : n \in DOMAIN backups' /\ backups'[n] = backups[n]
  BY BackupAppends, BackupPreserves DEF RecoveryInv
<1>2. registry' = registry /\ newest' = newest /\ device' = device
  BY DEF Backup
<1>3. NewestOK'
  BY <1>2 DEF RecoveryInv, NewestOK
<1>4. DeviceOK'
  BY <1>1, <1>2 DEF RecoveryInv, DeviceOK, FoundOK, RecoveredOK, Credentials, IsFor
<1> QED
  BY <1>1, <1>3, <1>4 DEF RecoveryInv

LEMMA AcceptRecovery ==
  ASSUME RecoveryInv, NEW n \in DOMAIN backups,
         NEW a \in DOMAIN backups, NEW c \in DOMAIN backups, Accept(n, a, c)
  PROVE  RecoveryInv'
<1> DEFINE b == backups[n]
<1>1. /\ DiscoveryInv'
      /\ DOMAIN registry' = DOMAIN registry \cup {b.id}
      /\ registry'[b.id].cid = n
      /\ \A id \in DOMAIN registry : id # b.id => registry'[id] = registry[id]
  BY AcceptPreserves DEF RecoveryInv
<1>2. /\ backups' = backups /\ device' = device
      /\ newest' = [newest EXCEPT ![<<b.password, b.mailbox>>] = n]
  BY DEF Accept
<1>3. PICK q \in Password, t \in Spelling :
        /\ b.password = q /\ b.mailbox = Reaches[t]
        /\ b.id = DiscoveryId(q, NormalizeEmail(t))
  BY BackupsAreMade, MadeFields DEF RecoveryInv, DiscoveryInv
<1>4. n \in Nat
  BY DEF RecoveryInv, DiscoveryInv, BackupsOK
<1>5. \A s \in Spelling : Reaches[s] \in Range(Reaches)
  BY ReachesAssumption DEF Range
<1>6. NewestOK'
  <2>1. newest' \in [Password \X Range(Reaches) -> Nat]
    BY <1>2, <1>4 DEF RecoveryInv, NewestOK
  <2>2. ASSUME NEW p \in Password, NEW s \in Spelling
        PROVE  LET id == DiscoveryId(p, NormalizeEmail(s))
               IN /\ id \in DOMAIN registry' => newest'[<<p, Reaches[s]>>] = registry'[id].cid
                  /\ id \notin DOMAIN registry' => newest'[<<p, Reaches[s]>>] = 0
    <3> DEFINE id == DiscoveryId(p, NormalizeEmail(s))
    <3>1. <<p, Reaches[s]>> \in DOMAIN newest
      BY <1>5 DEF RecoveryInv, NewestOK
    <3>2. CASE id = b.id
      <4>1. b.password = p /\ b.mailbox = Reaches[s]
        BY <3>2, IdNamesOwner DEF RecoveryInv, DiscoveryInv, IsFor
      <4>2. newest'[<<p, Reaches[s]>>] = n
        BY <1>2, <3>1, <4>1
      <4> QED
        BY <1>1, <3>2, <4>2
    <3>3. CASE id # b.id
      <4>1. <<p, Reaches[s]>> # <<b.password, b.mailbox>>
        BY <1>3, <3>3, OneAddressPerMailbox
      <4>2. newest'[<<p, Reaches[s]>>] = newest[<<p, Reaches[s]>>]
        BY <1>2, <3>1, <4>1
      <4>3. /\ id \in DOMAIN registry' <=> id \in DOMAIN registry
            /\ id \in DOMAIN registry => registry'[id] = registry[id]
        BY <1>1, <3>3
      <4>4. /\ id \in DOMAIN registry => newest[<<p, Reaches[s]>>] = registry[id].cid
            /\ id \notin DOMAIN registry => newest[<<p, Reaches[s]>>] = 0
        BY DEF RecoveryInv, NewestOK
      <4> QED
        BY <4>2, <4>3, <4>4
    <3> QED
      BY <3>2, <3>3
  <2> QED
    BY <2>1, <2>2 DEF NewestOK
<1>7. DeviceOK'
  BY <1>2 DEF RecoveryInv, DeviceOK, FoundOK, RecoveredOK, Credentials, IsFor
<1> QED
  BY <1>1, <1>6, <1>7 DEF RecoveryInv

LEMMA LookupRecovery ==
  ASSUME RecoveryInv, NEW p \in Password, NEW s \in Spelling, Lookup(p, s)
  PROVE  RecoveryInv'
<1> DEFINE id == DiscoveryId(p, NormalizeEmail(s))
           found == id \in DOMAIN registry
<1>1. /\ backups' = backups /\ registry' = registry /\ newest' = newest
      /\ device' = [phase    |-> IF found THEN "found" ELSE "not found",
                    password |-> p, spelling |-> s,
                    entry    |-> IF found THEN {registry[id]} ELSE {},
                    wanted   |-> newest[<<p, Reaches[s]>>]]
  BY DEF Lookup
<1>2. /\ device'.phase = IF found THEN "found" ELSE "not found"
      /\ device'.password = p /\ device'.spelling = s
      /\ device'.entry = IF found THEN {registry[id]} ELSE {}
      /\ device'.wanted = newest[<<p, Reaches[s]>>]
  BY <1>1
<1>3. DiscoveryInv' /\ NewestOK'
  BY <1>1, SameRegistry
<1>4. CASE found
  <2>1. /\ newest[<<p, Reaches[s]>>] = registry[id].cid
        /\ IsEntryOf(registry[id], registry[id].cid)
        /\ backups[registry[id].cid].id = id
    BY <1>4 DEF RecoveryInv, NewestOK, DiscoveryInv, RegistryOK
  <2>2. FoundOK'
    BY <1>1, <1>2, <1>4, <2>1 DEF FoundOK, Credentials, IsFor, IsEntryOf
  <2>3. device'.phase = "found"
    BY <1>2, <1>4
  <2>4. DeviceOK'
    BY <2>2, <2>3 DEF DeviceOK
  <2> QED
    BY <1>3, <2>4 DEF RecoveryInv
<1>5. CASE ~found
  <2>1. device'.wanted = 0 /\ device'.phase = "not found"
    BY <1>2, <1>5 DEF RecoveryInv, NewestOK
  <2>2. DeviceOK'
    BY <2>1 DEF DeviceOK
  <2> QED
    BY <1>3, <2>2 DEF RecoveryInv
<1> QED
  BY <1>4, <1>5

LEMMA FetchRecovery ==
  ASSUME RecoveryInv, NEW n \in DOMAIN backups, Fetch(n)
  PROVE  RecoveryInv'
<1> DEFINE entry  == CHOOSE e \in device.entry : TRUE
           opened == UnsealSa2(backups[n].sa2, device.password, NormalizeEmail(device.spelling))
           right  == Commit(backups[n].sa2) = entry.commit
<1>1. /\ device.phase = "found"
      /\ backups' = backups /\ registry' = registry /\ newest' = newest
      /\ device' = [phase    |-> IF ~right THEN "wrong artefact"
                                 ELSE IF opened = {} THEN "unseal failed" ELSE "recovered",
                    password |-> device.password, spelling |-> device.spelling,
                    wanted   |-> device.wanted, asked |-> entry.cid, served |-> n,
                    mnemonic |-> IF right THEN opened ELSE {}]
  BY DEF Fetch
<1>2. /\ device'.phase = IF ~right THEN "wrong artefact"
                         ELSE IF opened = {} THEN "unseal failed" ELSE "recovered"
      /\ device'.password = device.password /\ device'.spelling = device.spelling
      /\ device'.wanted = device.wanted /\ device'.asked = entry.cid /\ device'.served = n
      /\ device'.mnemonic = IF right THEN opened ELSE {}
  BY <1>1
<1>3. FoundOK
  BY <1>1 DEF RecoveryInv, DeviceOK
<1>4. entry.cid = device.wanted /\ entry.commit = Commit(backups[device.wanted].sa2)
  BY <1>3 DEF FoundOK
<1>5. DiscoveryInv' /\ NewestOK'
  BY <1>1, SameRegistry
<1>6. /\ backups[device.wanted].sa2.nonce = device.wanted
      /\ UnsealSa2(backups[device.wanted].sa2, device.password, NormalizeEmail(device.spelling))
           = {backups[device.wanted].sa2.mnemonic}
  <2>1. /\ BackupsOK /\ device.password \in Password /\ device.spelling \in Spelling
        /\ IsFor(device.wanted, device.password, device.spelling)
        /\ device.wanted \in DOMAIN backups
    BY <1>3 DEF FoundOK, Credentials, IsFor, RecoveryInv, DiscoveryInv
  <2> QED
    BY <2>1, IdNamesOwner
<1>7. backups[n].sa2.nonce = n
  <2>1. PICK p \in Password, s \in Spelling, m \in Mnemonic, v \in Nat :
          backups[n] = Made(p, s, m, n, v)
    BY BackupsAreMade DEF RecoveryInv, DiscoveryInv
  <2>2. backups[n].sa2 = SealSa2(m, p, NormalizeEmail(s), n)
    BY <2>1, MadeFields
  <2> QED
    BY <2>2 DEF SealSa2
<1> HIDE DEF entry, opened
<1>8. CASE right
  <2>1. backups[n].sa2 = backups[device.wanted].sa2
    BY <1>4, <1>8 DEF Commit
  <2>2. n = device.wanted
    BY <1>6, <1>7, <2>1
  <2>3. opened = {backups[device.wanted].sa2.mnemonic}
    BY <1>6, <2>1 DEF opened
  <2>4. device'.phase = "recovered" /\ device'.mnemonic = {backups[device.wanted].sa2.mnemonic}
    BY <1>2, <1>8, <2>3
  <2>5. RecoveredOK'
    BY <1>1, <1>2, <1>3, <2>4 DEF FoundOK, RecoveredOK, Credentials, IsFor
  <2>6. DeviceOK'
    BY <2>4, <2>5 DEF DeviceOK
  <2> QED
    BY <1>5, <2>6 DEF RecoveryInv
<1>9. CASE ~right
  <2>1. n # device.wanted
    BY <1>4, <1>9
  <2>2. device'.phase = "wrong artefact" /\ device'.served # device'.asked
    BY <1>2, <1>4, <1>9, <2>1
  <2>3. DeviceOK'
    BY <2>2 DEF DeviceOK
  <2> QED
    BY <1>5, <2>3 DEF RecoveryInv
<1> QED
  BY <1>8, <1>9

LEMMA RecoveryInitInv == Init => RecoveryInv
<1> SUFFICES ASSUME Init PROVE RecoveryInv
  OBVIOUS
<1>1. NewestOK
  <2>1. DOMAIN registry = {}
    BY DEF Init
  <2>2. \A s \in Spelling : Reaches[s] \in Range(Reaches)
    BY ReachesAssumption DEF Range
  <2>3. newest = [owner \in Password \X Range(Reaches) |-> 0]
    BY DEF Init
  <2> QED
    BY <2>1, <2>2, <2>3 DEF NewestOK
<1>2. DeviceOK
  BY DEF Init, Idle, DeviceOK
<1> QED
  BY <1>1, <1>2, DiscoveryInitInv DEF RecoveryInv

LEMMA RecoveryStepPreserves == RecoveryInv /\ [Next]_vars => RecoveryInv'
<1> SUFFICES ASSUME RecoveryInv, [Next]_vars PROVE RecoveryInv'
  OBVIOUS
<1>1. ASSUME NEW p \in Password, NEW s \in Spelling, NEW m \in Mnemonic, Backup(p, s, m)
      PROVE  RecoveryInv'
  BY <1>1, BackupRecovery
<1>2. ASSUME NEW n \in DOMAIN backups, NEW a \in DOMAIN backups, NEW c \in DOMAIN backups,
             Accept(n, a, c)
      PROVE  RecoveryInv'
  BY <1>2, AcceptRecovery
<1>3. ASSUME NEW p \in Password, NEW s \in Spelling, Lookup(p, s) PROVE RecoveryInv'
  BY <1>3, LookupRecovery
<1>4. ASSUME NEW n \in DOMAIN backups, Fetch(n) PROVE RecoveryInv'
  BY <1>4, FetchRecovery
<1>5. CASE UNCHANGED vars
  <2>1. DiscoveryInv' /\ NewestOK'
    BY <1>5, SameRegistry DEF vars
  <2>2. DeviceOK'
    BY <1>5 DEF vars, RecoveryInv, DeviceOK, FoundOK, RecoveredOK, Credentials, IsFor
  <2> QED
    BY <2>1, <2>2 DEF RecoveryInv
<1> QED
  BY <1>1, <1>2, <1>3, <1>4, <1>5 DEF Next

(* The inductive invariant of recovery: entries are the backups accepted   *)
(* last, and what a device found stays true while they are replaced.       *)
THEOREM RecoveryInvariance == Spec => []RecoveryInv
BY RecoveryInitInv, RecoveryStepPreserves, PTL DEF Spec

(* A device recovers the newest backup accepted when it looked, whatever   *)
(* updates race, repeat, or replace the entry before it fetches.           *)
THEOREM NewestRecovered == Spec => []RecoversNewestBackup
<1>1. RecoveryInv => RecoversNewestBackup
  <2> SUFFICES ASSUME RecoveryInv, device.phase = "recovered"
               PROVE  /\ device.wanted # 0
                      /\ backups[device.wanted].password = device.password
                      /\ backups[device.wanted].mailbox = Reaches[device.spelling]
                      /\ device.mnemonic = {backups[device.wanted].sa2.mnemonic}
    BY DEF RecoversNewestBackup
  <2>1. RecoveredOK
    BY DEF RecoveryInv, DeviceOK
  <2>2. device.wanted \in 1..Len(backups) /\ Len(backups) \in Nat
    BY <2>1 DEF RecoveredOK, IsFor, RecoveryInv, DiscoveryInv, BackupsOK
  <2>3. /\ backups[device.wanted].password = device.password
        /\ backups[device.wanted].mailbox = Reaches[device.spelling]
    BY <2>1, IdNamesOwner DEF RecoveredOK, Credentials, IsFor, RecoveryInv, DiscoveryInv
  <2> QED
    BY <2>1, <2>2, <2>3 DEF RecoveredOK
<1> QED
  BY <1>1, RecoveryInvariance, PTL

(* After a backup was accepted a device never goes away empty-handed, but  *)
(* for a store that serves another artefact than the one asked for.        *)
THEOREM AcceptedFound == Spec => []AcceptedBackupsAreFound
<1>1. RecoveryInv => AcceptedBackupsAreFound
  BY DEF RecoveryInv, DeviceOK, AcceptedBackupsAreFound
<1> QED
  BY <1>1, RecoveryInvariance, PTL

-----------------------------------------------------------------------------
(* Sequences *)

(* What a message is made of.                                              *)
Part == {"hfipay:register", "hfipay:refund", "ace-hfi-pay:v1"} \cup Int

Word == {b \in Seq(Part) : Len(b) = HashLength}

(* A concatenation splits in one way, if the right parts are equally long. *)
LEMMA SplitRight ==
  ASSUME NEW a \in Seq(Part), NEW b \in Seq(Part),
         NEW c \in Seq(Part), NEW d \in Seq(Part),
         Len(c) = Len(d), a \o c = b \o d
  PROVE  a = b
<1>1. /\ Len(a) \in Nat /\ Len(b) \in Nat /\ Len(c) \in Nat /\ Len(d) \in Nat
      /\ Len(a \o c) = Len(a) + Len(c) /\ Len(b \o d) = Len(b) + Len(d)
  BY ConcatProperties, LenProperties, Zenon
<1>2. Len(a) = Len(b)
  BY <1>1, SMT
<1>3. /\ \A i \in 1 .. Len(a) + Len(c) :
             (a \o c)[i] = IF i <= Len(a) THEN a[i] ELSE c[i - Len(a)]
      /\ \A i \in 1 .. Len(a) + Len(c) :
             (a \o c)[i] = IF i <= Len(a) THEN b[i] ELSE d[i - Len(a)]
  <2>1. \A i \in 1 .. Len(a) + Len(c) :
             (a \o c)[i] = IF i <= Len(a) THEN a[i] ELSE c[i - Len(a)]
    BY ConcatProperties, Zenon
  <2>2. \A i \in 1 .. Len(b) + Len(d) :
             (b \o d)[i] = IF i <= Len(b) THEN b[i] ELSE d[i - Len(b)]
    BY ConcatProperties, Zenon
  <2> QED
    BY <1>2, <2>1, <2>2
<1>4. \A i \in 1 .. Len(a) : a[i] = b[i]
  BY <1>1, <1>3, SMT
<1> QED
  BY <1>2, <1>4, SeqEqual, Zenon

(* The same, for the right parts.                                          *)
LEMMA SplitRightRest ==
  ASSUME NEW a \in Seq(Part), NEW b \in Seq(Part),
         NEW c \in Seq(Part), NEW d \in Seq(Part),
         Len(c) = Len(d), a \o c = b \o d
  PROVE  c = d
<1>1. a = b
  BY SplitRight, Zenon
<1>2. a \o c = a \o d
  BY <1>1
<1> QED
  BY <1>2, ConcatSimplifications

(* Both, if the left parts are equally long.                               *)
LEMMA SplitLeft ==
  ASSUME NEW a \in Seq(Part), NEW b \in Seq(Part),
         NEW c \in Seq(Part), NEW d \in Seq(Part),
         Len(a) = Len(b), a \o c = b \o d
  PROVE  a = b
<1>1. Len(c) = Len(d)
  <2>1. /\ Len(a) \in Nat /\ Len(b) \in Nat /\ Len(c) \in Nat /\ Len(d) \in Nat
        /\ Len(a \o c) = Len(a) + Len(c) /\ Len(b \o d) = Len(b) + Len(d)
    BY ConcatProperties, LenProperties, Zenon
  <2> QED
    BY <2>1, SMT
<1> QED
  BY <1>1, SplitRight, Zenon

LEMMA SplitLeftRest ==
  ASSUME NEW a \in Seq(Part), NEW b \in Seq(Part),
         NEW c \in Seq(Part), NEW d \in Seq(Part),
         Len(a) = Len(b), a \o c = b \o d
  PROVE  c = d
<1>1. Len(c) = Len(d)
  <2>1. /\ Len(a) \in Nat /\ Len(b) \in Nat /\ Len(c) \in Nat /\ Len(d) \in Nat
        /\ Len(a \o c) = Len(a) + Len(c) /\ Len(b \o d) = Len(b) + Len(d)
    BY ConcatProperties, LenProperties, Zenon
  <2> QED
    BY <2>1, SMT
<1> QED
  BY <1>1, SplitRightRest, Zenon

(* What a concatenation begins with.                                       *)
LEMMA FirstStays ==
  \A a, b \in Seq(Part) : Len(a) > 0 =>
    a \o b \in Seq(Part) /\ Len(a \o b) > 0 /\ (a \o b)[1] = a[1]
<1> SUFFICES ASSUME NEW a \in Seq(Part), NEW b \in Seq(Part), Len(a) > 0
             PROVE  a \o b \in Seq(Part) /\ Len(a \o b) > 0 /\ (a \o b)[1] = a[1]
  OBVIOUS
<1>1. Len(a) \in Nat /\ Len(b) \in Nat /\ Len(a \o b) = Len(a) + Len(b) /\ a \o b \in Seq(Part)
  BY ConcatProperties, LenProperties, Zenon
<1>2. 1 \in 1 .. Len(a) + Len(b) /\ 1 <= Len(a) /\ Len(a \o b) > 0
  BY <1>1, SMT
<1> QED
  BY <1>1, <1>2, ConcatProperties, Zenon

-----------------------------------------------------------------------------
(* Messages *)

(* Hex text decodes to bytes.                                              *)
LEMMA HexBytesAreBytes ==
  ASSUME NEW text \in Seq(STRING), NEW b \in HexBytes(text)
  PROVE  b \in Seq(Part)
<1>1. /\ \A i \in DOMAIN text : text[i] \in DOMAIN HexDigit
      /\ Len(text) % 2 = 0
      /\ b = [i \in 1..(Len(text) \div 2) |->
                16 * HexDigit[text[(2 * i) - 1]] + HexDigit[text[2 * i]]]
  BY DEF HexBytes
<1>2. \A c \in DOMAIN HexDigit : HexDigit[c] \in Int
  BY DEF HexDigit
<1>3. Len(text) \in Nat /\ DOMAIN text = 1 .. Len(text)
  BY LenProperties, Zenon
<1>4. ASSUME NEW i \in 1..(Len(text) \div 2)
      PROVE  16 * HexDigit[text[(2 * i) - 1]] + HexDigit[text[2 * i]] \in Part
  <2>1. (2 * i) - 1 \in 1 .. Len(text) /\ 2 * i \in 1 .. Len(text)
    BY <1>1, <1>3, SMT
  <2>2. /\ HexDigit[text[(2 * i) - 1]] \in Int
        /\ HexDigit[text[2 * i]] \in Int
    BY <1>1, <1>2, <1>3, <2>1, Zenon
  <2> HIDE DEF HexDigit
  <2> QED
    BY <2>2, SMT DEF Part
<1>5. Len(text) \div 2 \in Nat
  BY <1>3, SMT
<1>6. b \in [1..(Len(text) \div 2) -> Part]
  BY <1>1, <1>4, Zenon
<1> QED
  BY <1>5, <1>6, SeqDef, Zenon

LEMMA Decode32IsWord ==
  ASSUME NEW text \in Seq(STRING), NEW b \in Decode32(text)
  PROVE  b \in Word
BY HexBytesAreBytes DEF Decode32, Word

(* The parts a message is laid out from: a message of either kind.         *)
LEMMA FieldsAreWords ==
  ASSUME NEW r \in RefundRequest, NEW f \in Fields(r)
  PROVE  /\ f.mint = None \/ f.mint \in Word
         /\ f.intent \in Word /\ f.blinded \in Word /\ f.authorizer \in Word /\ f.dest \in Word
         /\ f.chain_tag \in Part /\ f.amount \in Part /\ f.expiry \in Part /\ f.nonce \in Part
         /\ f = [chain_tag |-> f.chain_tag, mint |-> f.mint, intent |-> f.intent,
                 blinded |-> f.blinded, amount |-> f.amount, authorizer |-> f.authorizer,
                 dest |-> f.dest, expiry |-> f.expiry, nonce |-> f.nonce]
<1>1. r \in [chain_tag : Int, mint : Seq(STRING), intent : Seq(STRING),
             blinded : Seq(STRING), amount : Int, authorizer : Seq(STRING),
             dest : Seq(STRING), expiry : Int, nonce : Int]
  BY HfiAssumption, Zenon
<1>2. /\ r.mint \in Seq(STRING) /\ r.intent \in Seq(STRING) /\ r.blinded \in Seq(STRING)
      /\ r.authorizer \in Seq(STRING) /\ r.dest \in Seq(STRING)
      /\ r.chain_tag \in Int /\ r.amount \in Int /\ r.expiry \in Int /\ r.nonce \in Int
  BY <1>1
<1>3. /\ f.mint \in IF r.mint = None THEN {None} ELSE Decode32(r.mint)
      /\ f.intent \in Decode32(r.intent) /\ f.blinded \in Decode32(r.blinded)
      /\ f.authorizer \in Decode32(r.authorizer) /\ f.dest \in Decode32(r.dest)
      /\ f.chain_tag = r.chain_tag /\ f.amount = r.amount
      /\ f.expiry = r.expiry /\ f.nonce = r.nonce
      /\ f = [chain_tag |-> f.chain_tag, mint |-> f.mint, intent |-> f.intent,
              blinded |-> f.blinded, amount |-> f.amount, authorizer |-> f.authorizer,
              dest |-> f.dest, expiry |-> f.expiry, nonce |-> f.nonce]
  BY DEF Fields
<1>4. /\ f.mint = None \/ f.mint \in Word
      /\ f.intent \in Word /\ f.blinded \in Word /\ f.authorizer \in Word /\ f.dest \in Word
  BY <1>2, <1>3, Decode32IsWord
<1> QED
  BY <1>2, <1>3, <1>4 DEF Part

(* The layout of a refund, part by part.                                   *)
Head3(f) == <<"hfipay:refund", "ace-hfi-pay:v1", f.chain_tag>>

Mint(f) == IF f.mint = None THEN <<0>> ELSE <<1>> \o f.mint

Rest(f) ==
    Head3(f) \o Mint(f) \o f.intent \o f.blinded \o <<f.amount>> \o f.authorizer \o f.dest

LEMMA PartsAreSequences ==
  ASSUME NEW r \in RefundRequest, NEW f \in Fields(r)
  PROVE  /\ Head3(f) \in Seq(Part) /\ Len(Head3(f)) = 3 /\ Head3(f)[1] = "hfipay:refund"
         /\ Mint(f) \in Seq(Part)
         /\ f.mint # None => f.mint \in Seq(Part) /\ Mint(f) = <<1>> \o f.mint
         /\ f.intent \in Seq(Part) /\ Len(f.intent) = HashLength
         /\ f.blinded \in Seq(Part) /\ Len(f.blinded) = HashLength
         /\ <<f.amount>> \in Seq(Part) /\ Len(<<f.amount>>) = 1
         /\ f.authorizer \in Seq(Part) /\ Len(f.authorizer) = HashLength
         /\ f.dest \in Seq(Part) /\ Len(f.dest) = HashLength
         /\ <<f.expiry, f.nonce>> \in Seq(Part) /\ Len(<<f.expiry, f.nonce>>) = 2
<1>1. /\ f.mint = None \/ f.mint \in Word
      /\ f.intent \in Word /\ f.blinded \in Word /\ f.authorizer \in Word /\ f.dest \in Word
      /\ f.chain_tag \in Part /\ f.amount \in Part /\ f.expiry \in Part /\ f.nonce \in Part
  BY FieldsAreWords, Zenon
<1>2. /\ "hfipay:refund" \in Part /\ "ace-hfi-pay:v1" \in Part /\ 0 \in Part /\ 1 \in Part
  BY DEF Part
<1>3. /\ Head3(f) \in Seq(Part) /\ Len(Head3(f)) = 3 /\ Head3(f)[1] = "hfipay:refund"
  BY <1>1, <1>2 DEF Head3
<1>4. /\ <<f.amount>> \in Seq(Part) /\ Len(<<f.amount>>) = 1
      /\ <<f.expiry, f.nonce>> \in Seq(Part) /\ Len(<<f.expiry, f.nonce>>) = 2
      /\ <<0>> \in Seq(Part) /\ <<1>> \in Seq(Part)
  BY <1>1, <1>2
<1>5. /\ Mint(f) \in Seq(Part)
      /\ f.mint # None => f.mint \in Seq(Part) /\ Mint(f) = <<1>> \o f.mint
  BY <1>1, <1>4, ConcatProperties, Zenon DEF Word, Mint
<1> QED
  BY <1>1, <1>3, <1>4, <1>5, Zenon DEF Word

(* The message up to each of its parts is a sequence, with the same begin. *)
LEMMA MessagePrefixes ==
  ASSUME NEW r \in RefundRequest, NEW f \in Fields(r)
  PROVE  LET p1 == Head3(f) \o Mint(f)
             p2 == p1 \o f.intent
             p3 == p2 \o f.blinded
             p4 == p3 \o <<f.amount>>
             p5 == p4 \o f.authorizer
             p6 == p5 \o f.dest
             p7 == p6 \o <<f.expiry, f.nonce>>
         IN /\ p1 \in Seq(Part) /\ p2 \in Seq(Part) /\ p3 \in Seq(Part)
            /\ p4 \in Seq(Part) /\ p5 \in Seq(Part) /\ p6 \in Seq(Part)
            /\ p7 = RefundMessage(f) /\ p7[1] = "hfipay:refund"
<1> DEFINE p1 == Head3(f) \o Mint(f)
           p2 == p1 \o f.intent
           p3 == p2 \o f.blinded
           p4 == p3 \o <<f.amount>>
           p5 == p4 \o f.authorizer
           p6 == p5 \o f.dest
           p7 == p6 \o <<f.expiry, f.nonce>>
<1>0. p7 = RefundMessage(f)
  BY Zenon DEF RefundMessage, Head3, Mint
<1>2. Head3(f) \in Seq(Part) /\ Len(Head3(f)) > 0 /\ Head3(f)[1] = "hfipay:refund"
  <2>1. Len(Head3(f)) = 3
    BY PartsAreSequences, Zenon
  <2> QED
    BY <2>1, PartsAreSequences
<1>3. p1 \in Seq(Part) /\ Len(p1) > 0 /\ p1[1] = "hfipay:refund"
  BY FirstStays, <1>2, PartsAreSequences, Zenon
<1> HIDE DEF p1
<1>4. p2 \in Seq(Part) /\ Len(p2) > 0 /\ p2[1] = "hfipay:refund"
  BY FirstStays, <1>3, PartsAreSequences, Zenon
<1> HIDE DEF p2
<1>5. p3 \in Seq(Part) /\ Len(p3) > 0 /\ p3[1] = "hfipay:refund"
  BY FirstStays, <1>4, PartsAreSequences, Zenon
<1> HIDE DEF p3
<1>6. p4 \in Seq(Part) /\ Len(p4) > 0 /\ p4[1] = "hfipay:refund"
  BY FirstStays, <1>5, PartsAreSequences, Zenon
<1> HIDE DEF p4
<1>7. p5 \in Seq(Part) /\ Len(p5) > 0 /\ p5[1] = "hfipay:refund"
  BY FirstStays, <1>6, PartsAreSequences, Zenon
<1> HIDE DEF p5
<1>8. p6 \in Seq(Part) /\ Len(p6) > 0 /\ p6[1] = "hfipay:refund"
  BY FirstStays, <1>7, PartsAreSequences, Zenon
<1> HIDE DEF p6
<1>9. p7[1] = "hfipay:refund"
  BY FirstStays, <1>8, PartsAreSequences, Zenon
<1> QED
  BY <1>0, <1>3, <1>4, <1>5, <1>6, <1>7, <1>8, <1>9, Zenon DEF p1, p2, p3, p4, p5, p6

(* The bytes of a refund say all of its fields: nothing can be read in two *)
(* ways, though the mint is of two lengths and nothing is delimited.       *)
LEMMA RefundInjective ==
  ASSUME NEW q \in RefundRequest, NEW f \in Fields(q),
         NEW r \in RefundRequest, NEW g \in Fields(r),
         RefundMessage(f) = RefundMessage(g)
  PROVE  f = g
<1> DEFINE p1(h) == Head3(h) \o Mint(h)
           p2(h) == p1(h) \o h.intent
           p3(h) == p2(h) \o h.blinded
           p4(h) == p3(h) \o <<h.amount>>
           p5(h) == p4(h) \o h.authorizer
           p6(h) == p5(h) \o h.dest
           p7(h) == p6(h) \o <<h.expiry, h.nonce>>
<1>1. ASSUME NEW t \in RefundRequest, NEW h \in Fields(t)
      PROVE  /\ p1(h) \in Seq(Part) /\ p2(h) \in Seq(Part) /\ p3(h) \in Seq(Part)
             /\ p4(h) \in Seq(Part) /\ p5(h) \in Seq(Part) /\ p6(h) \in Seq(Part)
             /\ p7(h) = RefundMessage(h)
  BY MessagePrefixes, Zenon
<1>2. p7(f) = p7(g)
  BY <1>1, Zenon
<1>3. /\ Len(f.intent) = Len(g.intent) /\ Len(f.blinded) = Len(g.blinded)
      /\ Len(<<f.amount>>) = Len(<<g.amount>>) /\ Len(f.authorizer) = Len(g.authorizer)
      /\ Len(f.dest) = Len(g.dest) /\ Len(Head3(f)) = Len(Head3(g))
      /\ Len(<<f.expiry, f.nonce>>) = Len(<<g.expiry, g.nonce>>)
  BY PartsAreSequences, Zenon
<1>4. p6(f) = p6(g) /\ <<f.expiry, f.nonce>> = <<g.expiry, g.nonce>>
  <2>1. p6(f) \o <<f.expiry, f.nonce>> = p6(g) \o <<g.expiry, g.nonce>>
    BY <1>2, Zenon
  <2>2. /\ p6(f) \in Seq(Part) /\ p6(g) \in Seq(Part)
        /\ <<f.expiry, f.nonce>> \in Seq(Part) /\ <<g.expiry, g.nonce>> \in Seq(Part)
        /\ Len(<<f.expiry, f.nonce>>) = Len(<<g.expiry, g.nonce>>)
    BY <1>1, <1>3, PartsAreSequences, Zenon
  <2> HIDE DEF p6
  <2>3. p6(f) = p6(g)
    BY <2>1, <2>2, SplitRight, Zenon
  <2>4. <<f.expiry, f.nonce>> = <<g.expiry, g.nonce>>
    BY <2>1, <2>2, SplitRightRest, Zenon
  <2> QED
    BY <2>3, <2>4
<1>5. p5(f) = p5(g) /\ f.dest = g.dest
  <2>1. p5(f) \o f.dest = p5(g) \o g.dest
    BY <1>4, Zenon
  <2>2. /\ p5(f) \in Seq(Part) /\ p5(g) \in Seq(Part)
        /\ f.dest \in Seq(Part) /\ g.dest \in Seq(Part)
        /\ Len(f.dest) = Len(g.dest)
    BY <1>1, <1>3, PartsAreSequences, Zenon
  <2> HIDE DEF p5
  <2>3. p5(f) = p5(g)
    BY <2>1, <2>2, SplitRight, Zenon
  <2>4. f.dest = g.dest
    BY <2>1, <2>2, SplitRightRest, Zenon
  <2> QED
    BY <2>3, <2>4
<1>6. p4(f) = p4(g) /\ f.authorizer = g.authorizer
  <2>1. p4(f) \o f.authorizer = p4(g) \o g.authorizer
    BY <1>5, Zenon
  <2>2. /\ p4(f) \in Seq(Part) /\ p4(g) \in Seq(Part)
        /\ f.authorizer \in Seq(Part) /\ g.authorizer \in Seq(Part)
        /\ Len(f.authorizer) = Len(g.authorizer)
    BY <1>1, <1>3, PartsAreSequences, Zenon
  <2> HIDE DEF p4
  <2>3. p4(f) = p4(g)
    BY <2>1, <2>2, SplitRight, Zenon
  <2>4. f.authorizer = g.authorizer
    BY <2>1, <2>2, SplitRightRest, Zenon
  <2> QED
    BY <2>3, <2>4
<1>7. p3(f) = p3(g) /\ <<f.amount>> = <<g.amount>>
  <2>1. p3(f) \o <<f.amount>> = p3(g) \o <<g.amount>>
    BY <1>6, Zenon
  <2>2. /\ p3(f) \in Seq(Part) /\ p3(g) \in Seq(Part)
        /\ <<f.amount>> \in Seq(Part) /\ <<g.amount>> \in Seq(Part)
        /\ Len(<<f.amount>>) = Len(<<g.amount>>)
    BY <1>1, <1>3, PartsAreSequences, Zenon
  <2> HIDE DEF p3
  <2>3. p3(f) = p3(g)
    BY <2>1, <2>2, SplitRight, Zenon
  <2>4. <<f.amount>> = <<g.amount>>
    BY <2>1, <2>2, SplitRightRest, Zenon
  <2> QED
    BY <2>3, <2>4
<1>8. p2(f) = p2(g) /\ f.blinded = g.blinded
  <2>1. p2(f) \o f.blinded = p2(g) \o g.blinded
    BY <1>7, Zenon
  <2>2. /\ p2(f) \in Seq(Part) /\ p2(g) \in Seq(Part)
        /\ f.blinded \in Seq(Part) /\ g.blinded \in Seq(Part)
        /\ Len(f.blinded) = Len(g.blinded)
    BY <1>1, <1>3, PartsAreSequences, Zenon
  <2> HIDE DEF p2
  <2>3. p2(f) = p2(g)
    BY <2>1, <2>2, SplitRight, Zenon
  <2>4. f.blinded = g.blinded
    BY <2>1, <2>2, SplitRightRest, Zenon
  <2> QED
    BY <2>3, <2>4
<1>9. p1(f) = p1(g) /\ f.intent = g.intent
  <2>1. p1(f) \o f.intent = p1(g) \o g.intent
    BY <1>8, Zenon
  <2>2. /\ p1(f) \in Seq(Part) /\ p1(g) \in Seq(Part)
        /\ f.intent \in Seq(Part) /\ g.intent \in Seq(Part)
        /\ Len(f.intent) = Len(g.intent)
    BY <1>1, <1>3, PartsAreSequences, Zenon
  <2> HIDE DEF p1
  <2>3. p1(f) = p1(g)
    BY <2>1, <2>2, SplitRight, Zenon
  <2>4. f.intent = g.intent
    BY <2>1, <2>2, SplitRightRest, Zenon
  <2> QED
    BY <2>3, <2>4
<1>10. Head3(f) = Head3(g) /\ Mint(f) = Mint(g)
  <2>1. /\ Head3(f) \in Seq(Part) /\ Head3(g) \in Seq(Part)
        /\ Mint(f) \in Seq(Part) /\ Mint(g) \in Seq(Part)
        /\ Len(Head3(f)) = Len(Head3(g))
    BY <1>3, PartsAreSequences, Zenon
  <2>2. Head3(f) \o Mint(f) = Head3(g) \o Mint(g)
    BY <1>9, Zenon
  <2>3. Head3(f) = Head3(g)
    BY <2>1, <2>2, SplitLeft, Zenon
  <2>4. Mint(f) = Mint(g)
    BY <2>1, <2>2, SplitLeftRest, Zenon
  <2> QED
    BY <2>3, <2>4
<1> HIDE DEF p1, p2, p3, p4, p5, p6, p7
<1>11. f.mint = g.mint
  <2>1. <<0>> \in Seq(Part) /\ Len(<<0>>) > 0 /\ <<1>> \in Seq(Part) /\ Len(<<1>>) > 0
    BY DEF Part
  <2>2. ASSUME NEW t \in RefundRequest, NEW h \in Fields(t), h.mint # None
        PROVE  /\ h.mint \in Seq(Part) /\ Mint(h) = <<1>> \o h.mint
               /\ Mint(h)[1] = 1
    <3>1. h.mint \in Seq(Part) /\ Mint(h) = <<1>> \o h.mint
      BY <2>2, PartsAreSequences, Zenon
    <3>2. (<<1>> \o h.mint)[1] = <<1>>[1]
      BY <2>1, <3>1, FirstStays, Zenon
    <3> QED
      BY <3>1, <3>2
  <2>3. ASSUME NEW h, h.mint = None PROVE Mint(h)[1] = 0
    BY <2>3 DEF Mint
  <2>4. CASE f.mint = None
    <3>1. Mint(g)[1] = 0
      BY <1>10, <2>3, <2>4, Zenon
    <3>2. g.mint = None
      BY <2>2, <3>1
    <3> QED
      BY <2>4, <3>2
  <2>5. CASE f.mint # None
    <3>1. Mint(g)[1] = 1
      BY <1>10, <2>2, <2>5, Zenon
    <3>2. g.mint # None
      BY <2>3, <3>1
    <3>3. <<1>> \o f.mint = <<1>> \o g.mint
      BY <1>10, <2>2, <2>5, <3>2, Zenon
    <3>4. f.mint \in Seq(Part) /\ g.mint \in Seq(Part)
      BY <2>2, <2>5, <3>2, Zenon
    <3> QED
      BY <2>1, <3>3, <3>4, SplitLeftRest, Zenon
  <2> QED
    BY <2>4, <2>5
<1>12. f.chain_tag = g.chain_tag /\ f.amount = g.amount /\ f.expiry = g.expiry /\ f.nonce = g.nonce
  BY <1>4, <1>7, <1>10 DEF Head3
<1>13. /\ f.intent = g.intent /\ f.blinded = g.blinded
       /\ f.authorizer = g.authorizer /\ f.dest = g.dest
  BY <1>5, <1>6, <1>8, <1>9
<1>14. /\ f = [chain_tag |-> f.chain_tag, mint |-> f.mint, intent |-> f.intent,
               blinded |-> f.blinded, amount |-> f.amount, authorizer |-> f.authorizer,
               dest |-> f.dest, expiry |-> f.expiry, nonce |-> f.nonce]
       /\ g = [chain_tag |-> g.chain_tag, mint |-> g.mint, intent |-> g.intent,
               blinded |-> g.blinded, amount |-> g.amount, authorizer |-> g.authorizer,
               dest |-> g.dest, expiry |-> g.expiry, nonce |-> g.nonce]
  BY FieldsAreWords, Zenon
<1> QED
  BY <1>11, <1>12, <1>13, <1>14, Zenon

(* The bytes of a registration: what it begins with, and how it splits.    *)
LEMMA RegistrationBytes ==
  ASSUME NEW x \in Word, NEW i \in Identifier
  PROVE  /\ <<"hfipay:register">> \in Seq(Part) /\ i \in Seq(Part) /\ x \in Seq(Part)
         /\ <<"hfipay:register">> \o x \in Seq(Part)
         /\ Len(<<"hfipay:register">> \o x) = 1 + HashLength
         /\ RegistrationMessage(x, i)[1] = "hfipay:register"
<1>1. /\ <<"hfipay:register">> \in Seq(Part) /\ Len(<<"hfipay:register">>) = 1
      /\ Len(<<"hfipay:register">>) > 0
  BY DEF Part
<1>2. i \in Seq(Int) /\ Int \subseteq Part
  BY HfiAssumption DEF Part
<1>3. i \in Seq(Part) /\ x \in Seq(Part) /\ Len(x) = HashLength
  BY <1>2, SeqMonotonic, Zenon DEF Word
<1>4. /\ <<"hfipay:register">> \o x \in Seq(Part)
      /\ Len(<<"hfipay:register">> \o x) > 0
      /\ (<<"hfipay:register">> \o x)[1] = <<"hfipay:register">>[1]
  BY <1>1, <1>3, FirstStays, Zenon
<1>5. Len(<<"hfipay:register">> \o x) = 1 + HashLength
  BY <1>1, <1>3, ConcatProperties, Zenon
<1>6. RegistrationMessage(x, i)[1] = (<<"hfipay:register">> \o x)[1]
  BY <1>3, <1>4, FirstStays, Zenon DEF RegistrationMessage
<1> QED
  BY <1>1, <1>3, <1>4, <1>5, <1>6

LEMMA RegistrationInjective ==
  ASSUME NEW x \in Word, NEW i \in Identifier, NEW y \in Word, NEW j \in Identifier,
         RegistrationMessage(x, i) = RegistrationMessage(y, j)
  PROVE  x = y /\ i = j
<1> DEFINE h == <<"hfipay:register">>
<1>1. /\ h \in Seq(Part) /\ x \in Seq(Part) /\ y \in Seq(Part)
      /\ i \in Seq(Part) /\ j \in Seq(Part)
      /\ h \o x \in Seq(Part) /\ h \o y \in Seq(Part)
      /\ Len(h \o x) = Len(h \o y)
  BY RegistrationBytes, Zenon
<1>2. (h \o x) \o i = (h \o y) \o j
  BY Zenon DEF RegistrationMessage
<1> HIDE DEF h
<1>3. i = j
  BY <1>1, <1>2, SplitLeftRest, Zenon
<1>4. h \o x = h \o y
  BY <1>1, <1>2, SplitLeft, Zenon
<1>5. x = y
  BY <1>1, <1>4, SplitLeftRest, Zenon
<1> QED
  BY <1>3, <1>5

(* No registration is a refund.                                            *)
LEMMA KindsDiffer ==
  ASSUME NEW x \in Word, NEW i \in Identifier, NEW r \in RefundRequest, NEW f \in Fields(r)
  PROVE  RegistrationMessage(x, i) # RefundMessage(f)
<1>1. RefundMessage(f)[1] = "hfipay:refund"
  BY MessagePrefixes, Zenon
<1>2. RegistrationMessage(x, i)[1] = "hfipay:register"
  BY RegistrationBytes, Zenon
<1> QED
  BY <1>1, <1>2

-----------------------------------------------------------------------------
(* The invariant *)

(* What a wallet replies when it signs: the same key from every mnemonic.  *)
ReplyOf(wallet, message) ==
    [pubkey    |-> PublicKey("ml-dsa-44", MaterialSeeds(wallet).xaddress),
     signature |-> SignWith("ml-dsa-44", MaterialSeeds(wallet).xaddress, message)]

IsRegistration(a) ==
    /\ a.kind = "register" /\ a.asked.identifier \in Identifier
    /\ \E x \in Decode32(a.asked.xid) :
         x \in Word /\ a.reply = ReplyOf(a.wallet, RegistrationMessage(x, a.asked.identifier))

IsRefund(a) ==
    /\ a.kind = "refund" /\ a.asked \in RefundRequest
    /\ \E f \in Fields(a.asked) : a.reply = ReplyOf(a.wallet, RefundMessage(f))

AuthorisedOK == \A a \in authorised : IsRegistration(a) \/ IsRefund(a)

AccountsOK ==
    \A account \in accounts : \E a \in authorised :
      /\ a.kind = "register"
      /\ account.key = Published(a.wallet)
      /\ account.identifier = a.asked.identifier
      /\ account.xid \in Decode32(a.asked.xid)

HonouredOK ==
    \A h \in honoured : \E a \in authorised :
      /\ a.kind = "refund"
      /\ h.key = Published(a.wallet)
      /\ h.fields \in Fields(a.asked)

QuotesOK ==
    \A q \in quotes :
      /\ q.epoch \in Epoch /\ EpochFits(q.epoch)
      /\ q.key = PublicKey("ed25519", MaterialSeeds(q.mnemonic.material).solana)
      /\ q.binding.commitment = <<"id_com", q.mnemonic>>
      /\ q.binding.handle = <<"target", q.mnemonic, FieldElement(q.epoch)>>

HfiInv == AuthorisedOK /\ AccountsOK /\ HonouredOK /\ QuotesOK

(* Replies carry the published key, and what they sign.                    *)
LEMMA ReplyFacts ==
  ASSUME NEW wallet, NEW message
  PROVE  /\ ReplyOf(wallet, message).pubkey = Published(wallet)
         /\ ReplyOf(wallet, message).signature.msg = message
         /\ \A key, msg : Verifies(key, msg, ReplyOf(wallet, message).signature)
               <=> msg = message /\ key = Published(wallet)
<1>1. /\ ReplyOf(wallet, message).signature.msg = message
      /\ ReplyOf(wallet, message).signature.curve = "ml-dsa-44"
      /\ ReplyOf(wallet, message).signature.seed = MaterialSeeds(wallet).xaddress
      /\ ReplyOf(wallet, message).pubkey = PublicKey("ml-dsa-44", MaterialSeeds(wallet).xaddress)
  BY DEF ReplyOf, SignWith
<1>2. Published(wallet) = PublicKey("ml-dsa-44", MaterialSeeds(wallet).xaddress)
  BY DEF Published, EntityOf, Entity, Address, Chain, CurveOf
<1> QED
  BY <1>1, <1>2 DEF Verifies

(* A wallet signs with the key of its material, whatever mnemonic it is    *)
(* asked through.                                                          *)
LEMMA SignedByWallet ==
  ASSUME NEW m, NEW p, NEW message, NEW s \in SignHash(m, p, message)
  PROVE  s = ReplyOf(m.material, message)
BY DEF SignHash, UnsealToSeeds, ReplyOf

LEMMA HfiInitInv == HfiInit => HfiInv
BY DEF HfiInit, HfiInv, AuthorisedOK, AccountsOK, HonouredOK, QuotesOK

(* More authorisations take nothing away.                                  *)
LEMMA AuthorisedGrows ==
  ASSUME HfiInv, authorised \subseteq authorised', AuthorisedOK',
         UNCHANGED <<accounts, honoured, quotes>>
  PROVE  HfiInv'
BY DEF HfiInv, AccountsOK, HonouredOK, QuotesOK

LEMMA AnswerPreserves ==
  ASSUME HfiInv, NEW m, NEW p, HfiAnswer(m, p)
  PROVE  HfiInv'
<1>1. ASSUME NEW xid \in Xids, NEW i \in Identifier, SignRegistration(m, p, xid, i)
      PROVE  HfiInv'
  <2>1. ASSUME NEW s \in SignRegistrationHash(m, p, xid, i)
        PROVE  IsRegistration([wallet |-> m.material, reply |-> s, kind |-> "register",
                               asked |-> [xid |-> xid, identifier |-> i]])
    <3>1. PICK x \in Decode32(xid) : s \in SignHash(m, p, RegistrationMessage(x, i))
      BY DEF SignRegistrationHash
    <3>2. s = ReplyOf(m.material, RegistrationMessage(x, i))
      BY <3>1, SignedByWallet
    <3>3. x \in Word
      BY Decode32IsWord, HfiAssumption, Zenon
    <3> QED
      BY <3>2, <3>3 DEF IsRegistration
  <2>2. AuthorisedOK' /\ authorised \subseteq authorised'
    BY <1>1, <2>1 DEF SignRegistration, HfiInv, AuthorisedOK
  <2> QED
    BY <1>1, <2>2, AuthorisedGrows DEF SignRegistration
<1>2. ASSUME NEW r \in RefundRequest, AuthoriseRefund(m, p, r)
      PROVE  HfiInv'
  <2>1. ASSUME NEW s \in SignRefundAuth(m, p, r)
        PROVE  IsRefund([wallet |-> m.material, reply |-> s, kind |-> "refund", asked |-> r])
    <3>1. PICK f \in Fields(r) : s \in SignHash(m, p, RefundMessage(f))
      BY DEF SignRefundAuth
    <3>2. s = ReplyOf(m.material, RefundMessage(f))
      BY <3>1, SignedByWallet
    <3> QED
      BY <3>2 DEF IsRefund
  <2>2. AuthorisedOK' /\ authorised \subseteq authorised'
    BY <1>2, <2>1 DEF AuthoriseRefund, HfiInv, AuthorisedOK
  <2> QED
    BY <1>2, <2>2, AuthorisedGrows DEF AuthoriseRefund
<1>3. ASSUME NEW e \in Epoch, Quote(m, p, e)
      PROVE  HfiInv'
  <2>1. QuotesOK'
    BY <1>3 DEF Quote, HfiInv, QuotesOK, ClaimPubkey, BindingMetadata, UnsealToSeeds
  <2> QED
    BY <1>3, <2>1 DEF Quote, HfiInv, AuthorisedOK, AccountsOK, HonouredOK
<1> QED
  BY <1>1, <1>2, <1>3 DEF HfiAnswer

LEMMA RegisterPreserves ==
  ASSUME HfiInv, NEW a \in authorised, NEW xid \in Xids, NEW i \in Identifier,
         Register(xid, i, a.reply)
  PROVE  HfiInv'
<1>1. PICK x \in Decode32(xid) :
        /\ Verifies(a.reply.pubkey, RegistrationMessage(x, i), a.reply.signature)
        /\ accounts' = accounts \cup {[xid |-> x, identifier |-> i, key |-> a.reply.pubkey]}
  BY DEF Register
<1>2. x \in Word
  BY Decode32IsWord, HfiAssumption, Zenon
<1>3. ~IsRefund(a)
  <2> SUFFICES ASSUME IsRefund(a) PROVE FALSE
    OBVIOUS
  <2>1. PICK f \in Fields(a.asked) : a.reply = ReplyOf(a.wallet, RefundMessage(f))
    BY DEF IsRefund
  <2>2. a.reply.signature.msg = RefundMessage(f)
    BY <2>1, ReplyFacts
  <2>3. RegistrationMessage(x, i) = RefundMessage(f)
    BY <1>1, <2>2 DEF Verifies
  <2> QED
    BY <1>2, <2>3, KindsDiffer DEF IsRefund
<1>4. IsRegistration(a)
  BY <1>3 DEF HfiInv, AuthorisedOK
<1>5. PICK y \in Decode32(a.asked.xid) :
        y \in Word /\ a.reply = ReplyOf(a.wallet, RegistrationMessage(y, a.asked.identifier))
  BY <1>4 DEF IsRegistration
<1>6. /\ RegistrationMessage(x, i) = RegistrationMessage(y, a.asked.identifier)
      /\ a.reply.pubkey = Published(a.wallet)
  <2>1. /\ a.reply.signature.msg = RegistrationMessage(y, a.asked.identifier)
        /\ a.reply.pubkey = Published(a.wallet)
    BY <1>5, ReplyFacts
  <2> QED
    BY <1>1, <2>1 DEF Verifies
<1>7. x = y /\ i = a.asked.identifier
  BY <1>2, <1>4, <1>5, <1>6, RegistrationInjective DEF IsRegistration
<1>8. AccountsOK'
  BY <1>1, <1>4, <1>5, <1>6, <1>7 DEF Register, HfiInv, AccountsOK, IsRegistration
<1> QED
  BY <1>8 DEF Register, HfiInv, AuthorisedOK, HonouredOK, QuotesOK

LEMMA HonourPreserves ==
  ASSUME HfiInv, NEW account \in accounts, NEW a \in authorised, NEW r \in RefundRequest,
         Honour(account, r, a.reply)
  PROVE  HfiInv'
<1>1. PICK f \in Fields(r) :
        /\ Verifies(account.key, RefundMessage(f), a.reply.signature)
        /\ honoured' = honoured \cup {[key |-> account.key, fields |-> f]}
  BY DEF Honour
<1>2. ~IsRegistration(a)
  <2> SUFFICES ASSUME IsRegistration(a) PROVE FALSE
    OBVIOUS
  <2>1. PICK y \in Decode32(a.asked.xid) :
          y \in Word /\ a.reply = ReplyOf(a.wallet, RegistrationMessage(y, a.asked.identifier))
    BY DEF IsRegistration
  <2>2. RegistrationMessage(y, a.asked.identifier) = RefundMessage(f)
    BY <1>1, <2>1, ReplyFacts, SMTT(30)
  <2> QED
    BY <2>1, <2>2, KindsDiffer DEF IsRegistration
<1>3. IsRefund(a)
  BY <1>2 DEF HfiInv, AuthorisedOK
<1>4. PICK g \in Fields(a.asked) : a.reply = ReplyOf(a.wallet, RefundMessage(g))
  BY <1>3 DEF IsRefund
<1>5. RefundMessage(f) = RefundMessage(g) /\ account.key = Published(a.wallet)
  BY <1>1, <1>4, ReplyFacts, SMTT(30)
<1>6. f = g
  BY <1>3, <1>5, RefundInjective DEF IsRefund
<1>7. HonouredOK'
  BY <1>1, <1>3, <1>5, <1>6 DEF Honour, HfiInv, HonouredOK, IsRefund
<1> QED
  BY <1>7 DEF Honour, HfiInv, AuthorisedOK, AccountsOK, QuotesOK

LEMMA HfiStepPreserves == HfiInv /\ [HfiNext]_hfiVars => HfiInv'
<1> SUFFICES ASSUME HfiInv, [HfiNext]_hfiVars PROVE HfiInv'
  OBVIOUS
<1>1. CASE \/ \E w \in HfiMaterial, p \in HfiPassphrase, s \in HfiSecondary : HfiGenerate(w, p, s)
           \/ \E m \in hfiMnemonics, p, q \in HfiPassphrase : HfiChangePassphrase(m, p, q)
  BY <1>1 DEF HfiGenerate, HfiChangePassphrase, HfiInv, AuthorisedOK, AccountsOK, HonouredOK, QuotesOK
<1>2. CASE UNCHANGED hfiVars
  BY <1>2 DEF hfiVars, HfiInv, AuthorisedOK, AccountsOK, HonouredOK, QuotesOK
<1> QED
  BY <1>1, <1>2, AnswerPreserves, RegisterPreserves, HonourPreserves DEF HfiNext

(* The inductive invariant of HFI Pay: replies are what the wallet of the  *)
(* mnemonic signs, accounts and refunds were asked for, quotes fit.        *)
THEOREM HfiInvariance == HfiSpec => []HfiInv
BY HfiInitInv, HfiStepPreserves, PTL DEF HfiSpec

(* No authorisation is taken for another one.                              *)
THEOREM OnlyWhatWasAsked == HfiSpec => []HonouredAsAsked
<1>1. HfiInv => HonouredAsAsked
  BY DEF HfiInv, AccountsOK, HonouredOK, HonouredAsAsked
<1> QED
  BY <1>1, HfiInvariance, PTL

(* Every authorisation is good under the account of its wallet, across     *)
(* any number of rotations.                                                *)
THEOREM GoodForEver == HfiSpec => []AuthorisationsAreGood
<1>1. HfiInv => AuthorisationsAreGood
  <2> SUFFICES ASSUME HfiInv, NEW account \in accounts, NEW g \in authorised, NEW a \in authorised,
                      g.kind = "register", account.key = g.reply.pubkey,
                      a.kind = "refund", a.wallet = g.wallet
               PROVE  \E f \in Fields(a.asked) :
                        Verifies(account.key, RefundMessage(f), a.reply.signature)
    BY DEF AuthorisationsAreGood
  <2>1. IsRegistration(g) /\ IsRefund(a)
    BY DEF HfiInv, AuthorisedOK, IsRegistration, IsRefund
  <2>2. account.key = Published(a.wallet)
    BY <2>1, ReplyFacts DEF IsRegistration
  <2>3. PICK f \in Fields(a.asked) : a.reply = ReplyOf(a.wallet, RefundMessage(f))
    BY <2>1 DEF IsRefund
  <2> QED
    BY <2>2, <2>3, ReplyFacts
<1> QED
  BY <1>1, HfiInvariance, PTL

(* An epoch that fits is its own field element.                            *)
LEMMA FieldIsExact ==
  ASSUME NEW e \in Epoch, EpochFits(e)
  PROVE  FieldElement(e) = e
<1>1. \A n \in Nat \ {0}, k \in Nat : k < n => k % n = k
  OBVIOUS
<1> DEFINE n == 2^FieldBits
           w == 2^(FieldBits + 1)
<1>2. n \in Nat \ {0, 1} /\ w = 2 * n /\ e \in Nat /\ e < n - 1
  BY HfiAssumption DEF EpochFits
<1>3. FieldElement(e) = (e % w) % (n - 1)
  BY DEF FieldElement
<1> HIDE DEF n, w
<1>4. w \in Nat \ {0} /\ n - 1 \in Nat \ {0} /\ e < w
  BY <1>2
<1> QED
  BY <1>1, <1>2, <1>3, <1>4

(* Quotes are for their wallet, and their handles for one mnemonic and one *)
(* epoch, in fields of any size.                                           *)
THEOREM QuotesAreDistinct == HfiSpec => []QuotesNameTheirWallet
<1>1. HfiInv => QuotesNameTheirWallet
  <2> SUFFICES ASSUME HfiInv, NEW q \in quotes, NEW r \in quotes
               PROVE  /\ q.key = EntityOf(q.mnemonic.material).solana[2]
                      /\ q.binding.commitment = r.binding.commitment <=> q.mnemonic = r.mnemonic
                      /\ q.binding.handle = r.binding.handle
                           <=> q.mnemonic = r.mnemonic /\ q.epoch = r.epoch
    BY DEF QuotesNameTheirWallet
  <2>1. EntityOf(q.mnemonic.material).solana[2]
          = PublicKey("ed25519", MaterialSeeds(q.mnemonic.material).solana)
    BY DEF EntityOf, Entity, Address, Chain, CurveOf
  <2>2. FieldElement(q.epoch) = q.epoch /\ FieldElement(r.epoch) = r.epoch
    BY FieldIsExact DEF HfiInv, QuotesOK
  <2> QED
    BY <2>1, <2>2 DEF HfiInv, QuotesOK
<1> QED
  BY <1>1, HfiInvariance, PTL
=============================================================================
