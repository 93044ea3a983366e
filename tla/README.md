# ACE-GF wallet: TLA+ models, checks and proofs

`acegf-wallet` is a Rust library with C and WASM bindings. It turns 16 random
bytes into nine key streams (Solana, EVM, Bitcoin, Cosmos, Tron, Polkadot,
X25519, ML-DSA-44, ML-KEM-768), seals the 16 bytes under a passphrase, and
prints the 32 sealed bytes as a 24-word mnemonic. Around that core it offers
passphrase rotation, sessions, address sets isolated by a context ("vaults"),
encryption to a wallet, transaction signers, and discovery of a sealed wallet by
e-mail and password (VA-DAR).

The library has no threads, no locks and no global state. What is hard about it
lies between calls: mnemonics, old copies of mnemonics, published addresses,
stored envelopes and sessions stay with callers on several devices, and each
call derives everything anew, often in another copy of the same derivation. The
models therefore let *any* artefact that was ever handed out come back, in any
order, with any credential, and ask whether later answers agree with earlier
ones.

## Inventory

| Component (source) | State | Operations | What makes it correct |
|---|---|---|---|
| Sealing (`utils/passphrase_sealing_util.rs`, `acegf_core.rs`) | none | combine, seal, unseal, derive streams and entity | a seal opens for its credential only; nothing random enters it |
| Wallet core (`acegf_core.rs`, `ffi.rs`, `wasm.rs`) | mnemonics, with callers | generate, view, view with PRF, change passphrase (three variants), sign, X25519 sign/verify | same root or fail; nobody is locked out; wallets stay apart |
| Sessions (`session.rs`) | mnemonic, base key, signing seed, public view, cached at open | open, sign, decrypt, drop | what is cached stays usable and true |
| Vault contexts (`acegf_core.rs`, signers, `wasm.rs`) | published addresses, with callers | build a context; view and sign under it, with passphrase or passkey | views agree, signers match views, vaults are isolated |
| Envelopes (`acegf.rs`) | envelopes and wraps, with callers and a wrap layer | encrypt/decrypt legacy, v1, v2; encapsulate; regenerate a wrap | recipient and only the recipient reads; no splicing; no IV reuse; wraps reproducible |
| C interface: two-pass decrypt (`ffi.rs`) | caller's buffer and size variable | `acegf_decrypt_with_mnemonic`, `acegf_decrypt_with_passkey` | no overrun, whole messages, real failures, a message that is there is delivered |
| C interface: heap (`ffi.rs`, `acegf.h`) | strings and `ACEGF_Result` structs, with callers | `to_cstring`, `acegf_free_string`, `acegf_call`, `acegf_free_result` | one owner per block, nothing leaks |
| VA-DAR (`vadar.rs`) | registry and artefact store (outside the repository) | normalise e-mail, discovery id, seal/unseal SA2, sign update, commit | an artefact is found and opened with any spelling of the e-mail and the password; entries stay whole |
| HFI Pay (`hfi_pay.rs`, `zk.rs`) | accounts, refunds and quotes, with the service (outside the repository) | sign registration and refund, derive binding, claim key | an authorisation is good for what was asked and nothing else; quotes belong to one wallet |
| Solana signer | ledger (outside) | message layout, short-vec, token accounts, sign serialised messages | a signed transaction does what was asked or nothing |
| EVM and Tron signers | chains and contracts (outside) | hex to bytes, RLP, both kinds of transaction, messages, token calls | what a chain executes was asked for; signatures verify for their message only |
| Bitcoin signer (with the JSON parser of `wasm.rs`, `ffi.rs`) | coins (outside) | addresses, scripts, two signature hashes, two signers | shown addresses are spendable; a transaction spends and pays what its JSON says |
| ZK binding (`zk.rs`, `wasm_zk.rs`) | none | field conversions, proof calls | - |

Interaction: bindings translate arguments and call the core; sessions, signers,
envelopes and vaults all start by unsealing a mnemonic (or, under a context, by
*not* unsealing it) and deriving streams; envelopes and signers use streams that
the entity published earlier. There are no callbacks.

Hard behaviour: stale copies of mnemonics and branches of rotations; credentials
that bindings pass differently (absent, empty, NUL inside, null, not UTF-8); derivations written
two or three times; v2 wraps that are derived again instead of stored; parts of
envelopes that travel separately; a size variable with four meanings; numbers
that a parser narrows and text that a decoder pads; bytes that are written in one
place and read by somebody else's rules; structs that a later call overwrites.
The full list is under `hazards` in `PROJECT.json`.

## Modules

| Module | Models | Lines of code it stands for |
|---|---|---|
| `Sealing` | pure part of the core, symbolic cryptography | `passphrase_sealing_util.rs`, derivation in `acegf_core.rs` |
| `Identity` | abstract promise of the wallet core: names for identities | `session.rs` API, the "same root or fail" comment |
| `Wallet` | the wallet core and sessions as callers drive them | `acegf_core.rs`, `session.rs`, argument rules of `ffi.rs`, `wasm.rs` |
| `Vault` | contexts, on top of `Wallet` | `acegf_core.rs`, `evm/solana/tron_signer.rs`, `wasm.rs` |
| `VaultContext` | how contexts and HKDF info bytes are built | `acegf_core.rs` |
| `Vaults_proof` | theorems of `Wallet`, `Vault` and `VaultContext` | |
| `Envelope` | all envelope formats, the wrap layer, readers | `acegf.rs`, `pqclean_ffi.rs` |
| `Envelope_proof` | theorems of `Envelope` | |
| `FfiDecrypt` | two-pass decrypt and its documented caller | `ffi.rs` |
| `FfiHeap` | strings and results on the heap, and the caller they imply | `ffi.rs`, `acegf.h` |
| `Ffi_proof` | theorems of `FfiDecrypt` and `FfiHeap` | |
| `Discovery` | VA-DAR: addresses, keys, artefacts, updates; devices, relayer, registry and store around it | `vadar.rs` |
| `HfiPay` | registrations, refunds and quotes over rotations, and the service that checks them | `hfi_pay.rs`, parts of `zk.rs`, `wasm.rs` |
| `Services_proof` | theorems of `Discovery` and `HfiPay` | |
| `Bytes` | numbers as bytes, for the three ledgers | signers |
| `Bytes_proof` | lemmas on numbers, sequences and induction over lengths | |
| `SolanaTransfer` | messages the Solana signer lays out or is handed, and the network that reads them | `solana_signer.rs` |
| `SolanaTransfer_proof` | theorems of `SolanaTransfer` | |
| `EvmTransaction` | transactions, messages and token calls of EVM chains and Tron, and the nodes and contracts that read them | `evm_signer.rs`, `tron_signer.rs` |
| `EvmTransaction_proof` | theorems of `EvmTransaction` | |
| `BitcoinTransaction` | addresses, scripts, JSON, signature hashes and signers of Bitcoin, and the network that checks them | `bitcoin_signer.rs`, `acegf_core.rs`, `wasm.rs`, `ffi.rs` |
| `BitcoinTransaction_proof` | theorems of `BitcoinTransaction` | |
| `MC*` | instances for TLC | |

`Wallet` EXTENDS `Sealing` and instantiates `Identity`; `Vault` EXTENDS
`Wallet` and runs its `GenerateStep` and `RekeyStep` next to the vault calls;
`Envelope` and `HfiPay` EXTEND `Sealing`; the three ledger modules EXTEND
`Bytes`. `VaultContext`, `FfiDecrypt`, `FfiHeap` and `Discovery` stand alone.

Components that share no state are checked in one run: `MCVaults`, `MCFfi`,
`MCServices` and `MCLedgers` choose in the initial state which of their
components takes the steps. Interleavings of components that never read each
other's variables would multiply states and show nothing; components that do
interact (`Wallet` with `Vault`, sealing with envelopes and HFI Pay) are
composed step by step in the modules above.

### Conventions

*Cryptography is symbolic.* KDFs, hashes, ciphers and signatures are free
constructors (tagged tuples and records of their inputs), so equality of two
terms is equality of everything that went into them. Collisions and forgeries
are left out. What the code really decides - which inputs go in, in which order,
under which label, and what is checked before something is opened - is kept.
ML-KEM has implicit rejection: a foreign ciphertext gives another secret.

*Strings.* A passphrase is the sequence of its NUL-free fragments, so that
`format!("{p}\0{s}")` is concatenation and `Some("")` is `<<"">>`. C strings are
the sequences of one fragment and the null pointer; a fragment may be one that is
not UTF-8 (`NotUtf8`), and `FromCStr`, `FromCStrOptional` and `FromCStrOrEmpty` do
what `ffi.rs:33-54` does with it. Rust and WASM strings are UTF-8 and may have NULs
inside; what a JavaScript engine makes of lone surrogates before `wasm.rs` sees
them is not modelled. A call is told apart by how it reads its two passphrases
(`Reader`): as Rust and most WASM calls do, as C calls do, or with an admin factor
in which `""` stands for none. `VaultContext` has byte strings because
the separator is what it is about, and `Discovery` has e-mail addresses as
sequences of characters because two of them may be one mailbox. The ledger
modules have bytes, because layout, padding and lengths are what they are about,
with keys, hashes and numbers cut to a few bytes each: the sizes are CONSTANTS
and the code's slices depend on nothing but their being constant. Hex text is a
sequence of digits with a stand-in for "not a digit"; optional fields of JSON and
results that may be missing are sets of at most one element.

*Outside the repository.* `Discovery` needs a registry, `HfiPay` a payment
service, the ledger modules a network each. They are kept to what the library's
own output presupposes (who may replace an entry, how a message is read, which
consensus rule a signature answers to) and marked external in the map; no
property is about them alone.

*History.* `announced` and `kits` in `Wallet` are what owners know: the entity
`generate` returned, carried along rotations, and the passphrases as they were
passed to the last call that issued the mnemonic, with the kind of that call -
not what the call made of them. `published` in `Vault` is a view an owner gave away.
They appear in no guard; the guards come from the code. The exceptions are the
bounds `MaxIssued`, `MaxPublished`, `MaxPosted`, `MaxMessages`, `MaxLength`,
`MaxSegments`, `MaxBackups`, `MaxHfiMnemonics`, `MaxReplies`, `MaxSigned`,
`MaxEvmSigned`, `MaxWaiting` and the freshness of random material (`FreshRoot`),
which stands for `getrandom`. What was asked for, kept beside each reply in
`authorised`, `evmSigned`, `btcWaiting` and `btcConfirmed`, is history in the same
sense: services, chains and the network see the reply only.

*Actions* are whole calls: decode, unseal, work, reply, with the error of the
first check that fails. `ret` is the reply of the last call.

## Runs

| Run | Instance | Shows |
|---|---|---|
| `wallet` | 2 wallets, 2 passphrases, secondary none or "q", 3 mnemonics, 1 session | `SameRootOrFail`, `OneMnemonicPerCredential`, `WalletsStayApart`, `SessionsShowTheWallet`, refinement of `Identity` |
| `wallet_bindings` | 1 wallet, 2 mnemonics, passphrases empty, with a NUL, not UTF-8 and null, secondaries none, empty, present, not UTF-8, all three readers | `TypeOK`, `NoLockout`, `OnlyItsCredential` |
| `vaults` | 2 mnemonics, 2 passphrases, personal wallet and 2 contexts, both paths; pairs of lists of up to 2 segments of up to 2 bytes around the separator | `ViewsAgree`, `SignersMatchViews` (all but the Tron passphrase case), `VaultsStayApart`; `ContextNamesVault`, `StreamsNeverCollide` |
| `envelope` | 3 envelopes of legacy, v1, bare KEM; 2 wallets with 2 mnemonics each | `RecipientAndOnlyRecipientReads`, `NoSplicing`, `IvNeverReused` |
| `envelope_v2` | 2 v2 envelopes, repeated nonces, wraps lost and regenerated | the same, `WrapsAreReproducible` |
| `services` | VA-DAR: 3 backups, 2 passwords, one mailbox in 2 spellings and one that differs by a dot. HFI Pay: 2 wallets, 3 mnemonics, 3 replies, 6 epochs | `RecoversNewestBackup`, `AcceptedBackupsAreFound`, `EntriesStayWhole`; `HonouredAsAsked`, `AuthorisationsAreGood`, `QuotesNameTheirWallet` |
| `ledgers` | Solana: 2 wallets, 1 mint, 2 transactions in flight, messages of applications in four forms. EVM and Tron: 3 keys, 3 chains, 2 signatures, every request of `MCEvm`. Bitcoin: 2 wallets, one with an odd key, 2 coins, 1 transaction in flight, every payment and JSON of `MCBitcoin` | `TransfersDoWhatWasMeant`; `ExecutesWhatWasAsked`, `ReturnedIsAccepted`, `MessagesVerifyAsAsked`, `TokenCallsMeanWhatWasAsked`; `SpendsWhatWasAsked`, `FundsCanBeSpent`, `PaymentsGoToTheShownKey` |
| `ffi` | lengths 0 to 4, 3 messages in one place; 3 heap cells, 2 structs | `FailureIsReal`, `WritesStayInBuffer`, `SuccessIsWhole`, `MessageArrives`; `HeldIsLive`, `NothingLeaks` |

Why the bounds are enough: a rotation relates two mnemonics, a branch of
rotations or a rotation back three; two wallets show every confusion of
wallets; two contexts beside the personal wallet every confusion of vaults.
Splicing legacy envelopes takes up to three sources, one per independent part.
In v2 header, wrap and blob may come from two envelopes in all combinations.
Three backups give two devices that race for one version and a third party
between them; cid and commit of an update may come from two others. An HFI Pay
authorisation is confused with at most one other, under an account that a third
reply registered. "32 bytes" is one byte there, so that too short, too long and
differently spelled hex all occur, and the field 2^31-1 is 2^2-1, so that
epochs below, at and above it do.

On Solana two transactions in flight cover every order of judging them; amounts
are multiples of 256 so that byte order matters, and the bump of one token
account is not the highest. On EVM chains the real 55-byte boundary of RLP is
kept and data of 1, 40, 55, 56 and 256 bytes lie around it; two signatures are
one request and one it could be replayed for or mistaken for; chain ids of one
and two bytes make `v` one and two bytes, and 40000 lets it wrap; numbers with
odd digits, none, leading zeros and one too many are all asked for; `r` and `s`
may start with zeros. In Bitcoin two outpoints whose ids are each other's reverse
tell display order from wire order; two coins of one address are the smallest
transaction in which the hash must cover the other input; a script of 253 bytes
needs a long varint; a JSON value at 2^8 does not fit the word of one byte.

Two passes of the decrypt and a message replaced twice cover growing and
shrinking between any two passes. Three cells are a string, a result and the
cell that is given out again; two structs show one freed for another.

### Disagreements between documentation and code

Each of these runs checks what a comment or document says and ends in a
counterexample.

| Run | Said | Done |
|---|---|---|
| `wallet_x25519` | `x25519_sign` and `x25519_verify` are a pair (`ffi.rs:211`) | one uses the Solana stream, the other reads the X25519 value as an Ed25519 key |
| `vault_tron` | view and sign always agree (`acegf_core.rs:857`) | Tron's passphrase signer skips the identity root |
| `envelope_regenerate` | the sender can always rebuild a wrap (`acegf.rs:1403`) | not with a secondary passphrase |
| `bitcoin_wasm` | the address built for wasm32 has the Taproot tweak of BIP341 (`acegf_core.rs:436`) | the tweak is added to the public key as it is (`acegf_core.rs:461`), so that for a key with odd y neither the native build nor the signer agrees |

More that need no run, as they can be read off the code: `compute_xid` is
called a permanent wallet fingerprint (`acegf_core.rs:114`) and hashes the sealed
bytes, so each rotation changes it; rotation is said to keep all derived
identities (`paper/paper.txt:179`), but the addresses of a vault are derived from
the passphrase and the sealed bytes and change with both (which is why
`ViewsAgree` speaks of one vault, and a vault is a mnemonic with its credential);
the first pass of the two-pass decrypt is said to return false (`ffi.rs:430`),
but succeeds for 0 or 1 bytes; the HFI Pay registration is said to be signed
with an Ed25519 key (`wasm.rs:1243`), but is with ML-DSA-44; P2PKH signing is
said to be supported (`bitcoin_signer.rs:8`), but no signer does it;
and `evm_get_address_with_prf` is said to return a checksummed address
(`wasm.rs:895`), but returns lower case.

Limits that the properties state rather than hide:

- every C string that is not UTF-8 is read as the empty passphrase, or as no
  secondary, and so is a null pointer (`ffi.rs:33-54`): two passphrases typed in
  Latin-1 open one mnemonic. `OnlyItsCredential` says that these pass for each
  other (`PassesForEmpty`, `PassesForNone`) and nothing else does;
- `build_vault_context` joins segments with an unescaped colon, so that two lists
  whose segments are empty or have colons inside may have one context
  (`WellFormed` in `ContextNamesVault`);
- a signature is checked against the chain that goes with its scheme, not against
  the curve number that was asked for (`MessageChain` in `SameRootOrFail`);
- that one transaction is executed once is the nonce of the chain's doing, not
  the signer's (`ExecutesWhatWasAsked` is about what it does and where);
- a Solana transfer to oneself lists an account twice and is refused, and
  `sign_serialized_transaction` drops the signatures it finds, so a message with
  two required signers never gets both (`TransfersDoWhatWasMeant`);
- `parse_bitcoin_tx_json` cuts vout, sequence, version and lock time to 32 bits,
  so that a larger number signs for another transaction than its JSON says
  (`FitsWords` in `SpendsWhatWasAsked`);
- `sign_typed_data` signs any hash it is given, so that a message stays apart
  from it only while callers hand in hashes of EIP-712 bytes, which begin with 25
  and 1 (`AsksHash`, for `MessagesVerifyAsAsked`);
- `v` of a legacy transaction wraps around for chain ids of 2^63 or more
  (`ReturnedIsAccepted`);
- coins at P2PKH addresses are not spent by this library (`FundsCanBeSpent`);
- a quote's commitment and handle belong to one mnemonic and do not survive a
  rotation, its claim key does (`QuotesNameTheirWallet`);
- `acegf_call` writes over a result that was not freed: `NothingLeaks` is about
  callers that free a result after every call.

`SignersMatchViews` names the Tron exception (`TronException`) so that the rest
of the property is still checked.

## Proofs

`Vaults_proof` proves of `Wallet`, for all sets of roots, passphrases, secondaries,
bindings, messages and sessions and any number of mnemonics:

`TypeCorrect`, `SameRoot`, `SessionsTrue`, `Recovery`, `Separation`,
`OneMnemonic`, `OnlyCredential` - the properties of the two wallet runs - and
`Refinement`: `Spec => ImplementsIdentity`.

Assumptions: `CredentialAssumption` (credentials are sequences of strings, a
passphrase has at least one fragment, "no secondary" is possible, and so is the
empty passphrase where C strings are read),
`MaterialAssumption` and `MalformedAssumption` (what was never sealed is no
sealed mnemonic). TLC evaluates them in the wallet runs.

Argument. None of the properties is inductive by itself: to know that a view
shows what was announced, one must know that what was announced is the entity of
the material *inside* the mnemonic, and that only issued mnemonics open. The
invariant `IInv` adds to the types: `AnnouncedMaterial` (announced is the entity
of the sealed material), `KeptCredential` (a mnemonic is the seal of its
material under what its owner keeps), honest sessions, honest replies. Each
group of actions preserves it (`GeneratePreserves`, `RekeyStepPreserves`,
`ReadStepPreserves`, `SessionStepPreserves`); `OpensOnlyIssued` is the lemma the
rest hangs on. `OnlyCredential` also needs `CombineInjective`: without a NUL
inside, primary and secondary can be read off the combined bytes, as they reach
Argon2id. `ReadAlike` carries this back through the conversions to what callers
passed: two arguments that are read alike are one argument, or both of those that
pass for the empty passphrase or for no secondary. For
`Refinement`, each group of steps is an `Identity` step or a stutter under the
mapping owner = entity of the material, opened = cached view, shown = last reply.

The same module proves of `Vault`, for any contexts, wallets and credentials and any number
of mnemonics and published views, `ViewsStay`, `SignersAgree` and `VaultsApart`:
all the properties of `Vault` that hold (what it says of Tron with a passphrase is
refuted by its run). Assumptions: those of `Wallet` and `ContextAssumption`.
A published view and the call that is compared with it may be many rotations
apart, so the invariant `VaultInv` says of each what it depends on: a view or a
signature is a function of what was asked (`ViewOK`, `SignOK`, `PublishedOK`), and
without a context that is the material of an issued mnemonic, which rotations
keep (`AnnouncedMaterial`, and `OpensOnlyIssued`). Three lemmas on
the derivation finish the argument: `VaultShowsOneEntity` (calls for one vault
derive the same keys), `SigningKey` (which key a signer uses, and where Tron
differs) and `KeyNamesVault` (a key leads back to one vault).

It also proves both properties of `VaultContext`, for labels without a
colon and segments of any bytes, number and length: `StreamsApart` (from
`InfoNamesBoth`) and `ContextsName`. Assumptions: `ByteAssumption` and
`LabelAssumption`. The first colon of the info bytes ends the label, since
`hkdf_expand_with_context` leaves the colon out only where there is no context.
`ContextsName` says when two lists of segments give one context, which the code
decides by sorting and joining them. Sorting: `Before` is a strict total order
(`BeforeTotal` and its neighbours), so that the rank of an element is a sorting
bijection (`OrderExists`), sorting keeps how often each segment occurs
(`SortingKeeps`), and two sorted lists in which everything occurs equally often
are one list (`OneOrder`, by counting positions). Joining: the last colon of a
joined text ends its last link when links have none, and so on backwards
(`JoinInjective`).

`Services_proof` proves of `Discovery`, for any addresses, passwords and mnemonics and any
number of backups, `WholeEntries`, `NewestRecovered` and `AcceptedFound`. The last
two rest on the normaliser: `OneAddressPerMailbox`, spellings normalise
alike exactly when they reach the same mailbox. It follows from `NormalizedIs`, the
text that `NormalizeEmail` makes of a spelling is the user, an "@" and the domain
of its mailbox, and from such a text being split at its first "@" in one way.
Assumptions: `ReachesAssumption`, mail to a spelling reaches what `IsAddressOf`
says, which is what `vadar.rs` takes from RFC 5233 (a tag, letters of any
case, spaces around); and `LowerAssumption`, "@" and "+" are not letters. Letters
change one by one: the few of Unicode that become several are left out. A text
without an "@", which the code normalises too, is no address and reaches nothing.
`DiscoveryInv`
says that every backup is what some device made and that an entry is one such
backup, commitment, version and key together; signatures on anything else do
not verify. `RecoveryInv` adds that an entry is the backup accepted last under
its password and mailbox, and that what a device read before an update stays
true of the backup it then fetches.

The same module proves all three properties of `HfiPay`, for any wallets,
passphrases and refunds, any number of mnemonics and replies, hashes of any length and fields of
any size: `OnlyWhatWasAsked`, `GoodForEver`, `QuotesAreDistinct`. Assumption:
`HfiAssumption`, the types of the parameters and two facts on powers of two, for
which the prover has no rules. `HonouredAsAsked` is a part of the invariant but
not inductive alone: an account or a refund is justified by a reply, so
`AuthorisedOK` says that every reply is the signature of the wallet inside the
mnemonic on the message of what was asked. The rest is that messages can be read
in one way, though nothing in them is delimited and a mint is there or not:
`RegistrationInjective`, `RefundInjective`, `KindsDiffer`, from three lemmas on how
a concatenation splits. `FieldIsExact` is why the cut of an epoch to 32 bits and
its reduction in the field do no harm once `EpochFits` was checked.

`Envelope_proof` proves all four properties of `Envelope`, for any wallets and
credentials, every choice of formats and any number of envelopes:
`NothingSpliced`, `OnlyRecipientReads`, `WrapsComeBack`, `KeysAndIvsOnce`. Assumption:
`FormatAssumption`, and the symbolic primitives of the module, in which keys,
secrets and random bytes of different origin differ. The invariant `EnvelopeInv`
keeps with each envelope how it was made (`IsMade`) and with each stored wrap
which wallet derived it for which envelope (`AreWrapsOf`): `NoSplicing` is about
the last read alone and says neither. The rest is algebra: `SharedSecret` and
`KemSecret` (when both ends compute one secret), `SameSeed64` (a v2 seed leads
back to wallet, nonce and recipient), and from them `LegacyParts`, `HybridParts`
and `V2Parts`, which say for any three parts what a reader gets. `IvNeverReused`
follows from `SealedAs`: a wrap's IV comes from the seed that also gives what is
sealed, so that repeating it repeats the message; all other IVs are drawn anew,
and the two messages that share one in a legacy envelope have unlike keys.

`Ffi_proof` proves of `FfiDecrypt`, for plaintexts of every length and any number of
messages, `RealFailures`, `NoOverrun` and `WholeMessages`: the properties of the
two-pass decrypt but for `MessageArrives`. Assumption: `BoundsAssumption`. That a
failure is real is not inductive: one must know that a second pass runs with
just the bytes that the first one was told (`SecondPassFits`), that the size
variable is the size of the buffer whenever a pass starts (`SizeIsCapacity`), and
that a message never comes back under an old number (`NumbersGrow`), without
which "the message stayed in place" would say nothing. `DecryptOutcome` says
what one call may answer, `CallFacts` what the caller makes of it.

The same module proves of `FfiHeap`, for any heap and any number of structs, `HeldStaysLive`
(nothing is freed twice, nor freed for its next owner) and `NoLeaks`.
Assumption: `HeapAssumption` (null is no cell). What is needed beyond the two is
`ReleasedIsEmpty`: a struct that was freed since the last call points to nothing,
so that the next call overwrites nothing. `WrittenPreserves` and
`WrittenEmptyPreserves` are the two ways every code of `acegf_call` ends in.

`Bytes_proof` holds what the ledgers need of numbers and sequences. Its theorem
`NumberInjective` says that as many bytes are one number only if they are the same
bytes; fields of fixed size hold what was written into them, in either byte order
(`LittleEndianNumber`, `BigEndianNumber`), and a part of a concatenation is found where
the lengths before it say (`PlacesExist`, `FlattenInjective`). Inductions over
lengths go by the least counterexample (`Least`, `Induct`, `InductUpTo`, `Recursion`),
over sets rather than over formulas, because the library's induction theorems take an
operator and the provers cannot give them one.

`SolanaTransfer_proof` proves `TransfersDoWhatWasMeant` as `TransfersMeant`, for any
wallets, mints and amounts, any number of transactions signed and judged in any
order, and keys, signatures and amounts of any size: a transfer moves the amount from
the signer to the recipient, in the right currency, and does nothing just when it
goes to its own sender or when funds or an account are missing (or one is there too
many). Both
directions are proved: what is signed can be carried out, and nothing else is.

Assumptions: `SizeAssumption` (sizes, and instruction data short enough for one byte
of length, as they are with 8 bytes of amount) and `AddressAssumption`: keys of
wallets, mints, programs and token accounts are different keys, which is the absence
of collisions, and a token account is the hash that `get_associated_token_address`
looks for. TLC evaluates both in `ledgers`.

The invariant `LedgerInv` (`SignedAreKnown`) says that the ledger is one - natural
balances, every token account some wallet's - and that everything signed is `Known`:
the message its call stands for, with the derived accounts and this signer, or one
that the network can do nothing with. The action property follows since the network
changes the ledger only when it judges (`JudgeDoes`). What carries the proof:

- `MessageRead`: the network reads from a message of the signer what was laid out,
  through four layers of short vectors, and from a proper beginning of one nothing,
  so that a message cut short is harmless wherever it is cut (`InstructionRead`,
  `ManyAre`, `KeysRead` are the layers);
- `SystemRuns`, `SplRuns`, `CreateRuns`: what the programs do with the instructions as
  they were read, by index: who signs, what may be written, which account is which.
  `LamportsDone`, `TokensDone`, `CreationDone` and `InVainDone` compare it with `Meant`,
  which knows no messages;
- `WholeMessage`, `CutMessage`, `VersionedMessage` and `SystemSigner`: what
  `sign_serialized_transaction` finds behind the signatures of an application, and
  that it signs only for the first account;
- `DerivedIsKnown`: the first hash off the curve from the highest bump down is the
  token account.

Sequences of applications other than those of `Serialized`, which are transfers of
lamports, are not covered: the signer signs whatever names it first, and what such a
message does is up to the application.

`EvmTransaction_proof` proves all four properties of `EvmTransaction`, for any keys,
chains, requests and number of signatures, words of any size and data of any
length that fits into memory: `ExecutesAsAsked`, `ReturnedAsAccepted`,
`MessagesVerify` and `TokenCallsMean`. The invariant (`EvmInvariant`) is that everything
signed was made from its request, by this key and with this hash, and that a
signature belongs to one key and one hash. What remains is what bytes mean to
somebody who only has the bytes:

- `ListRead`: what `rlp_encode_list` wrote reads back as its strings and as nothing
  else, on either side of the 55 bytes, and hence `ListInjective`: two lists of
  strings with one encoding are one list;
- `LegacyReads`, `DynamicReads`: what a node reads in the two kinds of transaction
  is the fields the signer parsed, numbers without their leading zeros;
  `LegacyHash`, `DynamicHash`: the hash a node computes from what it read is the hash
  that was signed; `HashMeans` puts both together;
- `PersonalInjective`: a message can be read off its prefix, its length in decimal
  digits and itself, though the length is not delimited; what was signed begins
  with 25 for messages and with 2 or at least 192 for transactions;
- `CallIsRead`, `TokenCall`: a contract reads from a call the account and the amount
  that were written into it.

Assumptions: `EvmAssumption` (sizes and types) and `EvmRequestAssumption`: a hash that
is handed in is one of what its kind says, a request has at most one token call, a
transaction fits into memory, and r, s and v of a message are not by themselves a
transaction. The last is an idealisation like the absence of collisions: 65 bytes
that begin with a hash-like number are a list of nine items only by chance.
Signatures are unique: `SignPrehash` gives one signature for a key and a hash, as
RFC 6979 does, and nobody else's.

`BitcoinTransaction_proof` proves `SpendsWhatWasAsked` as `SpendsAsAsked`, for any
keys, coins, payments and JSON, any number of transactions in flight and fields of any size: what
is confirmed spends the coins and pays the outputs that the JSON named, with the
values of both, in its version, sequences and lock time. Assumptions:
`BtcAssumption` (sizes) and `BtcRequestAssumption`: a field of the JSON has one
value or none, a number of it has the bits of a value. Numbers that the parser
cuts to 32 bits stay excluded by `FitsWords`, as in the property itself. The
invariant `BtcInv` says that the values of coins fit their field, that everything
waiting is what the signer wrote for its JSON, with witnesses it made for it
(`SignedFor`), and that everything confirmed was asked for. Two theorems carry the
step in which the network confirms:

- `TransactionRead`: the network reads from the bytes of the signer the
  transaction that was parsed, or nothing, input by input and output by output. A
  size in any of its four forms reads back as itself;
- `OpensWithValue`: a witness opens a coin only if the value of that coin is the one
  that the JSON gave for it. The segwit hash commits to the value of its own
  input; the one of Taproot to all values in a row, which are told apart because
  each has the same length (`ValuesCommitted`). The library never sees the coins,
  and a JSON that is wrong about a value makes a fee that nobody asked for: here
  such a transaction is refused.

The other two invariants say that money is not lost: `PaymentsGoToTheShownKey`
is `PaymentsFindTheirKey`, and `FundsCanBeSpent` is `FundsAreSpendable`, both for
any keys, hashes, checksums, payments and values. They need that encoding,
signing and reading succeed, where the theorems above only need that they err on
the safe side. Both rest on the inductive invariant `CoinsPaid`: every coin is one
of a payment, with its value, and has the script that the standards give for the
key and kind of the address that was shown (`CoinsAreThoseOfPayments`). Neither
property is inductive without it, since they say nothing of the address a coin came
through. The argument:

- `RegroupUp`, `RegroupDown`, `DecodesOnly`: bits regrouped by eights into fives come
  back when they are regrouped with the padding checked, so that a segwit
  address decodes to its program or, mistyped or in the other variant of
  bech32, to nothing, and an address converted to the other network spells the
  same program;
- `Encodes58`, `MinimalFacts`, `LegacyScript`: leading zeros and digits to the base 58
  give back the bytes, so that a legacy address decodes to its version and
  hash, also after its leading ones were cut off;
- `SpendingParsed`: the request that names a coin with its value and script is
  parsed into just that;
- `SegwitHashAgrees`, `TaprootHashAgrees`: if the JSON has the values and scripts of
  the coins, the hash of the signer is the one of BIP143 or BIP341, for any number
  of inputs and outputs;
- `TransactionFound`: the network reads a signed transaction from its bytes, and does
  not reject it.

Assumptions, next to those above: `ShowsStandard`, a build for wasm32 has no key of
odd y, which is just what `bitcoin_wasm` shows to be wrong with that build, and
which holds of every native build; and `BtcCheckAssumption`: a checksum has its
size, and a legacy address with one character mistyped has the checksum of
nothing. The latter is an idealisation, as the code can be fooled with a chance
of 2^-32; TLC evaluates it for the instance.

Only model-checked: the liveness property `MessageArrives`, since temporal properties
under fairness are beyond the proof system used here. Every invariant and every
action property that a passing run checks is a theorem.

## Fairness

A library call returns or fails and nothing in the code waits, so that there is
no scheduling to be fair about, and callers may stop at any time: all
specifications but one are safety specifications. The exception is the two-pass
decrypt, whose documentation tells the caller to call again with the size it was
told. `DecryptSpec` takes that caller at its word with weak fairness of `Call`
alone, not of `Begin` or `Replace`. `MessageArrives` then says that this caller gets
the message it holds, unless another one takes its place: the size of each reply
must lead to a buffer that the next call accepts, even where the buffer at hand
was made for a message that is gone. A library that reported too small a size, or
refused a larger buffer than it needs, would break it. That only `MaxMessages`
messages arrive is a bound; the property asks for each of them.

## Not modelled

- the arithmetic of curves, KEMs, hashes and field elements; DER of signatures
  and the checksum polynomials (a checksum is an operator of the bytes);
- the xid, a hash of the mnemonic that HFI Pay takes as an argument and nothing
  else reads;
- zeroisation of memory; Argon2 parameters; wording of errors;
- `generate_ace_internal_with_type` and `derive_kmaster_from_base_key_and_rev32`,
  which nothing calls;
- version strings, base64 and length checks of envelopes: the models hand parts
  of the right format to each decrypt;
- whether sealed bytes are canonical REV32, which the context path never asks;
  `identity_root_hex` of HFI Pay does ask, and refuses most mnemonics that
  `generate` returns, as sealed bytes are canonical only by chance; it is a
  function of its arguments that nothing else in the library reads;
- what Tron nodes make of the protobuf body of a transaction, of which the
  library sees only the bytes or the hash;
- proving and verifying of ZK-ACE, calls of an external prover;
- the JSON text of results, as opposed to the values in it;
- vendored code, benches, build scripts, papers.

## Plan

Done: 1 `Sealing`, 2 `Identity`, 3 `Wallet` with proofs, 4 `Vault` and
`VaultContext` with proofs, 5 `Envelope` with proofs, 6 `FfiDecrypt` with proofs and liveness,
7 `Discovery` with proofs, 8 `SolanaTransfer` with proofs, 9 `EvmTransaction` and
`BitcoinTransaction` with proofs, composed with `SolanaTransfer`, 10 `FfiHeap` with proofs,
composed with `FfiDecrypt`, 11 `HfiPay` with proofs, composed with `Discovery`,
12 the last two theorems of `BitcoinTransaction`,
13 `OneAddressPerMailbox` of the normaliser, proved where it was a hypothesis.

Left to TLC for good: liveness.
