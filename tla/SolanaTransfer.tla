--------------------------- MODULE SolanaTransfer ---------------------------
(***************************************************************************)
(* The Solana signer (solana_signer.rs): it lays out transfer messages     *)
(* byte by byte, derives token accounts, and signs messages that others    *)
(* serialised.  Whether a layout is right shows only when the network      *)
(* reads it: which account an index means, who has to sign, what may be    *)
(* written.  The network is outside the repository; it is modelled by its  *)
(* wire format and the three instructions that the signer uses.            *)
(*                                                                         *)
(* Messages are sequences of bytes.  Keys, hashes, signatures and amounts  *)
(* have their lengths as constants, so that an instance may shorten them.  *)
(***************************************************************************)
EXTENDS Bytes

CONSTANTS
  KeySize,        (* Bytes of a key and of a blockhash: 32.               *)
  SigSize,        (* Bytes of a signature: 64.                            *)
  AmountSize,     (* Bytes of an amount, a u64: 8.                        *)
  Wallet,         (* Public keys of wallets.                              *)
  Mint,           (* Mint addresses.                                      *)
  SYSTEM_PROGRAM_ID, SPL_TOKEN_PROGRAM_ID, ATA_PROGRAM_ID,
  Bump,           (* Bump seeds, 0..255.                                  *)
  Pda,            (* The hash of wallet, token program, mint and bump.    *)
  OnCurve,        (* Hashes that are public keys.                         *)
  TokenAccount,   (* The token account of a wallet and a mint, as the     *)
                  (* network knows it.                                    *)
  Blockhash,      (* A recent blockhash.                                  *)
  Amount,         (* Amounts to transfer.                                 *)
  Funds,          (* What each wallet has at first, of each currency.     *)
  MaxSigned       (* Bound: transactions signed and not yet judged.       *)

IsKey(k) == k \in Seq(Octet) /\ Len(k) = KeySize

Programs == {SYSTEM_PROGRAM_ID, SPL_TOKEN_PROGRAM_ID, ATA_PROGRAM_ID}

(* The data of an instruction has 127 bytes at most, so that the length of *)
(* every short vector of a transfer is one byte.                           *)
ASSUME SizeAssumption ==
    /\ {KeySize, SigSize, AmountSize} \subseteq Nat \ {0}
    /\ AmountSize + 4 < 128
    /\ \A amount \in Amount : amount \in Nat /\ amount < Values(AmountSize)
    /\ Funds \in Nat /\ Bump \subseteq Nat

(* Keys of different kinds differ.  A token account is the first hash off  *)
(* the curve, from the highest bump down, and belongs to one wallet and    *)
(* one mint.                                                               *)
ASSUME AddressAssumption ==
    /\ \A k \in Wallet \cup Mint \cup Programs \cup {Blockhash} : IsKey(k)
    /\ Wallet \cap Mint = {} /\ (Wallet \cup Mint) \cap Programs = {}
    /\ SYSTEM_PROGRAM_ID # SPL_TOKEN_PROGRAM_ID /\ SYSTEM_PROGRAM_ID # ATA_PROGRAM_ID
    /\ SPL_TOKEN_PROGRAM_ID # ATA_PROGRAM_ID
    /\ DOMAIN TokenAccount = Wallet \X Mint
    /\ IsInjective(TokenAccount)
    /\ \A w \in Wallet, mint \in Mint :
         /\ IsKey(TokenAccount[w, mint])
         /\ TokenAccount[w, mint] \notin Wallet \cup Mint \cup Programs
         /\ \A b \in Bump :
              Pda[w, mint, b] \notin OnCurve /\ (\A c \in Bump : c > b => Pda[w, mint, c] \in OnCurve)
                => TokenAccount[w, mint] = Pda[w, mint, b]

VARIABLES
  lamports,       (* From wallets to lamports.                            *)
  tokens,         (* From existing token accounts to tokens.              *)
  signed          (* Transactions signed and not yet judged by the        *)
                  (* network, with what was asked for.                    *)

vars == <<lamports, tokens, signed>>

-----------------------------------------------------------------------------
(* short_vec *)

EncodeShortLen(n) ==
    LET size == 1 + Cardinality({i \in 1..3 : n >= Power(128, i)})
    IN [i \in 1..size |-> ((n \div Power(128, i - 1)) % 128) + (IF i < size THEN 128 ELSE 0)]

(* The value and the bytes read; nothing without a last byte among the     *)
(* first four.                                                             *)
DecodeShortVec(data) ==
    {<<NumberIn(128, [j \in 1..size |-> data[size + 1 - j] % 128]), size>> :
       size \in {i \in 1..4 : /\ i <= Len(data) /\ data[i] < 128
                              /\ \A j \in 1..(i - 1) : data[j] >= 128}}

-----------------------------------------------------------------------------
(* Messages *)

Instruction(program, accounts, data) ==
    <<program>> \o EncodeShortLen(Len(accounts)) \o accounts
                \o EncodeShortLen(Len(data)) \o data

(* What the three builders have in common.  A header says how many keys    *)
(* sign, and how many of the signing and of the other keys are read-only.  *)
Message(header, keys, instructions) ==
    header \o EncodeShortLen(Len(keys)) \o FlattenSeq(keys) \o Blockhash
           \o EncodeShortLen(Len(instructions)) \o FlattenSeq(instructions)

SystemTransferMessage(from, to, amount) ==
    Message(<<1, 0, 1>>, <<from, to, SYSTEM_PROGRAM_ID>>,
            <<Instruction(2, <<0, 1>>, LittleEndian(2, 4) \o LittleEndian(amount, AmountSize))>>)

SplTransferData(amount) == <<3>> \o LittleEndian(amount, AmountSize)

SplTransferMessage(source, dest, owner, amount) ==
    Message(<<1, 0, 1>>, <<owner, source, dest, SPL_TOKEN_PROGRAM_ID>>,
            <<Instruction(3, <<1, 2, 0>>, SplTransferData(amount))>>)

(* Mutant of CreateAtaMessage: the new account is given to the payer.      *)
CreateAtaForPayer(source, dest, owner, to, mint, amount) ==
    Message(<<1, 0, 5>>,
            <<owner, source, dest, to, mint,
              SYSTEM_PROGRAM_ID, SPL_TOKEN_PROGRAM_ID, ATA_PROGRAM_ID>>,
            <<Instruction(7, <<0, 2, 0, 4, 5, 6>>, << >>),
              Instruction(6, <<1, 2, 0>>, SplTransferData(amount))>>)

CreateAtaMessage(source, dest, owner, to, mint, amount) ==
    Message(<<1, 0, 5>>,
            <<owner, source, dest, to, mint,
              SYSTEM_PROGRAM_ID, SPL_TOKEN_PROGRAM_ID, ATA_PROGRAM_ID>>,
            <<Instruction(7, <<0, 2, 3, 4, 5, 6>>, << >>),
              Instruction(6, <<1, 2, 0>>, SplTransferData(amount))>>)

(* The first hash off the curve, from the highest bump down.               *)
AssociatedTokenAddress(wallet, mint) ==
    LET found == {b \in Bump : Pda[wallet, mint, b] \notin OnCurve}
    IN {Pda[wallet, mint, b] : b \in {b \in found : \A c \in found : c <= b}}

-----------------------------------------------------------------------------
(* Signing *)

(* A transaction is its list of signatures and its message.                *)
Transaction(pk, message) == [sigs |-> <<[pk |-> pk, msg |-> message]>>, msg |-> message]

(* The message of a serialised transaction, if the first account is the    *)
(* signer's.  Signatures that are there are dropped.                       *)
SerializedMessage(pk, bytes) ==
    LET Start(count) == count[2] + count[1] * SigSize
        MessageAfter(count) == SubSeq(bytes, Start(count) + 1, Len(bytes))
        SignerFirst(message) ==
          /\ Len(message) >= 4
          /\ \E n \in DecodeShortVec(SubSeq(message, 4, Len(message))) :
               /\ n[1] # 0
               /\ 3 + n[2] + KeySize <= Len(message)
               /\ SubSeq(message, 3 + n[2] + 1, 3 + n[2] + KeySize) = pk
    IN {message \in {MessageAfter(c) : c \in {c \in DecodeShortVec(bytes) :
                                               Start(c) <= Len(bytes)}} :
          SignerFirst(message)}

-----------------------------------------------------------------------------
(* The wire format as the network reads it *)

(* How many items there are, where they begin and what is behind them.     *)
Vector(m, at, width) ==
    {[count |-> c[1], first |-> at + c[2], next |-> at + c[2] + c[1] * width] :
       c \in {c \in DecodeShortVec(SubSeq(m, at, Len(m))) :
                at + c[2] + c[1] * width <= Len(m) + 1}}

Keys(m, v) ==
    [i \in 1..v.count |-> SubSeq(m, v.first + (i - 1) * KeySize, v.first + i * KeySize - 1)]

(* Indices count from one here, and from zero on the wire.                 *)
InstructionAt(m, at) ==
    IF at > Len(m) THEN {}
    ELSE UNION {{<<[program  |-> m[at] + 1,
                    accounts |-> [i \in 1..a.count |-> m[a.first + i - 1] + 1],
                    data     |-> SubSeq(m, d.first, d.next - 1)], d.next>> :
                   d \in Vector(m, a.next, 1)} : a \in Vector(m, at + 1, 1)}

Parse(m) ==
    IF Len(m) < 4 \/ m[1] >= 128 THEN {}
    ELSE UNION {
      LET after == keys.next + KeySize
      IN UNION {{[required |-> m[1], readonly_signed |-> m[2], readonly |-> m[3],
                  keys |-> Keys(m, keys), instructions |-> run[1]] :
                    run \in {run \in Many(InstructionAt, m, after + n[2], n[1]) :
                               run[2] = Len(m) + 1}} :
                  n \in DecodeShortVec(SubSeq(m, after, Len(m)))} :
      keys \in Vector(m, 4, KeySize)}

-----------------------------------------------------------------------------
(* What the network does with a message *)

Signs(t, i) == i <= t.required

MayWrite(t, i) ==
    IF Signs(t, i) THEN i <= t.required - t.readonly_signed
    ELSE i <= Len(t.keys) - t.readonly

Moved(balances, from, to, amount) ==
    [balances EXCEPT ![from] = @ - amount, ![to] = @ + amount]

Opened(balances, account) ==
    [a \in DOMAIN balances \cup {account} |-> IF a = account THEN 0 ELSE balances[a]]

KeyAt(t, ins, j) == t.keys[ins.accounts[j]]

(* The amount behind a tag, if the data are just that.                     *)
AmountBehind(tag, data) ==
    IF Len(data) = Len(tag) + AmountSize /\ SubSeq(data, 1, Len(tag)) = tag
    THEN {Number(Reverse(SubSeq(data, Len(tag) + 1, Len(data))))} ELSE {}

(* Each instruction on a ledger gives the ledger after it, or none.        *)
TransferLamports(t, ins, l) ==
    LET from == KeyAt(t, ins, 1)
        to   == KeyAt(t, ins, 2)
    IN {[l EXCEPT !.lamports = Moved(@, from, to, a)] :
          a \in {a \in AmountBehind(LittleEndian(2, 4), ins.data) :
                   /\ Signs(t, ins.accounts[1])
                   /\ MayWrite(t, ins.accounts[1]) /\ MayWrite(t, ins.accounts[2])
                   /\ {from, to} \subseteq Wallet
                   /\ l.lamports[from] >= a}}

TransferTokens(t, ins, l) ==
    LET source == KeyAt(t, ins, 1)
        dest   == KeyAt(t, ins, 2)
        owner  == KeyAt(t, ins, 3)
    IN {[l EXCEPT !.tokens = Moved(@, source, dest, a)] :
          a \in {a \in AmountBehind(<<3>>, ins.data) :
                   /\ Signs(t, ins.accounts[3])
                   /\ MayWrite(t, ins.accounts[1]) /\ MayWrite(t, ins.accounts[2])
                   /\ {source, dest} \subseteq DOMAIN l.tokens
                   /\ \E mint \in Mint, w \in Wallet :
                        /\ <<owner, mint>> \in DOMAIN TokenAccount
                        /\ source = TokenAccount[owner, mint]
                        /\ dest = TokenAccount[w, mint]
                   /\ l.tokens[source] >= a}}

CreateTokenAccount(t, ins, l) ==
    LET new == KeyAt(t, ins, 2)
        for == <<KeyAt(t, ins, 3), KeyAt(t, ins, 4)>>
    IN IF /\ ins.data = << >>
          /\ Signs(t, ins.accounts[1])
          /\ MayWrite(t, ins.accounts[1]) /\ MayWrite(t, ins.accounts[2])
          /\ for \in DOMAIN TokenAccount /\ new = TokenAccount[for] /\ new \notin DOMAIN l.tokens
          /\ KeyAt(t, ins, 5) = SYSTEM_PROGRAM_ID /\ KeyAt(t, ins, 6) = SPL_TOKEN_PROGRAM_ID
       THEN {[l EXCEPT !.tokens = Opened(@, new)]} ELSE {}

Run(t, ins, l) ==
    LET program == t.keys[ins.program]
        accounts == Len(ins.accounts)
    IN IF ~({ins.program} \cup Range(ins.accounts) \subseteq DOMAIN t.keys) THEN {}
       ELSE CASE program = SYSTEM_PROGRAM_ID /\ accounts = 2 -> TransferLamports(t, ins, l)
              [] program = SPL_TOKEN_PROGRAM_ID /\ accounts = 3 -> TransferTokens(t, ins, l)
              [] program = ATA_PROGRAM_ID /\ accounts = 6 -> CreateTokenAccount(t, ins, l)
              [] OTHER -> {}

(* Signed by all who have to, no account listed twice.                     *)
Accepted(t, tx) ==
    /\ tx.sigs = [i \in 1..t.required |-> [pk |-> t.keys[i], msg |-> tx.msg]]
    /\ IsInjective(t.keys)

Ledger == [lamports |-> lamports, tokens |-> tokens]

(* The ledgers after all instructions: one or none.                        *)
RunAll(t) ==
    LET after[i \in 0..Len(t.instructions)] ==
          IF i = 0 THEN {Ledger}
          ELSE UNION {Run(t, t.instructions[i], l) : l \in after[i - 1]}
    IN after[Len(t.instructions)]

Outcomes(tx) == UNION {RunAll(t) : t \in {t \in Parse(tx.msg) : Accepted(t, tx)}}

-----------------------------------------------------------------------------
(* Calls *)

Sign(kind, from, to, mint, amount, txs) ==
    /\ Cardinality(signed) < MaxSigned
    /\ signed' = signed \cup
         {[kind |-> kind, from |-> from, to |-> to, mint |-> mint,
           amount |-> amount, tx |-> tx] : tx \in txs}
    /\ UNCHANGED <<lamports, tokens>>

(* sign_system_transfer_tx, and the PRF path with the key at hand.         *)
SignSystemTransfer(from, to, amount) ==
    Sign("system", from, to, << >>, amount,
         {Transaction(from, SystemTransferMessage(from, to, amount))})

(* Both token calls fail when one of the two accounts cannot be derived.   *)
SignSplTransfer(from, to, mint, amount) ==
    Sign("spl", from, to, mint, amount,
         {Transaction(from, SplTransferMessage(s, d, from, amount)) :
            s \in AssociatedTokenAddress(from, mint), d \in AssociatedTokenAddress(to, mint)})

SignSplTransferWithCreateAta(from, to, mint, amount) ==
    Sign("spl_create", from, to, mint, amount,
         {Transaction(from, CreateAtaMessage(s, d, from, to, mint, amount)) :
            s \in AssociatedTokenAddress(from, mint), d \in AssociatedTokenAddress(to, mint)})

(* What an application hands over: a transfer of lamports, serialised      *)
(* behind empty signatures; legacy or with a version in front, with one    *)
(* signer or a second one who pays, whole or cut short.                    *)
Serialized(from, to, amount, form) ==
    LET message == IF form = "cosigned"
                   THEN Message(<<2, 0, 1>>, <<from, to, SYSTEM_PROGRAM_ID>>,
                          <<Instruction(2, <<1, 0>>, LittleEndian(2, 4)
                                                       \o LittleEndian(amount, AmountSize))>>)
                   ELSE SystemTransferMessage(from, to, amount)
        sigs == IF form = "cosigned" THEN 2 ELSE 1
        empty == [i \in 1..(sigs * SigSize) |-> 0]
        whole == EncodeShortLen(sigs) \o empty
                   \o (IF form = "versioned" THEN <<128>> ELSE << >>) \o message
    IN {IF form = "cut" THEN SubSeq(whole, 1, n) ELSE whole :
          n \in 1..(Len(whole) - 1)}

Form == {"legacy", "versioned", "cosigned", "cut"}

(* sign_serialized_transaction, by any wallet.                             *)
SignSerialized(pk, bytes, from, to, amount, form) ==
    Sign(form, from, to, << >>, amount,
         {Transaction(pk, m) : m \in SerializedMessage(pk, bytes)})

(* The network judges a transaction: once, at any time.                    *)
Judge(a) ==
    /\ signed' = signed \ {a}
    /\ \/ /\ Outcomes(a.tx) = {}
          /\ UNCHANGED <<lamports, tokens>>
       \/ \E l \in Outcomes(a.tx) : lamports' = l.lamports /\ tokens' = l.tokens

-----------------------------------------------------------------------------
(* Every wallet but one starts with a token account of each mint.          *)
Init ==
    /\ lamports = [w \in Wallet |-> Funds]
    /\ \E without \in Wallet :
         tokens = [account \in {TokenAccount[owner] : owner \in (Wallet \ {without}) \X Mint}
                     |-> Funds]
    /\ signed = {}

SignStep ==
    \E from, to \in Wallet, amount \in Amount :
      \/ SignSystemTransfer(from, to, amount)
      \/ \E mint \in Mint :
           \/ SignSplTransfer(from, to, mint, amount)
           \/ SignSplTransferWithCreateAta(from, to, mint, amount)
      \/ \E pk \in Wallet, form \in Form : \E bytes \in Serialized(from, to, amount, form) :
           SignSerialized(pk, bytes, from, to, amount, form)

Next == SignStep \/ \E a \in signed : Judge(a)

Spec == Init /\ [][Next]_vars

-----------------------------------------------------------------------------
(* Correctness *)

(* What the owner meant by a call, told without messages.                  *)
Meant(a) ==
    LET source == TokenAccount[a.from, a.mint]
        dest   == TokenAccount[a.to, a.mint]
        exists == IF a.kind = "spl_create" THEN Opened(tokens, dest) ELSE tokens
    IN IF a.from = a.to THEN Ledger
       ELSE CASE a.kind \in {"system", "legacy"} ->
                   IF lamports[a.from] < a.amount THEN Ledger
                   ELSE [Ledger EXCEPT !.lamports = Moved(@, a.from, a.to, a.amount)]
              [] a.kind \in {"spl", "spl_create"} ->
                   IF \/ source \notin DOMAIN tokens \/ dest \notin DOMAIN exists
                      \/ a.kind = "spl_create" /\ dest \in DOMAIN tokens
                      \/ tokens[source] < a.amount
                   THEN Ledger
                   ELSE [Ledger EXCEPT !.tokens = Moved(exists, source, dest, a.amount)]
              [] OTHER -> Ledger

(* A signed transfer does what was asked for or nothing: it moves the      *)
(* amount from the signer to the recipient, of the right currency, and     *)
(* fails only for want of funds or of an account (or for having one too    *)
(* many).  A transfer to oneself lists an account twice and does nothing,  *)
(* a message somebody else must sign too never gets that signature, and    *)
(* what is not a whole legacy message moves nothing.                       *)
TransfersDoWhatWasMeant ==
    [][\A a \in signed : a \notin signed' => Ledger' = Meant(a)]_vars
=============================================================================
