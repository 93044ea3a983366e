\* Solana: two wallets, one mint, up to two transactions in flight.  EVM: up
\* to two signatures by three keys, three chains.  Bitcoin: two wallets, two
\* coins, a transaction in flight; the native build.
CONSTANTS
  KeySize = 2
  SigSize = 2
  AmountSize = 2
  Wallet <- MCWallets
  Mint <- MCMints
  SYSTEM_PROGRAM_ID <- MCSystem
  SPL_TOKEN_PROGRAM_ID <- MCToken
  ATA_PROGRAM_ID <- MCAta
  Bump = {0, 1, 2}
  Pda <- MCPda
  OnCurve <- MCOnCurve
  TokenAccount <- MCTokenAccount
  Blockhash <- MCBlockhash
  Amount = {256}
  Funds = 512
  MaxSigned = 2
  U64Size = 2
  U256Size = 3
  AddressSize = 2
  TronCheck <- MCTronCheck
  EvmKey = {1, 2, 3}
  Chain = {1, 300, 40000}
  EvmRequest <- MCEvmRequest
  EvmMessage <- MCEvmMessage
  Signature <- MCSignature
  MaxEvmSigned = 2
  TxidSize = 2
  WordSize = 1
  ValueSize = 2
  KeyHashSize = 1
  XOnlySize = 3
  CheckSize = 1
  Check <- MCCheck
  BtcKey = {1, 2}
  OddKey = {2}
  WasmBuild = FALSE
  Payment <- MCPayment
  BtcJson <- MCBtcJson
  MaxWaiting = 1
SPECIFICATION LedgersSpec
INVARIANTS
  ExecutesWhatWasAsked
  ReturnedIsAccepted
  MessagesVerifyAsAsked
  TokenCallsMeanWhatWasAsked
  SpendsWhatWasAsked
  FundsCanBeSpent
  PaymentsGoToTheShownKey
PROPERTIES
  TransfersDoWhatWasMeant
\* Owners may stop to sign.
CHECK_DEADLOCK FALSE
