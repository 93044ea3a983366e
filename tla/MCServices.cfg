\* VA-DAR: two mailboxes, one spelt in two ways, two passwords, three backups.
\* HFI Pay: two wallets, three mnemonics, three replies; bytes for 32 bytes and
\* the field of three elements for 2^31-1.  The bounds end a behaviour.
CONSTANTS
  Password = {"p", "q"}
  Spelling <- MCSpelling
  Reaches <- MCReaches
  LowerOf <- MCLowerOf
  Mnemonic = {"m1", "m2"}
  MaxBackups = 3
  HfiMaterial = {"w1", "w2"}
  HfiPassphrase <- MCHfiPassphrase
  HfiSecondary <- MCHfiSecondary
  Xids <- MCXids
  Identifier <- MCIdentifier
  RefundRequest <- MCRefundRequest
  Epoch = {0, 1, 2, 3, 4, 8}
  HashLength = 1
  FieldBits = 2
  MaxHfiMnemonics = 3
  MaxReplies = 3
SPECIFICATION ServicesSpec
CHECK_DEADLOCK FALSE
INVARIANTS
  RecoversNewestBackup
  AcceptedBackupsAreFound
  EntriesStayWhole
  HonouredAsAsked
  AuthorisationsAreGood
  QuotesNameTheirWallet
