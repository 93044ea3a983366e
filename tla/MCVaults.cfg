\* Two mnemonics (of one wallet or of two), three contexts, one published view;
\* two vaults named by up to two segments of up to two bytes.
CONSTANTS
  r1 = r1
  r2 = r2
  foreign = foreign
  malformed = malformed
  hello = hello
  Root <- MCRoot
  Primary <- TwoPrimaries
  Secondary <- NoSecondary
  NotUtf8 = {}
  Foreign = {foreign}
  Malformed = {malformed}
  Message = {hello}
  SessionId = {}
  Api = {"direct"}
  MaxIssued = 2
  Context <- TwoContexts
  MaxPublished = 1
  Byte <- MCByte
  Colon <- MCColon
  Label <- MCLabel
  Caller = {1, 2}
  MaxLength = 2
  MaxSegments = 2
SPECIFICATION VaultsSpec
INVARIANTS
  ViewsAgree
  SignersMatchViews
  VaultsStayApart
  ContextNamesVault
  StreamsNeverCollide
