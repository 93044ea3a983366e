\* Two wallets, three mnemonics, one session.
CONSTANTS
  r1 = r1
  r2 = r2
  foreign = foreign
  malformed = malformed
  hello = hello
  s1 = s1
  Root <- MCRoot
  Primary <- TwoPrimaries
  Secondary <- NoneOrSome
  NotUtf8 = {}
  Foreign = {foreign}
  Malformed = {malformed}
  Message = {hello}
  SessionId = {s1}
  Api = {"direct"}
  MaxIssued = 3
SPECIFICATION Spec
INVARIANTS
  SameRootOrFail
  OneMnemonicPerCredential
  WalletsStayApart
  SessionsShowTheWallet
PROPERTIES
  ImplementsIdentity
