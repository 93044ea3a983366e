\* Does the Tron signer sign for the address the vault view shows?
CONSTANTS
  r1 = r1
  r2 = r2
  foreign = foreign
  malformed = malformed
  hello = hello
  Root <- MCRoot
  Primary <- TwoPrimaries
  Secondary <- NoSecondary
  NotUtf8 = {}
  Foreign = {foreign}
  Malformed = {malformed}
  Message = {hello}
  SessionId = {}
  Api = {"direct"}
  MaxIssued = 2
  Context <- TwoContexts
  MaxPublished = 1
SPECIFICATION VaultSpec
INVARIANTS
  TronSignsForItsVault
