\* Does x25519_verify accept what x25519_sign made?
CONSTANTS
  r1 = r1
  r2 = r2
  foreign = foreign
  malformed = malformed
  hello = hello
  s1 = s1
  Root = {r1}
  Primary <- TwoPrimaries
  Secondary <- NoneOrSome
  NotUtf8 = {}
  Foreign = {foreign}
  Malformed = {malformed}
  Message = {hello}
  SessionId = {}
  Api = {"direct"}
  MaxIssued = 2
SPECIFICATION Spec
INVARIANTS
  X25519SignatureVerifies
