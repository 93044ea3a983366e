\* One wallet, every shape of credential the bindings let through.
CONSTANTS
  r1 = r1
  r2 = r2
  foreign = foreign
  malformed = malformed
  hello = hello
  s1 = s1
  Root = {r1}
  Primary <- AnyPrimaries
  Secondary <- AnySecondaries
  NotUtf8 <- Latin1
  Foreign = {foreign}
  Malformed = {malformed}
  Message = {hello}
  SessionId = {}
  Api = {"direct", "ffi"}
  MaxIssued = 2
SPECIFICATION Spec
INVARIANTS
  TypeOK
  NoLockout
  OnlyItsCredential
