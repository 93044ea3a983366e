\* Can the sender always regenerate?
CONSTANTS
  r1 = r1
  r2 = r2
  Root <- MCRoot
  Primary <- OnePrimary
  Secondary <- NoneOrSome
  Format = {"v2"}
  MaxPosted = 1
SPECIFICATION Spec
INVARIANTS
  SenderCanAlwaysRegenerate
