\* Deterministic wraps: two envelopes, lost and regenerated wraps.
CONSTANTS
  r1 = r1
  r2 = r2
  Root <- MCRoot
  Primary <- OnePrimary
  Secondary <- NoneOrSome
  Format = {"v2"}
  MaxPosted = 2
SPECIFICATION Spec
INVARIANTS
  RecipientAndOnlyRecipientReads
  NoSplicing
  IvNeverReused
  WrapsAreReproducible
