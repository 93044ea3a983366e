\* Random envelopes: three at a time, of all three formats.
CONSTANTS
  r1 = r1
  r2 = r2
  Root <- MCRoot
  Primary <- OnePrimary
  Secondary <- NoneOrSome
  Format = {"legacy", "v1", "xkem"}
  MaxPosted = 3
SPECIFICATION Spec
INVARIANTS
  RecipientAndOnlyRecipientReads
  NoSplicing
  IvNeverReused
