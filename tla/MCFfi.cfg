\* Plaintexts of up to four bytes, three messages in one place; a heap of
\* three cells, two structs for results.
CONSTANTS
  MaxLength = 4
  MaxMessages = 3
  Cell = {c1, c2, c3}
  Null = null
  Struct = {1, 2}
  TextLength = {0, 2}
SPECIFICATION FfiSpec
INVARIANTS
  FailureIsReal
  HeldIsLive
  NothingLeaks
PROPERTIES
  WritesStayInBuffer
  SuccessIsWhole
  MessageArrives
