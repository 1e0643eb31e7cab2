\* Two files encrypted, changed, encrypted again in part or whole, decrypted.
SPECIFICATION FairCopySpec
CONSTANTS
  Count = 2
  Sizes <- MCSizes
  Passwords = {"one", "two"}
  Thres = 4
  Block = 2
  MaxEdits = 1
  MaxCopies = 4
INVARIANTS
  RestoredAsCopied
PROPERTIES
  EveryCommandEnds
\* The program is closed and not started again.
CHECK_DEADLOCK FALSE
