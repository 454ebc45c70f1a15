CONSTANTS
  Workers = {w1, w2}
  MaxItems = 3
  MaxThrows = 1
SPECIFICATION FairSpec
INVARIANTS TypeOK Accounting OneOwner LingerHolds
PROPERTIES Termination ItemsAreServed
