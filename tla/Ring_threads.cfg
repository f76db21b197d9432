SPECIFICATION FairSpec
CONSTANTS
  Readers = {r1, r2}
  Writers = {w1, w2}
  Size = 2
  MaxWrites = 5
INVARIANTS
  NoLostWakeup
PROPERTIES
  IsBoundedQueue WaitersServed
CHECK_DEADLOCK FALSE
