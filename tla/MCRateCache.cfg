\* Three requests about one coin, or two and one.  A document is fresh for a tick;
\* three ticks hold two periods, and a late write in the second.
CONSTANTS
  Requests = {r1, r2, r3}
  Coins = {bitcoin, celo}
  TTL = 1
  MaxTime = 3
  None = None
SPECIFICATION Spec
SYMMETRY Symmetry
INVARIANTS
  TypeOK
  ServedIsRecent
  OneQuotePerPeriod
PROPERTIES
  OnlyOldIsReplaced
\* Every request is made once: the clients stop.
CHECK_DEADLOCK FALSE
