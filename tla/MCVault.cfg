CONSTANTS
  Requests = {r1, r2, r3}
  Users = {u1, u2}
  Coins <- MCCoins
  Supported <- MCSupported
  None = None
SPECIFICATION Spec
SYMMETRY Symmetry
INVARIANTS
  TypeOK
  SecondVaultNeedsRace
  AnsweredAssetIsCounted
  BalanceTellsOfPayments
\* Every request is made once: the clients stop.
CHECK_DEADLOCK FALSE
