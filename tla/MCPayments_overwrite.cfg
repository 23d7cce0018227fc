\* The ledger takes any status update; the gateway's errors are true.
CONSTANTS
  Requests = {r1, r2}
  Users = {u1, u2}
  Amounts = {1, 2}
  InitialFunds = {1}
  SettledIsFinal = FALSE
  LostReplies = FALSE
SPECIFICATION Spec
SYMMETRY Symmetry
INVARIANTS
  TypeOK
  NoOverdraft
  BadRequestReleases
PROPERTY ImplementsSettlement
\* Every request is made once: the clients stop.
CHECK_DEADLOCK FALSE
