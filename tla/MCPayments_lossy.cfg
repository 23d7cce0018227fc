\* Answers of the gateway may be lost; a settled ledger entry is final.
CONSTANTS
  Requests = {r1, r2}
  Users = {u1}
  Amounts = {1}
  InitialFunds = {1}
  SettledIsFinal = TRUE
  LostReplies = TRUE
SPECIFICATION FairSpec
INVARIANTS
  NoUnbackedCredit
  AcknowledgedSettlesAsDecided
PROPERTIES
  EveryRequestAnswered
  AcceptedPaymentSettles
\* Every request is made once: the clients stop.
CHECK_DEADLOCK FALSE
