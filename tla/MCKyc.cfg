CONSTANTS
  Requests = {r1, r2, r3, r4}
  u1 = u1
  u2 = u2
  k1 = k1
  k2 = k2
  k3 = k3
  Users <- MCUsers
  Keys <- MCKeys
  KeyOwner <- MCKeyOwner
  None = None
SPECIFICATION Spec
SYMMETRY Symmetry
INVARIANTS
  TypeOK
  LedgerAndDocumentAgree
  ApprovedUnderItsKey
\* Every request is made once: the callers stop.
CHECK_DEADLOCK FALSE
