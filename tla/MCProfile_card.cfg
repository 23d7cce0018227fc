CONSTANTS
  Requests = {r1, r2}
  Users = {u1}
  Values = {v1}
  MaxPhones = 3
  None = None
SPECIFICATION Spec
INVARIANT RemovedCardIsGone
\* Every request is made once: the clients stop.
CHECK_DEADLOCK FALSE
