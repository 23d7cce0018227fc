\* A limit of two in place of three, and one addition more than the limit.
CONSTANTS
  Requests = {r1, r2, r3}
  Users = {u1}
  Values = {v1, v2, v3}
  MaxPhones = 2
  None = None
SPECIFICATION Spec
SYMMETRY Symmetry
INVARIANT AtMostMaxPhones
\* Every request is made once: the clients stop.
CHECK_DEADLOCK FALSE
