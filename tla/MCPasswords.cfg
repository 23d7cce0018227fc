CONSTANTS
  Requests = {r1, r2}
  Users = {u1, u2}
  Secrets = {s1, s2}
  Phones = {p1, p2}
  None = None
SPECIFICATION Spec
SYMMETRY Symmetry
INVARIANTS
  TypeOK
  AnswerFitsPassword
PROPERTY ReplacedOnRequest
\* Every request is made once: the clients stop.
CHECK_DEADLOCK FALSE
