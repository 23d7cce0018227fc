\* A limit of one, so that two additions reach it; a transfer with two changes of
\* the flags, or with a token for each of two users, perhaps of one device.
CONSTANTS
  Requests = {r1, r2, r3}
  Users = {u1, u2}
  Values = {v1, v2}
  MaxPhones = 1
  None = None
SPECIFICATION Spec
SYMMETRY Symmetry
INVARIANTS
  TypeOK
  DuplicateNeedsRace
  ExcessNeedsRace
  NotifiedAsShown
  DeviceHearsOneUser
PROPERTY OnlyOwnerRemoves
\* Every request is made once: the clients stop.
CHECK_DEADLOCK FALSE
