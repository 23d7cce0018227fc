\* Two sends per code, so that two of four starts meet the limit; one number besides
\* the test number.
CONSTANTS
  Requests = {r1, r2, r3, r4}
  Phones = {phone, test}
  TestPhone = test
  TestCode = TestCode
  MaxSends = 2
  None = None
SPECIFICATION Spec
SYMMETRY Symmetry
INVARIANTS
  TypeOK
  AnsweredCodeWorks
  RetryFailsOnlyDisturbed
  TokenIsEarned
\* Every request is made once: the clients stop.
CHECK_DEADLOCK FALSE
