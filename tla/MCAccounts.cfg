CONSTANTS
  Requests = {r1, r2, r3}
  Names <- MCNames
  Phones <- MCPhones
  Facebooks <- MCFacebooks
  Lower <- MCLower
  FacebookName <- MCFacebookName
  Digits <- MCDigits
  Books <- MCBooks
  None = None
SPECIFICATION Spec
SYMMETRY Symmetry
INVARIANTS
  TypeOK
  NamesDistinct
  OneAccountPerFacebook
  AccountsHaveLedgerUsers
  SignUpAnswerIsTrue
  SharedPhoneNeedsRace
  ContactsSplit
PROPERTY ImplementsInsertion
\* Every request is made once: the clients stop.
CHECK_DEADLOCK FALSE
