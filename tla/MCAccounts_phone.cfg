CONSTANTS
  Requests = {r1, r2}
  Names <- MCNames
  Phones <- MCPhones
  Facebooks <- MCFacebooks
  Lower <- MCLower
  FacebookName <- MCFacebookName
  Digits <- MCDigits
  Books <- MCBooks
  None = None
SPECIFICATION Spec
INVARIANT UniquePhone
\* Every request is made once: the clients stop.
CHECK_DEADLOCK FALSE
