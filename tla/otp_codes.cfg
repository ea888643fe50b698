SPECIFICATION Spec
CONSTANTS
  Calls = {c1, c2}
  MaxAttempts = 2
  Ttl = 1
  MaxCodes = 2
INVARIANTS
  NoSpentCode
  WrongTriesBounded
PROPERTIES
  BurnedStaysBurned
  ImplementsCode
