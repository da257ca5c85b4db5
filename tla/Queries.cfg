SPECIFICATION Spec
CONSTANTS
  NumCalls = 2
  Slots = 2
  Attempts = 4
  RefreshAge = 1
  MaxWait = 1
  MaxAge = 4
INVARIANTS TokenAgeIsBounded RefusedTokensAreReplaced
PROPERTIES CallsEnd
CHECK_DEADLOCK FALSE
