\* A message of fatalError, taken as what the app asserts.
SPECIFICATION Spec
INVARIANTS
    DisplayIsANumber
CHECK_DEADLOCK FALSE
