SPECIFICATION Spec
CONSTANTS
  Lengths = {3, 4}
  MaxCiphertexts = 3
INVARIANT SumOfLogicalValues
CHECK_DEADLOCK FALSE
