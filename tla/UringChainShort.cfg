SPECIFICATION Spec
CONSTANTS
  NSlots = 2
  NSlabs = 2
  Scenarios <- MCChainThenSend
  Careless = {"short"}
INVARIANT StreamIntact
