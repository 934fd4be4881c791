SPECIFICATION Spec
CONSTANTS
  NSlots = 3
  NSlabs = 1
  Scenarios <- MCScenarios
  Careless = {}
INVARIANTS BuffersOwned StreamIntact SendsSettled NothingStranded
PROPERTIES StepsOrderly
