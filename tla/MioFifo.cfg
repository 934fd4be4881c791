CONSTANTS
  c1 = c1
  c2 = c2
  s1 = s1
  s2 = s2
  NoTask = NoTask
  Conns <- OneConn
  Standalone <- TwoTasks
  TlsConns <- OneConn
  Movers <- TwoTasks
  Slots = 3
  Lens = {1}
  TlsSlack = 2
  MaxSends = 3
  MaxGen = 2
SYMMETRY Symmetry
SPECIFICATION Spec
INVARIANTS NobodyForgotten
PROPERTIES AdmittedInOrder
