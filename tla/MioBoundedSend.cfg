CONSTANTS
  c1 = c1
  c2 = c2
  s1 = s1
  s2 = s2
  NoTask = NoTask
  Conns <- TwoConns
  Standalone <- OneTask
  TlsConns <- NoConns
  Movers <- NoConns
  Slots = 2
  Lens = {2}
  TlsSlack = 2
  MaxSends = 2
  MaxGen = 1
SYMMETRY Symmetry
SPECIFICATION Spec
INVARIANTS SendsAccounted
