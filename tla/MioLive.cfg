CONSTANTS
  c1 = c1
  c2 = c2
  s1 = s1
  s2 = s2
  NoTask = NoTask
  Conns <- OneConn
  Standalone <- OneTask
  TlsConns <- OneConn
  Movers <- NoConns
  Slots = 3
  Lens = {0, 1}
  TlsSlack = 2
  MaxSends = 2
  MaxGen = 1
SPECIFICATION FairSpec
PROPERTIES SendResolves
