\* Both routers, two connections and two blocks (of which uIP can forget one),
\* overlapping pages, rows of sensors that just fit buf and that do not, one
\* restart of the embedded router.
SPECIFICATION FairSpec
CONSTANTS
  Builds <- MCBuilds
  Conns = {c1, c2}
  CONNS = 2
  NbrCount = 1
  RouteCount = 2
  MaxSensors = 1
  RowLengths = {126, 127}
  MaxReboots = 1
INVARIANTS
  TypeOK
  BlocksExclusive
  BufInBounds
  PageWhole
PROPERTIES
  PageEnds
  BootsUp
