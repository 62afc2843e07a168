SPECIFICATION Spec
CONSTANTS
  Servers = {s1, s2}
  Players = {p1}
  MaxConn = 1
  MaxPosts = 1
  MaxQueue = 1
  NoSession = nosession
  NoConn = noconn
SYMMETRY ServerSymmetry
CONSTRAINT ShortQueues
INVARIANTS TypeOK SessionComplete OneMember SessionConnOpen
PROPERTIES SessionKept
