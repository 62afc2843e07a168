SPECIFICATION Spec
CONSTANTS
  Servers = {s1}
  Players = {p1, p2}
  MaxConn = 1
  MaxPosts = 0
  MaxQueue = 1
  NoSession = nosession
  NoConn = noconn
SYMMETRY PlayerSymmetry
INVARIANTS MemberFlag
