SPECIFICATION Spec
CONSTANTS
  Servers = {s1, s2}
  Players = {p1}
  MaxConn = 1
  MaxPosts = 0
  MaxQueue = 1
  NoSession = nosession
  NoConn = noconn
SYMMETRY ServerSymmetry
INVARIANTS MembersAgree
PROPERTIES ImplementsMembership
