SPECIFICATION Spec
CONSTANTS
  Servers = {s1}
  Players = {p1}
  MaxConn = 2
  MaxPosts = 0
  MaxQueue = 1
  NoSession = nosession
  NoConn = noconn
PROPERTIES StaleDisconnectHarmless
