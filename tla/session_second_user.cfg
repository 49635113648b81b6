SPECIFICATION Spec
CONSTANTS
  u1 = u1  u2 = u2  c1 = c1  c2 = c2  c3 = c3  s1 = s1  s2 = s2
  Users = {u1, u2}
  Typed = {u1, u2}
  Servers = {s1}
  Conns = {c1}
  NoUser = NoUser
  NoConn = NoConn
  NoServer = NoServer
  SocketCap = 2
  DbMayFail = FALSE
  RedisMayFail = FALSE
  Stops = {}
PROPERTY CloseFreesItsUsers
CHECK_DEADLOCK FALSE
