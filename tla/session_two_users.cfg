SPECIFICATION Spec
CONSTANTS
  u1 = u1  u2 = u2  c1 = c1  c2 = c2  c3 = c3  s1 = s1  s2 = s2
  Users = {u1, u2}
  Typed = {u1, u2, NoUser}
  Servers = {s1}
  Conns = {c1, c2}
  NoUser = NoUser
  NoConn = NoConn
  NoServer = NoServer
  SocketCap = 2
  DbMayFail = FALSE
  RedisMayFail = FALSE
  Stops = {}
VIEW WithoutAck
SYMMETRY Perms
INVARIANTS AckedIsRouted AckedIsSubscribed NoOrphanSubscription
PROPERTY NoLockOut
CHECK_DEADLOCK FALSE
