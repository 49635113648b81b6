SPECIFICATION DeliverySpec
CONSTANTS
  u1 = u1  u2 = u2  c1 = c1  c2 = c2  c3 = c3  s1 = s1  s2 = s2  t1 = t1  t2 = t2
  Users = {u1, u2}
  Typed = {u1, u2}
  Servers = {s1, s2}
  Conns = {c1, c2}
  Texts = {t1}
  NoUser = NoUser
  NoConn = NoConn
  NoServer = NoServer
  NoText = NoText
  Unstorable = {}
  FetchMayBreak = TRUE
  HasHandler = TRUE
  SocketCap = 1
  DbMayFail = FALSE
  RedisMayFail = FALSE
  Stops = {}
VIEW WithHistory
SYMMETRY Perms
INVARIANT DeliveryTypeOK
PROPERTIES NoDuplicate OnlyMissedIsDropped OnlyAddressee ImplementsMailbox
CHECK_DEADLOCK FALSE
