SPECIFICATION DeliverySpec
CONSTANTS
  u1 = u1  u2 = u2  c1 = c1  c2 = c2  c3 = c3  s1 = s1  s2 = s2  t1 = t1  t2 = t2
  Users = {u1}
  Typed = {u1}
  Servers = {s1}
  Conns = {c1, c2}
  Texts = {t1, t2}
  NoUser = NoUser
  NoConn = NoConn
  NoServer = NoServer
  NoText = NoText
  Unstorable = {}
  FetchMayBreak = FALSE
  HasHandler = TRUE
  SocketCap = 1
  DbMayFail = FALSE
  RedisMayFail = FALSE
  Stops = {}
PROPERTY DroppedWasRecorded
CHECK_DEADLOCK FALSE
