SPECIFICATION DeliverySpec
CONSTANTS
  u1 = u1  u2 = u2  c1 = c1  c2 = c2  c3 = c3  s1 = s1  s2 = s2  t1 = t1  t2 = t2
  Users = {u1}
  Typed = {u1}
  Servers = {s1}
  Conns = {c1, c2}
  Texts = {t1, t2}
  NoUser = NoUser
  NoConn = NoConn
  NoServer = NoServer
  NoText = NoText
  Unstorable = {t2}
  FetchMayBreak = FALSE
  HasHandler = FALSE
  SocketCap = 1
  DbMayFail = TRUE
  RedisMayFail = FALSE
  Stops = {"sigint", "kill"}
VIEW Essentials
SYMMETRY Perms
PROPERTY ImplementsMailbox
