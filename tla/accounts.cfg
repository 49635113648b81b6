SPECIFICATION Spec
CONSTANTS
  c1 = c1  c2 = c2  i1 = i1  i2 = i2  n1 = n1  n2 = n2
  g1 = g1  g2 = g2  m1 = m1  m2 = m2
  Conns = {c1, c2}
  Ids = {i1, i2}
  Names = {n1, n2}
  GroupIds = {g1, g2}
  GroupNames = {m1, m2}
  None = None
  Strict = FALSE
  DbMayFail = TRUE
  MayCrash = TRUE
SYMMETRY Perms
INVARIANTS TypeOK ToldIsMine MemberIsFounder MemberlessIsAbandoned
PROPERTY AbandonedForGood
CHECK_DEADLOCK FALSE
