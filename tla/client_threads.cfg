SPECIFICATION FairSpec
CONSTANTS
  u1 = u1  u2 = u2
  Users = {u1, u2}
  NoUser = NoUser
  WithFriends = {u1}
  StreamCap = 3
  Cuts = TRUE
  LinkMayFail = TRUE
INVARIANTS TypeOK OneAnswer MenuIsMine FriendsAreMine
PROPERTIES RequestEnds AcceptedOpensMenu
CHECK_DEADLOCK FALSE
