----------------------------- MODULE MCSession -----------------------------
(* Instances of Session for TLC.                                           *)
EXTENDS Session, TLC

CONSTANTS c1, c2, c3, u1, u2, s1, s2

Perms == Permutations(Conns) \cup Permutations(Users) \cup Permutations(Servers)

\* What the actions and the safety properties read: all but ack.
WithoutAck ==
  <<userState, process, at, pc, user, userConnMap, loggedIn, toRedis, fromRedis,
    subscribed, context, spoiled, contested>>
=============================================================================
