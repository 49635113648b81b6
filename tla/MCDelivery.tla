---------------------------- MODULE MCDelivery ----------------------------
(* Instances of Delivery for TLC.                                          *)
EXTENDS Delivery, TLC

CONSTANTS c1, c2, c3, u1, u2, s1, s2, t1, t2

Perms == Permutations(Conns) \cup Permutations(Users) \cup Permutations(Servers)

\* What the actions and the mailbox read: no guard, and no value of another
\* variable, depends on the history variables or on ack.
Essentials ==
  <<userState, process, at, pc, user, userConnMap, loggedIn, toRedis, fromRedis,
    subscribed, context, peer, to, chat, text, offline, vec, pushed, copies>>

\* The same, with the history that the other properties read.
WithHistory == <<Essentials, contested, missed>>
=============================================================================
