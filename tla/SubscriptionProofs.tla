------------------------- MODULE SubscriptionProofs -------------------------
(* Proofs about Session: what Redis has a server subscribed to agrees with *)
(* the sessions the server has, and what ends a session writes its row,    *)
(* but for the further users of a connection.                              *)
EXTENDS SessionProofs, FiniteSetTheorems

-----------------------------------------------------------------------------
(* LastOp, for a sequence q of commands and the channels subs that are on  *)
(* before them.                                                            *)

Indices(q, u) == {i \in DOMAIN q : q[i].channel = u}

IsLast(q, u, i) == i \in Indices(q, u) /\ \A j \in Indices(q, u) : j <= i

LastOf(q, subs, u) ==
  IF Indices(q, u) = {}
  THEN IF u \in subs THEN "SUBSCRIBE" ELSE "UNSUBSCRIBE"
  ELSE q[CHOOSE i \in Indices(q, u) : \A j \in Indices(q, u) : j <= i].op

\* The channels that are on when Redis has applied one more command.
Applied(cmd, subs) ==
  IF cmd.op = "SUBSCRIBE" THEN subs \cup {cmd.channel} ELSE subs \ {cmd.channel}

\* Commands for a user have a last one: of the intervals behind them, one is
\* smallest.
LEMMA LastExists ==
  ASSUME NEW q \in Seq(Commands), NEW u, Indices(q, u) # {}
  PROVE  \E i \in Indices(q, u) : IsLast(q, u, i)
<1> DEFINE n == Len(q)
           T == {i .. n : i \in Indices(q, u)}
           R == StrictSubsetOrdering(1 .. n)
<1>1. n \in Nat /\ Indices(q, u) \subseteq 1 .. n
  BY DEF Indices
<1>2. IsWellFoundedOn(R, SUBSET (1 .. n))
  <2>1. IsFiniteSet(1 .. n)
    BY <1>1, FS_Interval
  <2> QED BY <2>1, FS_FiniteSubsetsOfFinite, FS_StrictSubsetOrderingWellFounded
<1>3. T \subseteq SUBSET (1 .. n) /\ T # {}
  BY <1>1
<1>4. PICK X \in T : \A Y \in T : <<Y, X>> \notin R
  <2> HIDE DEF T, R, n
  <2> QED BY <1>2, <1>3, WFMin
<1>5. PICK i \in Indices(q, u) : X = i .. n
  OBVIOUS
<1>6. ASSUME NEW j \in Indices(q, u), i < j PROVE FALSE
  <2>1. j .. n \in T /\ i \in 1 .. n /\ j \in 1 .. n
    BY <1>1
  <2>2. j .. n \subseteq i .. n /\ i \in i .. n /\ i \notin j .. n
    BY <1>6, <2>1
  <2>3. <<j .. n, i .. n>> \in R
    BY <1>3, <1>5, <2>1, <2>2 DEF StrictSubsetOrdering
  <2> QED BY <1>4, <1>5, <2>1, <2>3
<1>7. IsLast(q, u, i)
  BY <1>1, <1>6 DEF IsLast
<1> QED BY <1>7

\* What LastOf is, without the CHOOSE.
LEMMA LastIs ==
  ASSUME NEW q \in Seq(Commands), NEW subs, NEW u, NEW i, IsLast(q, u, i)
  PROVE  LastOf(q, subs, u) = q[i].op
<1>1. \A j \in Indices(q, u) : (\A k \in Indices(q, u) : k <= j) <=> j = i
  BY DEF IsLast, Indices
<1>2. (CHOOSE j \in Indices(q, u) : \A k \in Indices(q, u) : k <= j) = i
  BY <1>1 DEF IsLast
<1> QED BY <1>2 DEF LastOf, IsLast

\* Writing a command to the socket.
LEMMA LastAppended ==
  ASSUME NEW q \in Seq(Commands), NEW subs, NEW u, NEW cmd \in Commands
  PROVE  LastOf(Append(q, cmd), subs, u) =
           IF cmd.channel = u THEN cmd.op ELSE LastOf(q, subs, u)
<1> DEFINE r == Append(q, cmd)
<1>1. /\ r \in Seq(Commands) /\ Len(r) = Len(q) + 1 /\ r[Len(r)] = cmd
      /\ \A i \in DOMAIN q : i \in DOMAIN r /\ r[i] = q[i] /\ i <= Len(q)
      /\ \A i \in DOMAIN r : i \in DOMAIN q \/ i = Len(r)
      /\ Len(q) \in Nat
  OBVIOUS
<1> HIDE DEF r
<1>2. CASE cmd.channel = u
  <2>1. IsLast(r, u, Len(r))
    BY <1>1, <1>2 DEF IsLast, Indices
  <2>2. LastOf(r, subs, u) = cmd.op
    BY <1>1, <2>1, LastIs
  <2> QED BY <1>2, <2>2 DEF r
<1>3. CASE cmd.channel # u
  <2>1. Indices(r, u) = Indices(q, u)
    BY <1>1, <1>3 DEF Indices
  <2>2. CASE Indices(q, u) = {}
    BY <1>3, <2>1, <2>2 DEF LastOf, r
  <2>3. CASE Indices(q, u) # {}
    <3>1. PICK i \in Indices(q, u) : IsLast(q, u, i)
      BY <2>3, LastExists
    <3>2. IsLast(r, u, i) /\ r[i] = q[i]
      BY <1>1, <2>1, <3>1 DEF IsLast, Indices
    <3>3. LastOf(r, subs, u) = r[i].op
      BY <1>1, <3>2, LastIs
    <3>4. LastOf(q, subs, u) = q[i].op
      BY <3>1, LastIs
    <3> QED BY <1>3, <3>2, <3>3, <3>4 DEF r
  <2> QED BY <2>2, <2>3
<1> QED BY <1>2, <1>3

\* Redis applying the first one.
LEMMA LastApplied ==
  ASSUME NEW q \in Seq(Commands), NEW subs, NEW u, q # <<>>
  PROVE  LastOf(Tail(q), Applied(Head(q), subs), u) = LastOf(q, subs, u)
<1> DEFINE r == Tail(q)
           h == Head(q)
<1>1. /\ r \in Seq(Commands) /\ h \in Commands /\ h = q[1] /\ 1 \in DOMAIN q
      /\ \A i \in DOMAIN r : i + 1 \in DOMAIN q /\ q[i + 1] = r[i]
      /\ \A i \in DOMAIN q \ {1} : i - 1 \in DOMAIN r /\ r[i - 1] = q[i]
      /\ DOMAIN q \subseteq Nat \ {0} /\ DOMAIN r \subseteq Nat \ {0}
  OBVIOUS
<1>2. h.op \in {"SUBSCRIBE", "UNSUBSCRIBE"}
  BY <1>1 DEF Commands
<1> HIDE DEF r, h
<1>3. CASE Indices(r, u) = {}
  <2>1. Indices(q, u) \subseteq {1}
    BY <1>1, <1>3 DEF Indices
  <2>2. LastOf(r, Applied(h, subs), u) =
          IF u \in Applied(h, subs) THEN "SUBSCRIBE" ELSE "UNSUBSCRIBE"
    BY <1>3 DEF LastOf
  <2>3. CASE h.channel = u
    <3>1. IsLast(q, u, 1)
      BY <1>1, <2>1, <2>3 DEF IsLast, Indices
    <3>2. LastOf(q, subs, u) = h.op
      BY <1>1, <3>1, LastIs
    <3> QED BY <1>2, <2>2, <2>3, <3>2 DEF Applied, r, h
  <2>4. CASE h.channel # u
    <3>1. Indices(q, u) = {}
      BY <1>1, <2>1, <2>4 DEF Indices
    <3>2. LastOf(q, subs, u) = IF u \in subs THEN "SUBSCRIBE" ELSE "UNSUBSCRIBE"
      BY <3>1 DEF LastOf
    <3> QED BY <2>2, <2>4, <3>2 DEF Applied, r, h
  <2> QED BY <2>3, <2>4
<1>4. CASE Indices(r, u) # {}
  <2>1. PICK i \in Indices(r, u) : IsLast(r, u, i)
    BY <1>1, <1>4, LastExists
  <2>2. i + 1 \in Indices(q, u) /\ q[i + 1] = r[i]
    BY <1>1, <2>1 DEF Indices
  <2>3. ASSUME NEW j \in Indices(q, u) PROVE j <= i + 1
    <3>1. CASE j = 1
      BY <1>1, <2>1, <3>1 DEF Indices
    <3>2. CASE j # 1
      <4>1. j - 1 \in Indices(r, u)
        BY <1>1, <3>2 DEF Indices
      <4>2. j - 1 <= i /\ i \in Nat /\ j \in Nat
        BY <1>1, <2>1, <4>1 DEF IsLast, Indices
      <4> QED BY <4>2
    <3> QED BY <3>1, <3>2
  <2>4. IsLast(q, u, i + 1)
    BY <2>2, <2>3 DEF IsLast
  <2>5. LastOf(r, Applied(h, subs), u) = r[i].op
    BY <1>1, <2>1, LastIs
  <2>6. LastOf(q, subs, u) = q[i + 1].op
    BY <2>4, LastIs
  <2> QED BY <2>2, <2>5, <2>6 DEF r, h
<1> QED BY <1>3, <1>4

-----------------------------------------------------------------------------

\* The last command for a user is "SUBSCRIBE" only if a connection of the
\* server has the user; it is as long as a session goes on, and it is not
\* when a session is about to write "offline".
Subscribes(c, u) ==
  \/ /\ pc[c] \in {"setOnline", "offlineQuery", "offlineDrop", "ack"}
     /\ user[c] = u
  \/ u \in loggedIn[c] /\ ~ (pc[c] = "setOffline" /\ user[c] = u)

Unsubscribed(c, u) == pc[c] = "setOffline" /\ user[c] = u

Agree(s, u) ==
  /\ LastOp(s, u) = "SUBSCRIBE" => \E c \in Conns : at[c] = s /\ Traces(c, u)
  /\ \A c \in Conns :
       at[c] = s /\ Subscribes(c, u) => LastOp(s, u) = "SUBSCRIBE"
  /\ \A c \in Conns :
       at[c] = s /\ Unsubscribed(c, u) => LastOp(s, u) = "UNSUBSCRIBE"

Agreement == \A s \in Servers \ spoiled, u \in Users \ contested : Agree(s, u)

\* clientCloseException finds one entry; a further user of its connection
\* keeps the one that leads there.
Kept ==
  \A c \in Conns : pc[c] \in CloseSteps =>
    \A u \in loggedIn[c] \ contested : userConnMap[at[c]][u] = c \/ user[c] = u

\* A server that is down has no open connection, no session and nothing in
\* its context.
Dead ==
  \A s \in Servers : process[s] = "down" =>
    /\ context[s] = "whole" /\ toRedis[s] = <<>> /\ fromRedis[s] = <<>>
    /\ userConnMap[s] = [u \in Ids |-> NoConn]
    /\ \A c \in Conns : at[c] = s => pc[c] = "closed" /\ loggedIn[c] = {}

\* Where the socket and the channels are left alone, the last commands are.
LEMMA LastFrame ==
  ASSUME NEW s \in Servers, NEW u,
         UNCHANGED toRedis[s] /\ UNCHANGED subscribed[s]
  PROVE  LastOp(s, u)' = LastOp(s, u)
  BY DEF LastOp

\* Nobody hears a user that contested forgets, and nobody has it.
LEMMA Forgotten ==
  ASSUME NEW s \in Servers, NEW u \in Users, ~ Traced(u)', ~ Heard(u)',
         TypeOK'
  PROVE  Agree(s, u)'
<1>1. LastOp(s, u)' = "UNSUBSCRIBE"
  BY DEF Heard, LastOp
<1>2. \A c \in Conns : at'[c] = s => ~ Subscribes(c, u)'
  BY DEF Traced, Traces, Subscribes, LoginSteps, LoginWindow
<1> QED BY <1>1, <1>2 DEF Agree

\* In a step that leaves the last command of a server and a user alone, a
\* connection goes on having the user, and neither begins to subscribe nor
\* comes to the write of "offline".
Steady(c, s, u) ==
  /\ at[c] = s /\ Traces(c, u) => at'[c] = s /\ Traces(c, u)'
  /\ at'[c] = s /\ Subscribes(c, u)' => at[c] = s /\ Subscribes(c, u)
  /\ at'[c] = s /\ Unsubscribed(c, u)' => at[c] = s /\ Unsubscribed(c, u)

LEMMA AgreeFrame ==
  ASSUME NEW s \in Servers, NEW u \in Users, Agree(s, u),
         LastOp(s, u)' = LastOp(s, u), \A c \in Conns : Steady(c, s, u)
  PROVE  Agree(s, u)'
  BY DEF Agree, Steady

-----------------------------------------------------------------------------

\* The steps of login other than the command itself.
LEMMA LoginAgrees ==
  ASSUME IInv, Routing, Agreement, NEW c \in Conns,
         \/ \E s \in Servers : Connect(c, s)
         \/ LoginDenied(c)
         \/ \E u \in Users : LoginRefused(c, u)
         \/ \E u \in Ids : LoginAccepted(c, u)
         \/ LoginStep(c) /\ ~ LoginSubscribed(c)
  PROVE  Agreement'
<1> SUFFICES ASSUME NEW s \in Servers \ spoiled', NEW u \in Users \ contested'
             PROVE  Agree(s, u)'
  BY DEF Agreement
<1>1. /\ UNCHANGED <<toRedis, subscribed, spoiled>>
      /\ contested \subseteq contested'
  BY DEF Connect, LoginDenied, LoginRefused, LoginAccepted, LoginStep,
         LoginInsert, LoginSubscribe, LoginSetOnline, LoginQueryOffline,
         LoginDropOffline, LoginAck, redisVars
<1>2. Agree(s, u) /\ LastOp(s, u)' = LastOp(s, u)
  BY <1>1, LastFrame DEF Agreement
<1> SUFFICES ASSUME NEW d \in Conns PROVE Steady(d, s, u)
  BY <1>2, AgreeFrame
<1> USE DEF IInv, TypeOK, Goto, Steady, Traces, Subscribes, Unsubscribed,
            LoginSteps, LoginWindow, CloseSteps
<1>3. ASSUME NEW t \in Servers, Connect(c, t) PROVE Steady(d, s, u)
  BY <1>3, SessionAssumption
     DEF Connect, Placed, Working, Routing, Unopened
<1>4. CASE LoginDenied(c) \/ \E v \in Users : LoginRefused(c, v)
  BY <1>4 DEF LoginDenied, LoginRefused
<1>5. ASSUME NEW v \in Ids, LoginAccepted(c, v) PROVE Steady(d, s, u)
  BY <1>5, SessionAssumption DEF LoginAccepted, Working
<1>6. CASE LoginInsert(c)
  BY <1>6, SessionAssumption DEF LoginInsert, Placed
<1>7. CASE LoginSubscribe(c)
  BY <1>7 DEF LoginSubscribe
<1>8. CASE LoginSetOnline(c)
  BY <1>8 DEF LoginSetOnline
<1>9. ASSUME NEW found \in BOOLEAN, LoginQueryOffline(c, found)
      PROVE  Steady(d, s, u)
  BY <1>9 DEF LoginQueryOffline
<1>10. CASE LoginDropOffline(c)
  BY <1>10 DEF LoginDropOffline
<1>11. CASE LoginAck(c)
  BY <1>11 DEF LoginAck
<1> QED BY <1>3, <1>4, <1>5, <1>6, <1>7, <1>8, <1>9, <1>10, <1>11 DEF LoginStep

\* The command of a handler, if it is not lost, becomes the last one.
LEMMA CommandIsLast ==
  ASSUME IInv, NEW c \in Conns, at[c] \in Servers, NEW cmd \in Commands,
         LeaveContext(c, cmd),
         NEW s \in Servers \ spoiled', NEW u \in Users
  PROVE  /\ s \notin spoiled
         /\ LastOp(s, u)' = IF s = at[c] /\ cmd.channel = u THEN cmd.op
                                                          ELSE LastOp(s, u)
<1>1. s \notin spoiled /\ UNCHANGED subscribed
  BY DEF LeaveContext
<1>2. toRedis[s] \in Seq(Commands)
  BY DEF IInv, TypeOK
<1>3. CASE s = at[c]
  <2>1. toRedis'[s] = Append(toRedis[s], cmd)
    BY <1>3 DEF LeaveContext, IInv, TypeOK
  <2>2. /\ LastOp(s, u)  = LastOf(toRedis[s], subscribed[s], u)
        /\ LastOp(s, u)' = LastOf(toRedis'[s], subscribed'[s], u)
    BY DEF LastOp, LastOf, Indices
  <2>3. LastOf(Append(toRedis[s], cmd), subscribed[s], u) =
          IF cmd.channel = u THEN cmd.op ELSE LastOf(toRedis[s], subscribed[s], u)
    BY <1>2, LastAppended
  <2> QED BY <1>1, <1>3, <2>1, <2>2, <2>3
<1>4. CASE s # at[c]
  <2>1. UNCHANGED toRedis[s]
    BY <1>4 DEF LeaveContext, IInv, TypeOK
  <2> QED BY <1>1, <1>4, <2>1, LastFrame
<1> QED BY <1>1, <1>3, <1>4

\* SUBSCRIBE: the connection has the user, and no other is ending with it.
LEMMA SubscribeAgrees ==
  ASSUME IInv, Agreement, NEW c \in Conns, LoginSubscribed(c)
  PROVE  Agreement'
<1> SUFFICES ASSUME NEW s \in Servers \ spoiled', NEW u \in Users \ contested'
             PROVE  Agree(s, u)'
  BY DEF Agreement
<1> DEFINE cmd == [op |-> "SUBSCRIBE", channel |-> user[c]]
<1>1. /\ pc[c] = "subscribing" /\ pc' = [pc EXCEPT ![c] = "setOnline"]
      /\ UNCHANGED <<at, user, userConnMap, loggedIn, contested>>
      /\ LeaveContext(c, cmd)
  BY DEF LoginSubscribed, Goto
<1>2. at[c] \in Servers /\ user[c] \in Ids /\ cmd \in Commands
  BY <1>1 DEF IInv, TypeOK, Placed, Commands
<1>3. /\ s \notin spoiled
      /\ LastOp(s, u)' = IF s = at[c] /\ user[c] = u THEN "SUBSCRIBE"
                                                     ELSE LastOp(s, u)
  BY <1>1, <1>2, CommandIsLast
<1>4. Agree(s, u)
  BY <1>1, <1>3 DEF Agreement
<1>5. \A d \in Conns : (d # c \/ user[c] # u) => Steady(d, s, u)
  BY <1>1 DEF IInv, TypeOK, Steady, Traces, Subscribes, Unsubscribed,
              LoginSteps, LoginWindow
<1>6. CASE s = at[c] /\ user[c] = u
  <2>1. Traces(c, u) /\ Traces(c, u)' /\ at'[c] = s
    BY <1>1, <1>6 DEF IInv, TypeOK, Traces, LoginSteps, LoginWindow
  <2>2. ASSUME NEW d \in Conns, at'[d] = s, Unsubscribed(d, u)' PROVE FALSE
    <3>1. d # c
      BY <1>1, <2>2 DEF IInv, TypeOK, Unsubscribed
    <3>2. Traces(d, u)
      BY <1>1, <2>2, <3>1 DEF IInv, TypeOK, Unsubscribed, Traces, CloseSteps
    <3> QED BY <1>1, <2>1, <3>1, <3>2 DEF IInv, SingleSession
  <2> QED BY <1>3, <1>6, <2>1, <2>2 DEF Agree
<1>7. CASE s # at[c] \/ user[c] # u
  <2>1. \A d \in Conns : at[d] = s => Steady(d, s, u)
    BY <1>5, <1>7
  <2>2. \A d \in Conns : at[d] # s => Steady(d, s, u)
    BY <1>1 DEF Steady
  <2> QED BY <1>3, <1>4, <1>7, <2>1, <2>2, AgreeFrame
<1> QED BY <1>6, <1>7

\* UNSUBSCRIBE: the connection was the only one to have the user, so that
\* no session of the user goes on.
LEMMA UnsubscribeAgrees ==
  ASSUME IInv, Agreement, NEW c \in Conns, CloseUnsubscribed(c)
  PROVE  Agreement'
<1> SUFFICES ASSUME NEW s \in Servers \ spoiled', NEW u \in Users \ contested'
             PROVE  Agree(s, u)'
  BY DEF Agreement
<1> DEFINE cmd == [op |-> "UNSUBSCRIBE", channel |-> user[c]]
<1>1. /\ pc[c] = "unsubscribing" /\ pc' = [pc EXCEPT ![c] = "setOffline"]
      /\ UNCHANGED <<at, user, userConnMap, loggedIn, contested>>
      /\ LeaveContext(c, cmd)
  BY DEF CloseUnsubscribed, Goto
<1>2. at[c] \in Servers /\ cmd \in Commands
  BY <1>1 DEF IInv, TypeOK, Placed, Commands
<1>3. /\ s \notin spoiled
      /\ LastOp(s, u)' = IF s = at[c] /\ user[c] = u THEN "UNSUBSCRIBE"
                                                     ELSE LastOp(s, u)
  BY <1>1, <1>2, CommandIsLast
<1>4. Agree(s, u)
  BY <1>1, <1>3 DEF Agreement
<1>5. \A d \in Conns : (d # c \/ user[c] # u) => Steady(d, s, u)
  BY <1>1 DEF IInv, TypeOK, Steady, Traces, Subscribes, Unsubscribed,
              LoginSteps, LoginWindow, CloseSteps
<1>6. CASE s = at[c] /\ user[c] = u
  <2>1. Traces(c, u)
    BY <1>1, <1>6 DEF IInv, TypeOK, Traces, CloseSteps
  <2>2. ASSUME NEW d \in Conns, at'[d] = s, Subscribes(d, u)' PROVE FALSE
    <3>1. d # c
      BY <1>1, <1>6, <2>2 DEF IInv, TypeOK, Subscribes
    <3>2. Traces(d, u)
      BY <1>1, <2>2, <3>1
         DEF IInv, TypeOK, Subscribes, Traces, LoginSteps, LoginWindow
    <3> QED BY <1>1, <2>1, <3>1, <3>2 DEF IInv, SingleSession
  <2> QED BY <1>3, <1>6, <2>2 DEF Agree
<1>7. CASE s # at[c] \/ user[c] # u
  <2>1. \A d \in Conns : at[d] = s => Steady(d, s, u)
    BY <1>5, <1>7
  <2>2. \A d \in Conns : at[d] # s => Steady(d, s, u)
    BY <1>1 DEF Steady
  <2> QED BY <1>3, <1>4, <1>7, <2>1, <2>2, AgreeFrame
<1> QED BY <1>6, <1>7

\* The other steps of clientCloseException.  The last of them gives up the
\* user, whose UNSUBSCRIBE is out.
LEMMA CloseAgrees ==
  ASSUME IInv, Agreement, Kept, NEW c \in Conns,
         CloseErase(c) \/ CloseUnsubscribe(c) \/ CloseSetOffline(c)
  PROVE  Agreement'
<1> SUFFICES ASSUME NEW s \in Servers \ spoiled', NEW u \in Users \ contested'
             PROVE  Agree(s, u)'
  BY DEF Agreement
<1>1. /\ UNCHANGED <<toRedis, subscribed, spoiled, at>>
      /\ LastOp(s, u)' = LastOp(s, u)
  BY LastFrame DEF CloseErase, CloseUnsubscribe, CloseSetOffline, redisVars
<1> USE DEF IInv, TypeOK, Goto
<1>2. CASE CloseErase(c)
  <2>1. Agree(s, u)
    BY <1>1, <1>2 DEF CloseErase, Agreement
  <2>2. ASSUME NEW d \in Conns PROVE Steady(d, s, u)
    <3> USE DEF Steady, Traces, Subscribes, Unsubscribed, LoginSteps, LoginWindow,
                CloseSteps
    <3>1. CASE \E v \in Mapped(c) :
                 /\ user' = [user EXCEPT ![c] = v]
                 /\ userConnMap' = [userConnMap EXCEPT ![at[c]][v] = NoConn]
      BY <1>2, <3>1, SessionAssumption DEF CloseErase, Mapped, Working, Placed
    <3>2. CASE UNCHANGED <<user, userConnMap>>
      BY <1>2, <3>2, SessionAssumption DEF CloseErase, Working
    <3> QED BY <1>2, <3>1, <3>2 DEF CloseErase
  <2> QED BY <1>1, <2>1, <2>2, AgreeFrame
<1>3. CASE CloseUnsubscribe(c)
  <2>1. Agree(s, u)
    BY <1>1, <1>3 DEF CloseUnsubscribe, Agreement
  <2>2. ASSUME NEW d \in Conns PROVE Steady(d, s, u)
    BY <1>3 DEF CloseUnsubscribe, Steady, Traces, Subscribes, Unsubscribed,
                LoginSteps, LoginWindow, CloseSteps
  <2> QED BY <1>1, <2>1, <2>2, AgreeFrame
<1>4. CASE CloseSetOffline(c)
  <2>1. CASE u \in contested
    <3>1. ~ Traced(u)' /\ ~ Heard(u)'
      BY <1>4, <2>1 DEF CloseSetOffline, Contest
    <3>2. TypeOK'
      BY <1>4, CloseTypeOK DEF CloseStep
    <3> HIDE DEF TypeOK
    <3> QED BY <3>1, <3>2, Forgotten
  <2>2. CASE u \notin contested
    <3>1. Agree(s, u)
      BY <1>1, <2>2 DEF Agreement
    <3>2. /\ pc[c] = "setOffline" /\ pc' = [pc EXCEPT ![c] = "closed"]
          /\ user' = [user EXCEPT ![c] = NoUser]
          /\ loggedIn' = [loggedIn EXCEPT ![c] = {}]
          /\ UNCHANGED <<at, userConnMap>>
      BY <1>4 DEF CloseSetOffline
    <3>3. CASE user[c] = u /\ at[c] = s
      <4>1. LastOp(s, u) = "UNSUBSCRIBE"
        BY <3>1, <3>2, <3>3 DEF Agree, Unsubscribed
      <4>2. \A d \in Conns : at[d] = s => ~ Subscribes(d, u)
        BY <3>1, <4>1 DEF Agree
      <4>3. \A d \in Conns : at[d] = s => ~ Subscribes(d, u)'
        BY <3>2, <4>2 DEF Subscribes
      <4> QED BY <1>1, <4>1, <4>3 DEF Agree
    <3>4. CASE user[c] # u \/ at[c] # s
      <4>1. ASSUME NEW d \in Conns, at[d] = s PROVE Steady(d, s, u)
        <5>1. CASE d = c
          <6>1. u \in loggedIn[c] => userConnMap[s][u] = c
            BY <2>2, <3>2, <3>4, <4>1, <5>1 DEF Kept, CloseSteps
          <6> QED BY <3>2, <3>4, <4>1, <5>1, <6>1, SessionAssumption
                  DEF Steady, Traces, Subscribes, Unsubscribed, LoginSteps, LoginWindow
        <5>2. CASE d # c
          BY <3>2, <5>2 DEF Steady, Traces, Subscribes, Unsubscribed
        <5> QED BY <5>1, <5>2
      <4>2. \A d \in Conns : at[d] # s => Steady(d, s, u)
        BY <3>2 DEF Steady
      <4> QED BY <1>1, <3>1, <4>1, <4>2, AgreeFrame
    <3> QED BY <3>3, <3>4
  <2> QED BY <2>1, <2>2
<1> QED BY <1>2, <1>3, <1>4

\* Redis applies the first command; the last one stays what it is.
LEMMA RedisAgrees ==
  ASSUME IInv, Agreement, NEW r \in Servers, RedisApply(r), TypeOK'
  PROVE  Agreement'
<1> SUFFICES ASSUME NEW s \in Servers \ spoiled', NEW u \in Users \ contested'
             PROVE  Agree(s, u)'
  BY DEF Agreement
<1>1. /\ UNCHANGED <<at, pc, user, userConnMap, loggedIn, spoiled>>
      /\ toRedis[r] # <<>>
      /\ toRedis' = [toRedis EXCEPT ![r] = Tail(@)]
      /\ subscribed' = [subscribed EXCEPT ![r] = Applied(Head(toRedis[r]), @)]
  BY DEF RedisApply, connVars, Applied
<1>2. LastOp(s, u)' = LastOp(s, u)
  <2>1. CASE s = r
    <3>1. /\ LastOp(s, u)  = LastOf(toRedis[s], subscribed[s], u)
          /\ LastOp(s, u)' = LastOf(toRedis'[s], subscribed'[s], u)
      BY DEF LastOp, LastOf, Indices
    <3>2. /\ toRedis[s] \in Seq(Commands)
          /\ toRedis'[s] = Tail(toRedis[s])
          /\ subscribed'[s] = Applied(Head(toRedis[s]), subscribed[s])
      BY <1>1, <2>1 DEF IInv, TypeOK
    <3> QED BY <1>1, <2>1, <3>1, <3>2, LastApplied
  <2>2. CASE s # r
    BY <1>1, <2>2, LastFrame DEF IInv, TypeOK
  <2> QED BY <2>1, <2>2
<1>3. CASE u \in contested
  <2>1. ~ Traced(u)' /\ ~ Heard(u)'
    BY <1>3 DEF RedisApply, Contest
  <2> QED BY <2>1, Forgotten
<1>4. CASE u \notin contested
  BY <1>1, <1>2, <1>4, AgreeFrame
     DEF Agreement, Steady, Traces, Subscribes, Unsubscribed
<1> QED BY <1>3, <1>4

\* A process that ends has no session and no channel.
LEMMA DieAgrees ==
  ASSUME IInv, Agreement, NEW r \in Servers, Die(r), TypeOK'
  PROVE  Agreement'
<1> SUFFICES ASSUME NEW s \in Servers \ spoiled', NEW u \in Users \ contested'
             PROVE  Agree(s, u)'
  BY DEF Agreement
<1>1. CASE u \in contested
  <2>1. ~ Traced(u)' /\ ~ Heard(u)'
    BY <1>1 DEF Die, Contest
  <2> QED BY <2>1, Forgotten
<1>2. CASE u \notin contested /\ s = r
  <2>1. toRedis'[s] = <<>> /\ subscribed'[s] = {}
    BY <1>2 DEF Die, IInv, TypeOK
  <2>2. LastOp(s, u)' = "UNSUBSCRIBE"
    BY <2>1 DEF LastOp
  <2>3. \A d \in Conns : at'[d] = s => ~ Subscribes(d, u)'
    BY <1>2 DEF Die, IInv, TypeOK, Subscribes
  <2> QED BY <2>2, <2>3 DEF Agree
<1>3. CASE u \notin contested /\ s # r
  <2>1. s \notin spoiled /\ Agree(s, u)
    BY <1>3 DEF Die, Agreement
  <2>2. UNCHANGED toRedis[s] /\ UNCHANGED subscribed[s]
    BY <1>3 DEF Die, IInv, TypeOK
  <2>3. \A d \in Conns : Steady(d, s, u)
    BY <1>3 DEF Die, IInv, TypeOK, Steady, Traces, Subscribes, Unsubscribed
  <2> QED BY <2>1, <2>2, <2>3, LastFrame, AgreeFrame
<1> QED BY <1>1, <1>2, <1>3

\* The rest leaves the commands alone, or says that some may be lost.
LEMMA ServerAgrees ==
  ASSUME IInv, Agreement, NEW r \in Servers,
         \/ ObserverConfirm(r) \/ ObserverFlush(r) \/ ContextBreaks(r)
         \/ SigintReset(r) \/ Restart(r)
  PROVE  Agreement'
<1> SUFFICES ASSUME NEW s \in Servers \ spoiled', NEW u \in Users \ contested'
             PROVE  Agree(s, u)'
  BY DEF Agreement
<1> USE DEF ObserverConfirm, ObserverFlush, ContextBreaks, SigintReset, Restart, connVars
<1>1. /\ s \notin spoiled
      /\ UNCHANGED <<at, pc, user, userConnMap, loggedIn>>
      /\ UNCHANGED toRedis[s] /\ UNCHANGED subscribed[s]
  BY DEF redisVars, IInv, TypeOK
<1>2. CASE u \in contested
  <2>1. CASE UNCHANGED contested
    BY <1>2, <2>1
  <2>2. CASE SigintReset(r) /\ ~ UNCHANGED contested
    <3>1. ~ Traced(u)' /\ ~ Heard(u)'
      BY <1>2, <2>2 DEF Contest
    <3>2. TypeOK'
      BY <2>2, ServerTypeOK DEF IInv
    <3> QED BY <3>1, <3>2, Forgotten
  <2> QED BY <2>1, <2>2
<1>3. CASE u \notin contested
  <2>1. Agree(s, u) /\ LastOp(s, u)' = LastOp(s, u)
    BY <1>1, <1>3, LastFrame DEF Agreement
  <2>2. \A d \in Conns : Steady(d, s, u)
    BY <1>1 DEF Steady, Traces, Subscribes, Unsubscribed
  <2> QED BY <2>1, <2>2, AgreeFrame
<1> QED BY <1>2, <1>3

-----------------------------------------------------------------------------

\* A step keeps Kept if it takes no user with a holder out of contested, and
\* leaves the closing connections their users and entries.
LEMMA KeptFrame ==
  ASSUME Kept, loggedIn' \in [Conns -> SUBSET Users],
         \A u \in contested \ contested' : ~ Traced(u)',
         \A c \in Conns : pc'[c] \in CloseSteps =>
           /\ pc[c] \in CloseSteps
           /\ loggedIn'[c] = loggedIn[c] /\ user'[c] = user[c]
           /\ \A u \in loggedIn[c] :
                userConnMap[at[c]][u] = c => userConnMap'[at'[c]][u] = c
  PROVE  Kept'
<1> SUFFICES ASSUME NEW c \in Conns, pc'[c] \in CloseSteps,
                    NEW u \in loggedIn'[c] \ contested'
             PROVE  userConnMap'[at'[c]][u] = c \/ user'[c] = u
  BY DEF Kept
<1>1. Traces(c, u)' /\ u \in Users
  BY DEF Traces
<1>2. u \notin contested
  BY <1>1 DEF Traced
<1> QED BY <1>2 DEF Kept

\* What a login or clientCloseException writes into a map is its own entry.
LEMMA ConnKept ==
  ASSUME IInv, Routing, Kept, NEW c \in Conns,
         \/ \E s \in Servers : Connect(c, s)
         \/ LoginDenied(c)
         \/ \E u \in Users : LoginRefused(c, u)
         \/ \E u \in Ids : LoginAccepted(c, u)
         \/ LoginStep(c)
         \/ CloseErase(c) \/ CloseStep(c)
  PROVE  Kept'
<1> USE DEF IInv, TypeOK, Goto, LoginSteps, LoginWindow, CloseSteps
<1>1. CASE \/ \E s \in Servers : Connect(c, s)
           \/ LoginDenied(c)
           \/ \E u \in Users : LoginRefused(c, u)
           \/ \E u \in Ids : LoginAccepted(c, u)
  BY <1>1, KeptFrame, SessionAssumption
     DEF Connect, LoginDenied, LoginRefused, LoginAccepted, Placed
<1>2. CASE LoginInsert(c)
  BY <1>2, KeptFrame, SessionAssumption DEF LoginInsert, Placed
<1>3. CASE LoginStep(c) /\ ~ LoginInsert(c)
  <2>1. /\ UNCHANGED <<at, userConnMap>> /\ contested \subseteq contested'
        /\ pc'[c] \notin CloseSteps
        /\ \A d \in Conns \ {c} : UNCHANGED <<pc[d], user[d], loggedIn[d]>>
    BY <1>3 DEF LoginStep, LoginSubscribe, LoginSubscribed, LoginSetOnline,
                LoginQueryOffline, LoginDropOffline, LoginAck
  <2>2. loggedIn' \in [Conns -> SUBSET Users]
    BY <1>3, LoginTypeOK
  <2> HIDE DEF TypeOK, CloseSteps
  <2> QED BY <2>1, <2>2, KeptFrame
<1>4. CASE CloseErase(c)
  <2>1. /\ UNCHANGED <<at, loggedIn, contested>>
        /\ pc[c] = "idle" /\ at[c] \in Servers
        /\ \A d \in Conns \ {c} : UNCHANGED <<pc[d], user[d]>>
    BY <1>4 DEF CloseErase, Placed
  <2>2. \A u \in loggedIn[c] \ contested : userConnMap[at[c]][u] = c
    BY <2>1 DEF Routing, AckedIsRouted
  <2>3. \A d \in Conns, u \in Users :
          userConnMap[at[d]][u] = d =>
            userConnMap'[at[d]][u] = d \/ (d = c /\ user'[c] = u)
    <3>1. CASE UNCHANGED userConnMap
      BY <3>1
    <3>2. ASSUME NEW v \in Mapped(c), user' = [user EXCEPT ![c] = v],
                 userConnMap' = [userConnMap EXCEPT ![at[c]][v] = NoConn]
          PROVE  \A d \in Conns, u \in Users :
                   userConnMap[at[d]][u] = d =>
                     userConnMap'[at[d]][u] = d \/ (d = c /\ user'[c] = u)
      <4>1. v \in Ids /\ userConnMap[at[c]][v] = c /\ user'[c] = v
        BY <3>2 DEF Mapped
      <4> QED BY <2>1, <3>2, <4>1
    <3> QED BY <1>4, <3>1, <3>2 DEF CloseErase
  <2>4. \A d \in Conns : loggedIn[d] \subseteq Users
    OBVIOUS
  <2> HIDE DEF IInv, TypeOK
  <2> QED BY <2>1, <2>2, <2>3, <2>4 DEF Kept
<1>5. CASE CloseUnsubscribe(c) \/ CloseUnsubscribed(c)
  BY <1>5, KeptFrame DEF CloseUnsubscribe, CloseUnsubscribed
<1>6. CASE CloseSetOffline(c)
  BY <1>6, KeptFrame DEF CloseSetOffline, Contest
<1> QED BY <1>1, <1>2, <1>3, <1>4, <1>5, <1>6 DEF CloseStep

LEMMA ServerKept ==
  ASSUME IInv, Kept, NEW s \in Servers,
         \/ RedisApply(s) \/ ObserverConfirm(s) \/ ObserverFlush(s) \/ ContextBreaks(s)
         \/ SigintReset(s) \/ Restart(s) \/ Die(s)
  PROVE  Kept'
<1>1. CASE Die(s)
  BY <1>1, KeptFrame DEF Die, Contest, IInv, TypeOK, CloseSteps
<1>2. CASE \/ RedisApply(s) \/ ObserverConfirm(s) \/ ObserverFlush(s) \/ ContextBreaks(s)
           \/ SigintReset(s) \/ Restart(s)
  BY <1>2, KeptFrame DEF RedisApply, ObserverConfirm, ObserverFlush, ContextBreaks,
                         SigintReset, Restart, Contest, connVars, IInv, TypeOK
<1> QED BY <1>1, <1>2

\* A server that is down does nothing until it is started again.
LEMMA DeadNext == IInv /\ Dead /\ [AnyStep]_vars => Dead'
<1> SUFFICES ASSUME IInv, Dead, [AnyStep]_vars PROVE Dead'
  OBVIOUS
<1> USE DEF IInv, TypeOK, Dead, Goto, Placed
<1>1. ASSUME NEW c \in Conns,
             \/ \E s \in Servers : Connect(c, s)
             \/ LoginDenied(c)
             \/ \E u \in Users : LoginRefused(c, u)
             \/ \E u \in Ids : LoginAccepted(c, u)
             \/ LoginStep(c)
             \/ CloseErase(c) \/ CloseStep(c)
      PROVE  Dead'
  <2>1. CASE \E s \in Servers : Connect(c, s)
    BY <2>1 DEF Connect, redisVars
  <2>2. CASE \/ LoginDenied(c)
             \/ \E u \in Users : LoginRefused(c, u)
             \/ \E u \in Ids : LoginAccepted(c, u)
             \/ LoginStep(c)
             \/ CloseErase(c) \/ CloseStep(c)
    <3>1. /\ pc[c] \notin {"new", "closed"} /\ UNCHANGED <<process, at>>
          /\ \A d \in Conns \ {c} : UNCHANGED <<pc[d], loggedIn[d]>>
          /\ \A s \in Servers \ {at[c]} : UNCHANGED userConnMap[s]
      BY <2>2 DEF LoginDenied, LoginRefused, LoginAccepted, LoginStep,
                  LoginInsert, LoginSubscribe, LoginSubscribed, LoginSetOnline,
                  LoginQueryOffline, LoginDropOffline, LoginAck, CloseErase,
                  CloseStep, CloseUnsubscribe, CloseUnsubscribed, CloseSetOffline
    <3>2. at[c] \in Servers /\ process[at[c]] # "down"
      BY <3>1
    <3>3. \A s \in Servers \ {at[c]} :
            /\ UNCHANGED context[s]
            /\ UNCHANGED toRedis[s] /\ UNCHANGED fromRedis[s]
      <4>1. CASE UNCHANGED redisVars
        BY <4>1 DEF redisVars
      <4>2. CASE LoginSubscribe(c) \/ CloseUnsubscribe(c)
        BY <3>2, <4>2 DEF LoginSubscribe, CloseUnsubscribe, TouchContext
      <4>3. CASE LoginSubscribed(c) \/ CloseUnsubscribed(c)
        BY <3>2, <4>3 DEF LoginSubscribed, CloseUnsubscribed, LeaveContext
      <4> QED BY <2>2, <4>1, <4>2, <4>3
              DEF LoginDenied, LoginRefused, LoginAccepted, LoginStep,
                  LoginInsert, LoginSetOnline, LoginQueryOffline,
                  LoginDropOffline, LoginAck, CloseErase, CloseStep,
                  CloseSetOffline
    <3>4. ASSUME NEW s \in Servers, process'[s] = "down"
          PROVE  /\ context'[s] = "whole" /\ toRedis'[s] = <<>>
                 /\ fromRedis'[s] = <<>>
                 /\ userConnMap'[s] = [u \in Ids |-> NoConn]
                 /\ \A d \in Conns : at'[d] = s =>
                      pc'[d] = "closed" /\ loggedIn'[d] = {}
      <4>1. process[s] = "down" /\ s # at[c]
        BY <3>1, <3>2, <3>4
      <4>2. \A d \in Conns : at'[d] = s => d # c /\ at[d] = s
        BY <3>1, <4>1
      <4>3. /\ context'[s] = "whole" /\ toRedis'[s] = <<>>
            /\ fromRedis'[s] = <<>>
            /\ userConnMap'[s] = [u \in Ids |-> NoConn]
        BY <3>1, <3>3, <4>1
      <4>4. ASSUME NEW d \in Conns, at'[d] = s
            PROVE  pc'[d] = "closed" /\ loggedIn'[d] = {}
        BY <3>1, <4>1, <4>2, <4>4
      <4> QED BY <4>3, <4>4
    <3> QED BY <3>4
  <2> QED BY <1>1, <2>1, <2>2
<1>2. ASSUME NEW s \in Servers,
             \/ RedisApply(s) \/ ObserverConfirm(s) \/ ObserverFlush(s) \/ ContextBreaks(s)
             \/ SigintReset(s) \/ Restart(s) \/ Die(s)
      PROVE  Dead'
  <2>1. CASE Die(s)
    BY <2>1 DEF Die
  <2>2. CASE RedisApply(s) \/ ObserverConfirm(s) \/ ContextBreaks(s)
    BY <2>2 DEF RedisApply, ObserverConfirm, ContextBreaks, TouchContext,
                connVars
  <2>3. CASE ObserverFlush(s)
    <3>1. process[s] # "down"
      BY <2>3 DEF ObserverFlush, InRedis
    <3> QED BY <2>3, <3>1 DEF ObserverFlush, TouchContext, connVars
  <2>4. CASE SigintReset(s) \/ Restart(s)
    BY <2>4 DEF SigintReset, Restart, connVars, redisVars
  <2> QED BY <1>2, <2>1, <2>2, <2>3, <2>4
<1>3. CASE UNCHANGED vars
  BY <1>3 DEF vars
<1> QED
  <2> HIDE DEF IInv, TypeOK, Dead
  <2> QED BY <1>1, <1>2, <1>3, SessionAssumption
          DEF AnyStep, Next, SigintExit, Kill, TornCrash, Ids

\* Sub is inductive on top of the invariants of SessionProofs.
Sub == Agreement /\ Kept /\ Dead

LEMMA SubInit == Init => Sub
<1> SUFFICES ASSUME Init PROVE Sub
  OBVIOUS
<1>1. \A s \in Servers, u \in Users : LastOp(s, u) = "UNSUBSCRIBE"
  BY DEF Init, LastOp
<1>2. \A c \in Conns, u \in Users : ~ Subscribes(c, u)
  BY DEF Init, Subscribes
<1>3. Agreement
  BY <1>1, <1>2 DEF Agreement, Agree
<1>4. Kept /\ Dead
  BY DEF Init, Kept, Dead, CloseSteps
<1> QED BY <1>3, <1>4 DEF Sub

LEMMA SubNext == IInv /\ IInv' /\ Routing /\ Sub /\ [AnyStep]_vars => Sub'
<1> SUFFICES ASSUME IInv, IInv', Routing, Sub, [AnyStep]_vars PROVE Sub'
  OBVIOUS
<1>1. Agreement /\ Kept /\ Dead' /\ TypeOK'
  BY DeadNext DEF Sub, IInv
<1>2. ASSUME NEW c \in Conns,
             \/ \E s \in Servers : Connect(c, s)
             \/ LoginDenied(c)
             \/ \E u \in Users : LoginRefused(c, u)
             \/ \E u \in Ids : LoginAccepted(c, u)
             \/ LoginStep(c)
      PROVE  Agreement' /\ Kept'
  BY <1>1, <1>2, LoginAgrees, SubscribeAgrees, ConnKept
<1>3. ASSUME NEW c \in Conns, CloseErase(c) \/ CloseStep(c)
      PROVE  Agreement' /\ Kept'
  BY <1>1, <1>3, CloseAgrees, UnsubscribeAgrees, ConnKept DEF CloseStep
<1>4. ASSUME NEW s \in Servers,
             \/ RedisApply(s) \/ ObserverConfirm(s) \/ ObserverFlush(s) \/ ContextBreaks(s)
             \/ SigintReset(s) \/ Restart(s) \/ Die(s)
      PROVE  Agreement' /\ Kept'
  BY <1>1, <1>4, RedisAgrees, DieAgrees, ServerAgrees, ServerKept
<1>5. CASE UNCHANGED vars
  <2>1. Kept'
    BY <1>1, <1>5 DEF vars, Kept
  <2>2. \A s \in Servers, u \in Users : Agree(s, u) => Agree(s, u)'
    <3>1. \A s \in Servers, u \in Users :
            /\ LastOp(s, u)' = LastOp(s, u)
            /\ \A c \in Conns : Steady(c, s, u)
      BY <1>5, LastFrame DEF vars, Steady, Traces, Subscribes, Unsubscribed
    <3> QED BY <3>1, AgreeFrame
  <2>3. Agreement'
    BY <1>1, <1>5, <2>2 DEF vars, Agreement
  <2> QED BY <1>1, <2>1, <2>3 DEF Sub
<1> QED BY <1>1, <1>2, <1>3, <1>4, <1>5, SessionAssumption
        DEF Sub, AnyStep, Next, SigintExit, Kill, TornCrash, Ids

LEMMA SubInvariance == Spec => []Sub
<1>1. [Next]_vars => [AnyStep]_vars
  BY DEF AnyStep
<1> QED BY <1>1, SubInit, SubNext, Invariance, RoutingInvariance, PTL DEF Spec

-----------------------------------------------------------------------------

LEMMA SubscribedIfAcked == IInv /\ Routing /\ Sub => AckedIsSubscribed
<1> SUFFICES ASSUME IInv, Routing, Sub,
                    NEW c \in Conns, pc[c] \notin CloseSteps,
                    at[c] \notin spoiled,
                    NEW u \in loggedIn[c] \ contested
             PROVE  LastOp(at[c], u) = "SUBSCRIBE"
  BY DEF AckedIsSubscribed
<1>1. u \in Users /\ at[c] \in Servers
  BY DEF IInv, TypeOK, Placed, Routing, Unopened
<1>2. Subscribes(c, u)
  BY DEF Subscribes, CloseSteps
<1> QED BY <1>1, <1>2 DEF Sub, Agreement, Agree

LEMMA HeldIfSubscribed == Sub => NoOrphanSubscription
  BY DEF Sub, Agreement, Agree, NoOrphanSubscription, Holds, Stranded

\* An acknowledged user's channel is on, once the commands that were written
\* are applied, unless threads lost one in the context without a lock.
THEOREM AckedHearsItsChannel == Spec => []AckedIsSubscribed
  BY SubscribedIfAcked, Invariance, RoutingInvariance, SubInvariance, PTL

\* A server hears a channel only for a session that it has, or for an entry
\* that a connection with two logins left in its map.
THEOREM NoChannelIsLeft == Spec => []NoOrphanSubscription
  BY HeldIfSubscribed, SubInvariance, PTL

-----------------------------------------------------------------------------

\* The last open connection of an uncontested session is given up by the
\* step that writes its row, or for another user, or with its server.
LEMMA LockOutStep ==
  ASSUME IInv, IInv', Routing, Sub, [AnyStep]_vars,
         NEW u \in Users \ contested, Held(u), ~ Held(u)',
         UNCHANGED process
  PROVE  \/ userState'[u] = "offline"
         \/ DbMayFail /\ UNCHANGED userState
         \/ \E c \in Conns : Strands(c, u)
<1> USE DEF IInv, TypeOK, Goto, Held, Holds, Traces, LoginSteps, LoginWindow,
            CloseSteps
<1>1. PICK c \in Conns : Holds(c, u) /\ ~ Holds(c, u)'
  OBVIOUS
<1>2. ASSUME NEW d \in Conns,
             \/ \E s \in Servers : Connect(d, s)
             \/ LoginDenied(d)
             \/ \E v \in Users : LoginRefused(d, v)
             \/ \E v \in Ids : LoginAccepted(d, v)
             \/ LoginStep(d)
      PROVE  FALSE
  <2>1. CASE \E s \in Servers : Connect(d, s)
    BY <1>1, <2>1, SessionAssumption DEF Connect, Placed
  <2>2. CASE LoginDenied(d) \/ \E v \in Users : LoginRefused(d, v)
    BY <1>1, <2>2 DEF LoginDenied, LoginRefused
  <2>3. CASE \E v \in Ids : LoginAccepted(d, v)
    BY <1>1, <2>3 DEF LoginAccepted
  <2>4. CASE LoginInsert(d)
    BY <1>1, <2>4, SessionAssumption DEF LoginInsert, Placed
  <2>5. CASE LoginStep(d) /\ ~ LoginInsert(d) /\ ~ LoginAck(d)
    <3>1. /\ UNCHANGED <<at, user, userConnMap, loggedIn>>
          /\ pc'[d] \in LoginSteps /\ \A e \in Conns \ {d} : UNCHANGED pc[e]
      BY <2>5 DEF LoginStep, LoginSubscribe, LoginSubscribed, LoginSetOnline,
                  LoginQueryOffline, LoginDropOffline
    <3> QED BY <1>1, <3>1
  <2>6. CASE LoginAck(d)
    BY <1>1, <2>6 DEF LoginAck
  <2> QED BY <1>2, <2>1, <2>2, <2>3, <2>4, <2>5, <2>6
<1>3. ASSUME NEW d \in Conns, CloseErase(d) PROVE FALSE
  <2>1. CASE UNCHANGED <<user, userConnMap>>
    BY <1>1, <1>3, <2>1 DEF CloseErase
  <2>2. ASSUME NEW v \in Mapped(d), user' = [user EXCEPT ![d] = v],
               userConnMap' = [userConnMap EXCEPT ![at[d]][v] = NoConn]
        PROVE  FALSE
    <3>1. v \in Ids /\ userConnMap[at[d]][v] = d /\ user'[d] = v
      BY <2>2 DEF Mapped
    <3>2. pc[d] = "idle" /\ pc'[d] = "unsubscribe" /\ at[d] \in Servers
          /\ UNCHANGED <<at, loggedIn>>
      BY <1>3 DEF CloseErase, Placed
    <3>3. \A e \in Conns \ {d} : UNCHANGED <<pc[e], user[e]>>
      BY <1>3, <2>2 DEF CloseErase
    <3> QED BY <1>1, <2>2, <3>1, <3>2, <3>3
  <2> QED BY <1>3, <2>1, <2>2 DEF CloseErase
<1>4. ASSUME NEW d \in Conns, CloseUnsubscribe(d) \/ CloseUnsubscribed(d)
      PROVE  FALSE
  BY <1>1, <1>4 DEF CloseUnsubscribe, CloseUnsubscribed
<1>5. ASSUME NEW d \in Conns, CloseSetOffline(d)
      PROVE  \/ userState'[u] = "offline"
             \/ DbMayFail /\ UNCHANGED userState
             \/ Strands(d, u)
  <2>1. c = d
    BY <1>1, <1>5 DEF CloseSetOffline
  <2>2. CASE user[d] = u
    BY <1>5, <2>2, SessionAssumption DEF CloseSetOffline, UpdateState
  <2>3. CASE user[d] # u
    <3>1. pc[d] = "setOffline" /\ pc'[d] = "closed"
          /\ UNCHANGED <<at, userConnMap>>
      BY <1>5 DEF CloseSetOffline
    <3>2. at[d] # NoServer /\ userConnMap[at[d]][u] = d
      BY <1>1, <2>1, <2>3, <3>1 DEF Sub, Kept, Placed
    <3>3. Stranded(d, u)'
      BY <3>1, <3>2 DEF Stranded
    <3> QED BY <1>1, <1>5, <2>1, <2>3, <3>3 DEF Strands
  <2> QED BY <2>2, <2>3
<1>6. ASSUME NEW s \in Servers,
             SigintExit(s) \/ Kill(s) \/ TornCrash(s) \/ Die(s)
      PROVE  FALSE
  <2>1. Die(s)
    BY <1>6 DEF SigintExit, Kill, TornCrash
  <2>2. \A e \in Conns : at[e] = s => pc[e] = "closed"
    BY <2>1 DEF Die, Sub, Dead
  <2>3. at[c] # s
    BY <1>1, <2>2
  <2> QED BY <1>1, <2>1, <2>3 DEF Die
<1>7. ASSUME NEW s \in Servers,
             \/ RedisApply(s) \/ ObserverConfirm(s) \/ ObserverFlush(s) \/ ContextBreaks(s)
             \/ SigintReset(s) \/ Restart(s)
      PROVE  FALSE
  BY <1>1, <1>7 DEF RedisApply, ObserverConfirm, ObserverFlush, ContextBreaks, SigintReset,
                    Restart, connVars
<1>8. ~ UNCHANGED vars
  BY <1>1 DEF vars
<1> QED
  <2> HIDE DEF IInv, TypeOK, Held, Holds, Traces
  <2> QED BY <1>2, <1>3, <1>4, <1>5, <1>6, <1>7, <1>8, SessionAssumption
          DEF AnyStep, Next, CloseStep, Ids

LEMMA LockOutNext ==
  IInv /\ IInv' /\ Routing /\ Sub /\ [AnyStep]_vars =>
    [\A u \in Users :
       Held(u) /\ ~ Held(u)' /\ u \notin contested
         => \/ userState'[u] = "offline"
            \/ process' # process
            \/ DbMayFail /\ UNCHANGED userState
            \/ \E c \in Conns : Strands(c, u)]_vars
  BY LockOutStep

\* A user is left "online" without a session by a server that goes on in two
\* ways only: the statement failed that should have written the row, or the
\* close handler worked for another user of the same connection.
THEOREM NobodyIsLockedOut == Spec => NoLockOut
<1>1. [Next]_vars => [AnyStep]_vars
  BY DEF AnyStep
<1> QED
  BY <1>1, LockOutNext, Invariance, RoutingInvariance, SubInvariance, PTL
     DEF Spec, NoLockOut

=============================================================================
