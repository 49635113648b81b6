--------------------------- MODULE SessionProofs ---------------------------
(* Proofs about Session, for any number of users, servers, connections.    *)
EXTENDS Session, TLAPS

\* The connections that were dealt to a server are those that were opened.
Placed == \A c \in Conns : at[c] = NoServer <=> pc[c] = "new"

\* An entry of a server's map leads to a connection of that server.
Local ==
  \A s \in Servers, u \in Users, c \in Conns :
    userConnMap[s][u] = c => at[c] = s

\* A connection between two handlers has no user.
Working ==
  \A c \in Conns : pc[c] \in {"new", "idle", "closed"} => user[c] = NoUser

\* clientCloseException has erased the entry of the user it found.
Erased ==
  \A c \in Conns, u \in Users :
    pc[c] \in CloseSteps /\ user[c] = u => userConnMap[at[c]][u] # c

\* The inductive invariant.  SingleSession rests on OfflineMeansGone, which
\* says that a login which reads "offline" finds no other session, and that
\* rests on SingleSession, which says that the row is written "offline" by
\* the only session there is.
IInv ==
  /\ TypeOK
  /\ Placed
  /\ Local
  /\ Working
  /\ Erased
  /\ SingleSession
  /\ OfflineMeansGone

-----------------------------------------------------------------------------

\* Every variable keeps to its type in the initial state.
LEMMA InitTypeOK == Init => TypeOK
  BY SessionAssumption DEF Init, TypeOK, Steps, Ids

\* A handler's call into hiredis keeps the types of the Redis variables.
LEMMA LeaveContextType ==
  ASSUME TypeOK, NEW c \in Conns, at[c] \in Servers,
         NEW cmd \in Commands, LeaveContext(c, cmd)
  PROVE  /\ toRedis' \in [Servers -> Seq(Commands)]
         /\ fromRedis' \in [Servers -> Seq({Confirm})]
         /\ subscribed' \in [Servers -> SUBSET Ids]
         /\ context' \in [Servers -> {"whole", "torn", "broken"}]
         /\ spoiled' \subseteq Servers
<1>1. PICK s \in Servers : s = at[c]
  OBVIOUS
<1>2. CASE /\ toRedis' = [toRedis EXCEPT ![s] = Append(@, cmd)]
           /\ UNCHANGED spoiled
  <2>1. Append(toRedis[s], cmd) \in Seq(Commands)
    BY <1>1 DEF TypeOK
  <2>2. toRedis' \in [Servers -> Seq(Commands)]
    BY <1>1, <1>2, <2>1 DEF TypeOK
  <2> QED BY <1>1, <1>2, <2>2 DEF TypeOK, LeaveContext
<1>3. CASE spoiled' = spoiled \cup {s} /\ UNCHANGED toRedis
  BY <1>1, <1>3 DEF TypeOK, LeaveContext
<1> QED BY <1>1, <1>2, <1>3 DEF LeaveContext

\* Every step of a handler of login or of the connection keeps the types.
LEMMA LoginTypeOK ==
  ASSUME TypeOK, Placed, Working, NEW c \in Conns,
         \/ \E s \in Servers : Connect(c, s)
         \/ LoginDenied(c)
         \/ \E u \in Users : LoginRefused(c, u)
         \/ \E u \in Ids : LoginAccepted(c, u)
         \/ LoginStep(c)
  PROVE  TypeOK'
<1>1. ASSUME NEW s \in Servers, Connect(c, s) PROVE TypeOK'
  BY <1>1 DEF TypeOK, Connect, Goto, Steps, redisVars, dbVars
<1>2. CASE LoginDenied(c)
  BY <1>2 DEF TypeOK, LoginDenied, redisVars, dbVars
<1>3. ASSUME NEW u \in Users, LoginRefused(c, u) PROVE TypeOK'
  BY <1>3 DEF TypeOK, LoginRefused, redisVars, dbVars
<1>4. ASSUME NEW u \in Ids, LoginAccepted(c, u) PROVE TypeOK'
  BY <1>4 DEF TypeOK, LoginAccepted, Goto, Steps, LoginSteps, LoginWindow,
              redisVars, dbVars
<1>5. CASE LoginInsert(c)
  <2>1. at[c] \in Servers /\ user[c] \in Ids
    BY <1>5 DEF TypeOK, Placed, LoginInsert, Goto
  <2> QED BY <1>5, <2>1 DEF TypeOK, LoginInsert, Goto, Steps, LoginSteps,
                            LoginWindow, redisVars, dbVars
<1>6. CASE LoginSubscribe(c)
  BY <1>6 DEF TypeOK, LoginSubscribe, TouchContext, Goto, Steps, LoginSteps,
              LoginWindow, dbVars
<1>7. CASE LoginSubscribed(c)
  <2>1. at[c] \in Servers /\ user[c] \in Ids
    BY <1>7 DEF TypeOK, Placed, LoginSubscribed, Goto
  <2>2. [op |-> "SUBSCRIBE", channel |-> user[c]] \in Commands
    BY <2>1 DEF Commands
  <2>3. LeaveContext(c, [op |-> "SUBSCRIBE", channel |-> user[c]])
    BY <1>7 DEF LoginSubscribed
  <2> HIDE DEF LeaveContext
  <2> QED BY <1>7, <2>1, <2>2, <2>3, LeaveContextType
          DEF TypeOK, LoginSubscribed, Goto, Steps, LoginSteps, LoginWindow,
              dbVars
<1>8. CASE LoginSetOnline(c)
  BY <1>8 DEF TypeOK, LoginSetOnline, UpdateState, Goto, Steps, LoginSteps,
              redisVars
<1>9. ASSUME NEW found \in BOOLEAN, LoginQueryOffline(c, found) PROVE TypeOK'
  BY <1>9 DEF TypeOK, LoginQueryOffline, Goto, Steps, LoginSteps, redisVars,
              dbVars
<1>10. CASE LoginDropOffline(c)
  BY <1>10 DEF TypeOK, LoginDropOffline, Goto, Steps, LoginSteps, redisVars,
               dbVars
<1>11. CASE LoginAck(c)
  BY <1>11 DEF TypeOK, LoginAck, Goto, Steps, Ids, redisVars, dbVars
<1> QED BY <1>1, <1>2, <1>3, <1>4, <1>5, <1>6, <1>7, <1>8, <1>9, <1>10, <1>11
        DEF LoginStep

\* Every step of clientCloseException keeps the types.
LEMMA CloseTypeOK ==
  ASSUME TypeOK, Placed, NEW c \in Conns, CloseErase(c) \/ CloseStep(c)
  PROVE  TypeOK'
<1>1. CASE CloseErase(c)
  <2>1. at[c] \in Servers
    BY <1>1 DEF TypeOK, Placed, CloseErase, Goto
  <2>2. ASSUME NEW u \in Ids, user' = [user EXCEPT ![c] = u],
               userConnMap' = [userConnMap EXCEPT ![at[c]][u] = NoConn]
        PROVE  TypeOK'
    BY <1>1, <2>1, <2>2 DEF TypeOK, CloseErase, Goto, Steps, CloseSteps,
                            redisVars, dbVars
  <2>3. ASSUME UNCHANGED <<user, userConnMap>> PROVE TypeOK'
    BY <1>1, <2>3 DEF TypeOK, CloseErase, Goto, Steps, CloseSteps,
                      redisVars, dbVars
  <2> QED BY <1>1, <2>2, <2>3 DEF CloseErase, Mapped
<1>2. CASE CloseUnsubscribe(c)
  BY <1>2 DEF TypeOK, CloseUnsubscribe, TouchContext, Goto, Steps, CloseSteps,
              dbVars
<1>3. CASE CloseUnsubscribed(c)
  <2>1. at[c] \in Servers
    BY <1>3 DEF TypeOK, Placed, CloseUnsubscribed, Goto
  <2>2. [op |-> "UNSUBSCRIBE", channel |-> user[c]] \in Commands
    BY DEF Commands, TypeOK
  <2>3. LeaveContext(c, [op |-> "UNSUBSCRIBE", channel |-> user[c]])
    BY <1>3 DEF CloseUnsubscribed
  <2> QED BY <1>3, <2>1, <2>2, <2>3, LeaveContextType
          DEF TypeOK, CloseUnsubscribed, Goto, Steps, CloseSteps, dbVars
<1>4. CASE CloseSetOffline(c)
  BY <1>4 DEF TypeOK, CloseSetOffline, UpdateState, Contest, Goto, Steps, Ids,
              redisVars
<1> QED BY <1>1, <1>2, <1>3, <1>4 DEF CloseStep

\* What Redis, the observer and the end of a process do keeps the types.
LEMMA ServerTypeOK ==
  ASSUME TypeOK, NEW s \in Servers,
         \/ RedisApply(s)  \/ ObserverConfirm(s) \/ ObserverFlush(s) \/ ContextBreaks(s)
         \/ SigintReset(s) \/ Die(s)          \/ Restart(s)
  PROVE  TypeOK'
<1>1. CASE RedisApply(s)
  <2>1. Head(toRedis[s]) \in Commands /\ Tail(toRedis[s]) \in Seq(Commands)
    BY <1>1 DEF TypeOK, RedisApply
  <2>2. toRedis' \in [Servers -> Seq(Commands)]
    BY <1>1, <2>1 DEF TypeOK, RedisApply
  <2>3. Append(fromRedis[s], Confirm) \in Seq({Confirm})
    BY DEF TypeOK
  <2>4. fromRedis' \in [Servers -> Seq({Confirm})]
    BY <1>1, <2>3 DEF TypeOK, RedisApply
  <2>5. subscribed' \in [Servers -> SUBSET Ids]
    BY <1>1, <2>1 DEF TypeOK, RedisApply, Commands
  <2> QED BY <1>1, <2>2, <2>4, <2>5
          DEF TypeOK, RedisApply, Contest, dbVars, connVars
<1>2. CASE ObserverConfirm(s)
  <2>1. Tail(fromRedis[s]) \in Seq({Confirm})
    BY <1>2 DEF TypeOK, ObserverConfirm
  <2> QED BY <1>2, <2>1 DEF TypeOK, ObserverConfirm, TouchContext, dbVars,
                            connVars
<1>3. CASE ContextBreaks(s)
  BY <1>3 DEF TypeOK, ContextBreaks, dbVars, connVars
<1>4. CASE SigintReset(s)
  BY <1>4 DEF TypeOK, SigintReset, Contest, redisVars, connVars
<1>5. ASSUME Die(s) PROVE TypeOK'
  <2>1. [u \in Ids |-> NoConn] \in [Ids -> Conns \cup {NoConn}]
    OBVIOUS
  <2>2. userConnMap' \in [Servers -> [Ids -> Conns \cup {NoConn}]]
    BY <1>5, <2>1 DEF TypeOK, Die
  <2>3. user' \in [Conns -> Ids]
    BY <1>5 DEF TypeOK, Die, Ids
  <2> QED BY <1>5, <2>2, <2>3 DEF TypeOK, Die, Contest, Steps, dbVars
<1>6. CASE Restart(s)
  BY <1>6 DEF TypeOK, Restart, dbVars, redisVars, connVars
<1>7. CASE ObserverFlush(s)
  BY <1>7 DEF TypeOK, ObserverFlush, TouchContext, dbVars, connVars
<1> QED BY <1>1, <1>2, <1>3, <1>4, <1>5, <1>6, <1>7

-----------------------------------------------------------------------------

\* The steps of a handler of login keep the shape of the state.
LEMMA LoginShape ==
  ASSUME TypeOK, Placed, Local, Working, Erased, NEW c \in Conns,
         \/ \E s \in Servers : Connect(c, s)
         \/ LoginDenied(c)
         \/ \E u \in Users : LoginRefused(c, u)
         \/ \E u \in Ids : LoginAccepted(c, u)
         \/ LoginStep(c)
  PROVE  Placed' /\ Local' /\ Working' /\ Erased'
<1> USE SessionAssumption DEF TypeOK, Placed, Local, Working, Erased, Goto, Ids,
                              LoginSteps, LoginWindow, CloseSteps
<1>1. ASSUME NEW s \in Servers, Connect(c, s)
      PROVE  Placed' /\ Local' /\ Working' /\ Erased'
  BY <1>1 DEF Connect
<1>2. CASE LoginDenied(c)
  BY <1>2 DEF LoginDenied
<1>3. ASSUME NEW u \in Users, LoginRefused(c, u)
      PROVE  Placed' /\ Local' /\ Working' /\ Erased'
  BY <1>3 DEF LoginRefused
<1>4. ASSUME NEW u \in Ids, LoginAccepted(c, u)
      PROVE  Placed' /\ Local' /\ Working' /\ Erased'
  BY <1>4 DEF LoginAccepted
<1>5. CASE LoginInsert(c)
  BY <1>5 DEF LoginInsert
<1>6. CASE LoginSubscribe(c)
  BY <1>6 DEF LoginSubscribe
<1>7. CASE LoginSubscribed(c)
  BY <1>7 DEF LoginSubscribed
<1>8. CASE LoginSetOnline(c)
  BY <1>8 DEF LoginSetOnline
<1>9. ASSUME NEW found \in BOOLEAN, LoginQueryOffline(c, found)
      PROVE  Placed' /\ Local' /\ Working' /\ Erased'
  BY <1>9 DEF LoginQueryOffline
<1>10. CASE LoginDropOffline(c)
  BY <1>10 DEF LoginDropOffline
<1>11. CASE LoginAck(c)
  BY <1>11 DEF LoginAck
<1> QED BY <1>1, <1>2, <1>3, <1>4, <1>5, <1>6, <1>7, <1>8, <1>9, <1>10, <1>11
        DEF LoginStep

\* So do the steps of clientCloseException.
LEMMA CloseShape ==
  ASSUME TypeOK, Placed, Local, Working, Erased,
         NEW c \in Conns, CloseErase(c) \/ CloseStep(c)
  PROVE  Placed' /\ Local' /\ Working' /\ Erased'
<1> USE SessionAssumption DEF TypeOK, Placed, Local, Working, Erased, Goto, Ids,
                              LoginSteps, LoginWindow, CloseSteps
<1>1. CASE CloseErase(c)
  <2>1. ASSUME NEW u \in Mapped(c), user' = [user EXCEPT ![c] = u],
               userConnMap' = [userConnMap EXCEPT ![at[c]][u] = NoConn]
        PROVE  Placed' /\ Local' /\ Working' /\ Erased'
    BY <1>1, <2>1 DEF CloseErase, Mapped
  <2>2. ASSUME Mapped(c) = {}, UNCHANGED <<user, userConnMap>>
        PROVE  Placed' /\ Local' /\ Working' /\ Erased'
    BY <1>1, <2>2 DEF CloseErase
  <2> QED BY <1>1, <2>1, <2>2 DEF CloseErase
<1>2. CASE CloseUnsubscribe(c)
  BY <1>2 DEF CloseUnsubscribe
<1>3. CASE CloseUnsubscribed(c)
  BY <1>3 DEF CloseUnsubscribed
<1>4. CASE CloseSetOffline(c)
  BY <1>4 DEF CloseSetOffline
<1> QED BY <1>1, <1>2, <1>3, <1>4 DEF CloseStep

\* And so does everything else.
LEMMA ServerShape ==
  ASSUME TypeOK, Placed, Local, Working, Erased, NEW s \in Servers,
         \/ RedisApply(s)  \/ ObserverConfirm(s) \/ ObserverFlush(s) \/ ContextBreaks(s)
         \/ SigintReset(s) \/ Die(s)          \/ Restart(s)
  PROVE  Placed' /\ Local' /\ Working' /\ Erased'
<1> USE SessionAssumption DEF TypeOK, Placed, Local, Working, Erased, Ids,
                              LoginSteps, LoginWindow, CloseSteps
<1>1. ASSUME UNCHANGED connVars PROVE Placed' /\ Local' /\ Working' /\ Erased'
  BY <1>1 DEF connVars
<1>2. ASSUME Die(s) PROVE Placed' /\ Local' /\ Working' /\ Erased'
  BY <1>2 DEF Die
<1> QED BY <1>1, <1>2 DEF RedisApply, ObserverConfirm, ObserverFlush, ContextBreaks,
                          SigintReset, Restart

-----------------------------------------------------------------------------

\* A step that adds no holder, and takes nobody out of contested who still
\* has one, keeps SingleSession.
LEMMA NoNewHolder ==
  ASSUME SingleSession,
         \A c \in Conns, u \in Users : Traces(c, u)' => Traces(c, u),
         \A u \in contested \ contested' : ~ Traced(u)'
  PROVE  SingleSession'
  BY DEF SingleSession, Traced

\* The same for OfflineMeansGone, when the step neither writes "offline" nor
\* takes a login out of its window with the row still "offline".
LEMMA NoNewOffline ==
  ASSUME OfflineMeansGone,
         \A c \in Conns, u \in Users : Traces(c, u)' => Traces(c, u),
         \A u \in contested \ contested' : ~ Traced(u)',
         \A c \in Conns, u \in Users \ contested' :
           /\ userState'[u] = "offline"
           /\ Traces(c, u)'
           => /\ userState[u] = "offline"
              /\ InWindow(c, u) => InWindow(c, u)'
  PROVE  OfflineMeansGone'
  BY DEF OfflineMeansGone, Traced

\* The check of user.state: a login that reads "offline", with no other
\* login in its window, is the first to hold the user.
LEMMA AcceptedKeepsSession ==
  ASSUME IInv, NEW c \in Conns, NEW u \in Ids, LoginAccepted(c, u)
  PROVE  SingleSession' /\ OfflineMeansGone'
<1> USE DEF LoginAccepted, Goto, dbVars
<1>1. \A d \in Conns, v \in Users :
        (d # c \/ v # u) /\ Traces(d, v)' => Traces(d, v)
  BY DEF IInv, TypeOK, Working, Traces
<1>2. \A d \in Conns, v \in Users : d # c => InWindow(d, v)' = InWindow(d, v)
  BY DEF IInv, TypeOK, InWindow
<1>3. InWindow(c, u)'
  BY DEF IInv, TypeOK, InWindow, LoginWindow
<1>4. \A v \in Users : ~ InWindow(c, v)
  BY DEF InWindow, LoginWindow
<1>5. u \in Users \ contested' => \A d \in Conns : ~ Traces(d, u)
  <2>1. u \in Users \ contested' => \A d \in Conns : ~ InWindow(d, u)
    OBVIOUS
  <2> QED BY <2>1 DEF IInv, OfflineMeansGone
<1>6. contested \subseteq contested'
  OBVIOUS
<1>7. SingleSession'
  BY <1>1, <1>5, <1>6 DEF IInv, SingleSession
<1>8. OfflineMeansGone'
  BY <1>1, <1>2, <1>3, <1>4, <1>6 DEF IInv, OfflineMeansGone
<1> QED BY <1>7, <1>8

\* The other steps of login: the connection goes on holding its user, and
\* leaves the window with the row written or the user contested.
LEMMA LoginKeepsSession ==
  ASSUME IInv, NEW c \in Conns,
         \/ \E s \in Servers : Connect(c, s)
         \/ LoginDenied(c)
         \/ \E u \in Users : LoginRefused(c, u)
         \/ LoginStep(c)
  PROVE  SingleSession' /\ OfflineMeansGone'
<1> USE DEF IInv, TypeOK, Traces, InWindow, Goto, LoginSteps, LoginWindow,
            CloseSteps, Ids, dbVars
<1>1. ASSUME NEW s \in Servers, Connect(c, s)
      PROVE  SingleSession' /\ OfflineMeansGone'
  <2>1. \A d \in Conns, v \in Users : Traces(d, v)' => Traces(d, v)
    <3>1. at[c] = NoServer /\ s # NoServer
      BY <1>1, SessionAssumption DEF Connect, Placed
    <3>2. \A v \in Users : userConnMap[s][v] # c
      BY <3>1 DEF Local
    <3>3. at' = [at EXCEPT ![c] = s] /\ UNCHANGED <<user, userConnMap, loggedIn>>
      BY <1>1 DEF Connect
    <3>4. \A v \in Users : Traces(c, v)' => Traces(c, v)
      BY <1>1, <3>2, <3>3 DEF Connect
    <3>5. \A d \in Conns \ {c}, v \in Users : Traces(d, v)' => Traces(d, v)
      BY <1>1, <3>3 DEF Connect
    <3> QED BY <3>4, <3>5
  <2>2. \A d \in Conns, v \in Users : InWindow(d, v) => InWindow(d, v)'
    BY <1>1 DEF Connect
  <2>3. UNCHANGED <<userState, contested>>
    BY <1>1 DEF Connect
  <2> QED BY <2>1, <2>2, <2>3, NoNewHolder, NoNewOffline
<1>2. ASSUME UNCHANGED <<userState, at, pc, user, userConnMap, loggedIn, contested>>
      PROVE  SingleSession' /\ OfflineMeansGone'
  BY <1>2 DEF SingleSession, OfflineMeansGone
<1>3. CASE LoginInsert(c)
  <2>1. \A d \in Conns, v \in Users : Traces(d, v)' => Traces(d, v)
    BY <1>3 DEF LoginInsert, Placed
  <2>2. \A d \in Conns, v \in Users : InWindow(d, v) => InWindow(d, v)'
    BY <1>3 DEF LoginInsert
  <2>3. UNCHANGED <<userState, contested>>
    BY <1>3 DEF LoginInsert
  <2> QED BY <2>1, <2>2, <2>3, NoNewHolder, NoNewOffline
<1>4. CASE LoginSubscribe(c) \/ LoginSubscribed(c)
  <2>1. \A d \in Conns, v \in Users : Traces(d, v)' => Traces(d, v)
    BY <1>4 DEF LoginSubscribe, LoginSubscribed
  <2>2. \A d \in Conns, v \in Users : InWindow(d, v) => InWindow(d, v)'
    BY <1>4 DEF LoginSubscribe, LoginSubscribed
  <2>3. UNCHANGED <<userState, contested>>
    BY <1>4 DEF LoginSubscribe, LoginSubscribed
  <2> QED BY <2>1, <2>2, <2>3, NoNewHolder, NoNewOffline
<1>5. CASE LoginSetOnline(c)
  <2>1. \A d \in Conns, v \in Users : Traces(d, v)' => Traces(d, v)
    BY <1>5 DEF LoginSetOnline
  <2>2. contested \subseteq contested'
    BY <1>5 DEF LoginSetOnline
  <2>3. \A d \in Conns, v \in Users \ contested' :
          userState'[v] = "offline" =>
            /\ userState[v] = "offline"
            /\ InWindow(d, v) => InWindow(d, v)'
    BY <1>5 DEF LoginSetOnline, UpdateState
  <2> QED BY <2>1, <2>2, <2>3, NoNewHolder, NoNewOffline
<1>6. CASE \/ \E found \in BOOLEAN : LoginQueryOffline(c, found)
           \/ LoginDropOffline(c) \/ LoginAck(c)
  <2>1. \A d \in Conns, v \in Users : Traces(d, v)' => Traces(d, v)
    BY <1>6 DEF LoginQueryOffline, LoginDropOffline, LoginAck
  <2>2. \A d \in Conns, v \in Users : InWindow(d, v) => InWindow(d, v)'
    BY <1>6 DEF LoginQueryOffline, LoginDropOffline, LoginAck
  <2>3. UNCHANGED <<userState, contested>>
    BY <1>6 DEF LoginQueryOffline, LoginDropOffline, LoginAck
  <2> QED BY <2>1, <2>2, <2>3, NoNewHolder, NoNewOffline
<1> QED BY <1>1, <1>2, <1>3, <1>4, <1>5, <1>6
        DEF LoginDenied, LoginRefused, LoginStep

\* clientCloseException: until the row is written "offline" the connection
\* holds the user it found, so that no other one can; and then nobody does.
LEMMA CloseKeepsSession ==
  ASSUME IInv, NEW c \in Conns, CloseErase(c) \/ CloseStep(c)
  PROVE  SingleSession' /\ OfflineMeansGone'
<1> USE DEF TypeOK, Goto, LoginSteps, LoginWindow, CloseSteps, Ids, dbVars
<1>1. CASE CloseErase(c)
  <2>1. \A d \in Conns, v \in Users : Traces(d, v)' => Traces(d, v)
    <3>1. ASSUME NEW u \in Mapped(c), user' = [user EXCEPT ![c] = u],
                 userConnMap' = [userConnMap EXCEPT ![at[c]][u] = NoConn]
          PROVE  \A d \in Conns, v \in Users : Traces(d, v)' => Traces(d, v)
      BY <1>1, <3>1, SessionAssumption DEF CloseErase, Mapped, Traces, IInv, Placed
    <3>2. ASSUME UNCHANGED <<user, userConnMap>>
          PROVE  \A d \in Conns, v \in Users : Traces(d, v)' => Traces(d, v)
      BY <1>1, <3>2, SessionAssumption DEF CloseErase, Traces, IInv, Working
    <3> QED BY <1>1, <3>1, <3>2 DEF CloseErase
  <2>2. \A d \in Conns, v \in Users : InWindow(d, v) => InWindow(d, v)'
    BY <1>1 DEF CloseErase, InWindow, IInv
  <2>3. UNCHANGED <<userState, contested>>
    BY <1>1 DEF CloseErase
  <2> QED BY <2>1, <2>2, <2>3, NoNewHolder, NoNewOffline DEF IInv
<1>2. CASE CloseUnsubscribe(c) \/ CloseUnsubscribed(c)
  <2>1. \A d \in Conns, v \in Users : Traces(d, v)' => Traces(d, v)
    BY <1>2 DEF CloseUnsubscribe, CloseUnsubscribed, Traces, IInv
  <2>2. \A d \in Conns, v \in Users : InWindow(d, v) => InWindow(d, v)'
    BY <1>2 DEF CloseUnsubscribe, CloseUnsubscribed, InWindow, IInv
  <2>3. UNCHANGED <<userState, contested>>
    BY <1>2 DEF CloseUnsubscribe, CloseUnsubscribed
  <2> QED BY <2>1, <2>2, <2>3, NoNewHolder, NoNewOffline DEF IInv
<1>3. CASE CloseSetOffline(c)
  <2>1. \A d \in Conns, v \in Users : Traces(d, v)' => Traces(d, v)
    BY <1>3 DEF CloseSetOffline, Traces, IInv
  <2>2. \A v \in contested \ contested' : ~ Traced(v)'
    BY <1>3 DEF CloseSetOffline, Contest, IInv
  <2>3. SingleSession'
    BY <2>1, <2>2, NoNewHolder DEF IInv
  <2>4. \A d \in Conns, v \in Users : InWindow(d, v) => InWindow(d, v)'
    BY <1>3 DEF CloseSetOffline, InWindow, IInv
  <2>5. ASSUME NEW d \in Conns, NEW v \in Users \ contested', Traces(d, v)'
        PROVE  userState'[v] = userState[v]
    <3>1. Traces(d, v) /\ v \notin contested
      BY <2>1, <2>2, <2>5 DEF Traced
    <3>2. CASE user[c] # v
      BY <1>3, <3>2 DEF CloseSetOffline, UpdateState, IInv
    <3>3. CASE user[c] = v
      <4>1. Traces(c, v)
        BY <1>3, <3>3 DEF CloseSetOffline, Traces
      <4>2. d = c
        BY <3>1, <4>1 DEF IInv, SingleSession
      <4>3. ~ Traces(c, v)'
        BY <1>3, <3>3, SessionAssumption
           DEF CloseSetOffline, Traces, IInv, Erased
      <4> QED BY <2>5, <4>2, <4>3
    <3> QED BY <3>2, <3>3
  <2>6. OfflineMeansGone'
    BY <2>1, <2>2, <2>4, <2>5, NoNewOffline DEF IInv
  <2> QED BY <2>3, <2>6
<1> QED BY <1>1, <1>2, <1>3 DEF CloseStep

\* A process that ends takes its connections with it.
LEMMA DieKeepsSession ==
  ASSUME IInv, NEW s \in Servers, Die(s)
  PROVE  SingleSession' /\ OfflineMeansGone'
<1> USE DEF IInv, TypeOK, Die, LoginSteps, LoginWindow, CloseSteps, Ids, dbVars
<1>1. \A d \in Conns, v \in Users : Traces(d, v)' => at[d] # s /\ Traces(d, v)
  BY SessionAssumption DEF Traces
<1>2. \A v \in contested \ contested' : ~ Traced(v)'
  BY DEF Contest
<1>3. \A d \in Conns, v \in Users :
        at[d] # s /\ InWindow(d, v) => InWindow(d, v)'
  BY DEF InWindow
<1>4. SingleSession'
  BY <1>1, <1>2, NoNewHolder
<1>5. OfflineMeansGone'
  BY <1>1, <1>2, <1>3 DEF OfflineMeansGone, Traced
<1> QED BY <1>4, <1>5

\* resetState contests every user it takes out of an established session.
LEMMA ServerKeepsSession ==
  ASSUME IInv, NEW s \in Servers,
         \/ RedisApply(s)  \/ ObserverConfirm(s) \/ ObserverFlush(s) \/ ContextBreaks(s)
         \/ SigintReset(s) \/ Die(s)          \/ Restart(s)
  PROVE  SingleSession' /\ OfflineMeansGone'
<1>1. ASSUME UNCHANGED <<userState, connVars>>,
             \A v \in contested \ contested' : ~ Traced(v)'
      PROVE  SingleSession' /\ OfflineMeansGone'
  <2>1. \A d \in Conns, v \in Users : Traces(d, v)' = Traces(d, v)
    BY <1>1 DEF connVars, Traces
  <2>2. \A d \in Conns, v \in Users : InWindow(d, v)' = InWindow(d, v)
    BY <1>1 DEF connVars, InWindow
  <2> QED BY <1>1, <2>1, <2>2, NoNewHolder, NoNewOffline DEF IInv
<1>2. CASE SigintReset(s)
  <2>1. \A d \in Conns, v \in Users :
          /\ Traces(d, v)' = Traces(d, v)
          /\ InWindow(d, v)' = InWindow(d, v)
    BY <1>2 DEF SigintReset, connVars, Traces, InWindow
  <2>2. ASSUME NEW v \in Users, v \notin contested', Traced(v)'
        PROVE  v \notin contested /\ userState'[v] = userState[v]
    BY <1>2, <2>2 DEF SigintReset, Contest, IInv, TypeOK
  <2>3. \A v \in contested \ contested' : ~ Traced(v)'
    BY <2>2 DEF IInv, TypeOK
  <2>4. SingleSession'
    BY <2>1, <2>3, NoNewHolder DEF IInv
  <2>5. \A d \in Conns, v \in Users \ contested' :
          Traces(d, v)' => userState'[v] = userState[v]
    BY <2>2 DEF Traced
  <2>6. OfflineMeansGone'
    BY <2>1, <2>3, <2>5, NoNewOffline DEF IInv
  <2> QED BY <2>4, <2>6
<1>3. CASE RedisApply(s)
  BY <1>1, <1>3 DEF RedisApply, Contest, dbVars
<1>4. CASE ObserverConfirm(s) \/ ObserverFlush(s) \/ ContextBreaks(s) \/ Restart(s)
  BY <1>1, <1>4 DEF ObserverConfirm, ObserverFlush, ContextBreaks, Restart, dbVars
<1>5. CASE Die(s)
  BY <1>5, DieKeepsSession
<1> QED BY <1>2, <1>3, <1>4, <1>5

-----------------------------------------------------------------------------

\* A step of a session; or the process ends for a reason that Session does
\* not know, such as the two that module Delivery adds.
AnyStep == Next \/ \E s \in Servers : Die(s)

LEMMA InitInv == Init => IInv
<1> SUFFICES ASSUME Init PROVE IInv
  OBVIOUS
<1>1. TypeOK
  BY InitTypeOK
<1>2. \A c \in Conns, u \in Users : ~ Traces(c, u)
  BY DEF Init, Traces, LoginSteps, LoginWindow, CloseSteps, Ids
<1>3. Placed /\ Local /\ Working /\ Erased
  BY SessionAssumption DEF Init, Placed, Local, Working, Erased, LoginSteps,
                           LoginWindow, CloseSteps, Ids
<1> QED BY <1>1, <1>2, <1>3 DEF IInv, SingleSession, OfflineMeansGone

LEMMA NextInv == IInv /\ [AnyStep]_vars => IInv'
<1> SUFFICES ASSUME IInv, [AnyStep]_vars PROVE IInv'
  OBVIOUS
<1> USE DEF IInv
<1>1. ASSUME NEW c \in Conns,
             \/ \E s \in Servers : Connect(c, s)
             \/ LoginDenied(c)
             \/ \E u \in Users : LoginRefused(c, u)
             \/ LoginStep(c)
      PROVE  IInv'
  BY <1>1, LoginTypeOK, LoginShape, LoginKeepsSession
<1>2. ASSUME NEW c \in Conns, NEW u \in Ids, LoginAccepted(c, u)
      PROVE  IInv'
  BY <1>2, LoginTypeOK, LoginShape, AcceptedKeepsSession
<1>3. ASSUME NEW c \in Conns, CloseErase(c) \/ CloseStep(c)
      PROVE  IInv'
  BY <1>3, CloseTypeOK, CloseShape, CloseKeepsSession
<1>4. ASSUME NEW s \in Servers,
             \/ RedisApply(s)  \/ ObserverConfirm(s) \/ ObserverFlush(s) \/ ContextBreaks(s)
             \/ SigintReset(s) \/ Die(s)          \/ Restart(s)
      PROVE  IInv'
  BY <1>4, ServerTypeOK, ServerShape, ServerKeepsSession
<1>5. CASE UNCHANGED vars
  <2>1. TypeOK' /\ Placed' /\ Local' /\ Working' /\ Erased'
    BY <1>5 DEF vars, TypeOK, Placed, Local, Working, Erased
  <2>2. \A c \in Conns, u \in Users :
          Traces(c, u)' = Traces(c, u) /\ InWindow(c, u)' = InWindow(c, u)
    BY <1>5 DEF vars, Traces, InWindow
  <2>3. UNCHANGED <<userState, contested>>
    BY <1>5 DEF vars
  <2>4. SingleSession'
    BY <2>2, <2>3, NoNewHolder
  <2>5. OfflineMeansGone'
    BY <2>2, <2>3 DEF OfflineMeansGone
  <2> QED BY <2>1, <2>4, <2>5
<1> QED
  <2> HIDE DEF IInv
  <2> QED BY <1>1, <1>2, <1>3, <1>4, <1>5, SessionAssumption
          DEF AnyStep, Next, SigintExit, Kill, TornCrash, Ids

\* The invariant holds in every state of every behaviour.
LEMMA Invariance == Spec => []IInv
<1>1. [Next]_vars => [AnyStep]_vars
  BY DEF AnyStep
<1> QED BY <1>1, InitInv, NextInv, PTL DEF Spec

\* Every variable keeps to its type.
THEOREM TypeCorrect == Spec => []TypeOK
<1>1. IInv => TypeOK
  BY DEF IInv
<1> QED BY <1>1, Invariance, PTL

\* login never gives a user a second session on any server of the cluster,
\* unless its check raced another login, its row could not be written, or a
\* Ctrl-C elsewhere reset it.
THEOREM OneSession == Spec => []SingleSession
<1>1. IInv => SingleSession
  BY DEF IInv
<1> QED BY <1>1, Invariance, PTL

\* With the same three exceptions a row says "offline" only if no server has
\* a session of the user but the login about to write "online".
THEOREM OfflineIsTrue == Spec => []OfflineMeansGone
<1>1. IInv => OfflineMeansGone
  BY DEF IInv
<1> QED BY <1>1, Invariance, PTL

-----------------------------------------------------------------------------

\* After login has inserted the connection of an uncontested user, the entry
\* is that of this connection.
Recorded ==
  \A c \in Conns, u \in Users \ contested :
    pc[c] \in LoginSteps \ {"insert"} /\ user[c] = u => userConnMap[at[c]][u] = c

\* Nobody logs in on a connection that is not open.
Unopened == \A c \in Conns : pc[c] = "new" => loggedIn[c] = {}

Routing == Recorded /\ Unopened /\ AckedIsRouted

\* A step keeps Routing if it takes no user with a holder out of contested,
\* lets no login get past "insert", acknowledges none, and leaves the entries
\* of the connections that it leaves in their sessions.
LEMMA RoutingFrame ==
  ASSUME Routing,
         \A u \in contested \ contested' : ~ Traced(u)',
         \A c \in Conns : pc'[c] = "new" => loggedIn'[c] = {},
         \A c \in Conns, u \in Users :
           /\ pc'[c] \in LoginSteps \ {"insert"}
           /\ user'[c] = u
           => /\ pc[c] \in LoginSteps \ {"insert"}
              /\ user[c] = u
              /\ userConnMap'[at'[c]][u] = userConnMap[at[c]][u],
         \A c \in Conns, u \in Users :
           /\ pc'[c] \notin CloseSteps
           /\ u \in loggedIn'[c]
           => /\ pc[c] \notin CloseSteps
              /\ u \in loggedIn[c]
              /\ userConnMap'[at'[c]][u] = userConnMap[at[c]][u],
         loggedIn' \in [Conns -> SUBSET Users]
  PROVE  Routing'
<1>1. \A c \in Conns, u \in Users \ contested' :
        Traces(c, u)' => u \notin contested
  BY DEF Traced
<1>2. Recorded'
  BY <1>1 DEF Routing, Recorded, Traces
<1>3. AckedIsRouted'
  BY <1>1 DEF Routing, AckedIsRouted, Traces
<1> QED BY <1>2, <1>3 DEF Routing, Unopened

\* unordered_map::insert leaves an entry that is there; for an uncontested
\* user it can only be the connection's own.
LEMMA InsertRoutes ==
  ASSUME IInv, Routing, NEW c \in Conns, LoginInsert(c)
  PROVE  Routing'
<1>1. pc[c] = "insert" /\ user[c] \in Ids /\ at[c] \in Servers
  BY DEF IInv, TypeOK, Placed, LoginInsert, Goto
<1>2. ASSUME NEW d \in Conns, user[c] \in Users \ contested,
             userConnMap[at[c]][user[c]] = d
      PROVE  d = c
  <2>1. at[d] = at[c] /\ at[d] # NoServer
    BY <1>1, <1>2, SessionAssumption DEF IInv, Local
  <2>2. Traces(d, user[c])
    BY <1>2, <2>1 DEF Traces
  <2>3. Traces(c, user[c])
    BY <1>1 DEF Traces, LoginSteps, LoginWindow
  <2> QED BY <1>1, <1>2, <2>2, <2>3 DEF IInv, SingleSession
<1>3. user[c] \in Users \ contested => userConnMap'[at[c]][user[c]] = c
  BY <1>1, <1>2 DEF IInv, TypeOK, LoginInsert, Ids
<1>4. \A s \in Servers, u \in Users :
        userConnMap[s][u] # NoConn => userConnMap'[s][u] = userConnMap[s][u]
  BY <1>1 DEF IInv, TypeOK, LoginInsert, Ids
<1>5. /\ UNCHANGED <<at, user, loggedIn, contested>>
      /\ pc'[c] = "subscribe"
      /\ \A d \in Conns \ {c} : pc'[d] = pc[d]
  BY DEF IInv, TypeOK, LoginInsert, Goto
<1>6. \A d \in Conns, u \in Users :
        userConnMap[at[d]][u] = d /\ at[d] \in Servers => userConnMap'[at[d]][u] = d
  BY <1>4, SessionAssumption
<1>7. \A d \in Conns : pc[d] \in LoginSteps \/ loggedIn[d] # {} => at[d] \in Servers
  BY DEF IInv, TypeOK, Placed, Routing, Unopened, LoginSteps, LoginWindow
<1>8. Recorded'
  BY <1>3, <1>5, <1>6, <1>7 DEF Routing, Recorded
<1>9. AckedIsRouted'
  <2>1. \A d \in Conns : loggedIn[d] \subseteq Users
    BY DEF IInv, TypeOK
  <2> QED BY <1>1, <1>5, <1>6, <1>7, <2>1 DEF Routing, AckedIsRouted, CloseSteps
<1> QED BY <1>5, <1>8, <1>9 DEF Routing, Unopened

\* clientCloseException erases an entry of its own connection only.
LEMMA EraseRoutes ==
  ASSUME IInv, Routing, NEW c \in Conns, CloseErase(c)
  PROVE  Routing'
<1> USE DEF IInv, TypeOK, CloseErase, Goto, Ids, LoginSteps, LoginWindow,
            CloseSteps
<1>1. \A d \in Conns \ {c}, u \in Users :
        userConnMap[at[d]][u] = d => userConnMap'[at'[d]][u] = d
  <2>1. ASSUME NEW v \in Mapped(c),
               userConnMap' = [userConnMap EXCEPT ![at[c]][v] = NoConn]
        PROVE  \A d \in Conns \ {c}, u \in Users :
                 userConnMap[at[d]][u] = d => userConnMap'[at'[d]][u] = d
    <3>1. v \in Ids /\ userConnMap[at[c]][v] = c /\ at' = at
      BY <2>1 DEF Mapped
    <3>2. at[c] \in Servers
      BY DEF Placed
    <3> QED BY <2>1, <3>1, <3>2
  <2>2. ASSUME UNCHANGED userConnMap
        PROVE  \A d \in Conns \ {c}, u \in Users :
                 userConnMap[at[d]][u] = d => userConnMap'[at'[d]][u] = d
    BY <2>2
  <2> QED BY <2>1, <2>2
<1>2. \A d \in Conns \ {c} : UNCHANGED <<pc[d], user[d], loggedIn[d]>>
  OBVIOUS
<1>3. pc'[c] = "unsubscribe" /\ UNCHANGED contested
  OBVIOUS
<1> QED BY <1>1, <1>2, <1>3 DEF Routing, Recorded, Unopened, AckedIsRouted

\* The other steps leave the maps of the servers that go on alone.
LEMMA OtherStepsRoute ==
  ASSUME IInv, Routing, AnyStep,
         \A c \in Conns : ~ LoginInsert(c) /\ ~ CloseErase(c)
  PROVE  Routing'
<1> USE DEF IInv, TypeOK, Goto
<1>1. ASSUME UNCHANGED connVars,
             \A u \in contested \ contested' : ~ Traced(u)'
      PROVE  Routing'
  BY <1>1, RoutingFrame DEF connVars, Routing, Unopened
<1>2. ASSUME NEW c \in Conns, NEW s \in Servers, Connect(c, s) PROVE Routing'
  <2>1. pc[c] = "new" /\ loggedIn[c] = {}
    BY <1>2 DEF Connect, Routing, Unopened
  <2> QED BY <1>2, <2>1, RoutingFrame
          DEF Connect, Routing, Unopened, LoginSteps, LoginWindow
<1>3. ASSUME NEW c \in Conns,
             LoginDenied(c) \/ \E u \in Users : LoginRefused(c, u)
      PROVE  Routing'
  BY <1>3, RoutingFrame DEF LoginDenied, LoginRefused, Routing, Unopened
<1>4. ASSUME NEW c \in Conns, NEW u \in Ids, LoginAccepted(c, u)
      PROVE  Routing'
  BY <1>4, RoutingFrame DEF LoginAccepted, Routing, Unopened, CloseSteps
<1>5. ASSUME NEW c \in Conns, LoginStep(c), ~ LoginInsert(c) PROVE Routing'
  <2> USE DEF LoginSteps, LoginWindow, CloseSteps
  <2>1. CASE LoginSubscribe(c) \/ LoginSubscribed(c)
    <3>1. CASE LoginSubscribe(c)
      BY <3>1, RoutingFrame DEF LoginSubscribe, Routing, Unopened
    <3>2. CASE LoginSubscribed(c)
      BY <3>2, RoutingFrame DEF LoginSubscribed, Routing, Unopened
    <3> QED BY <2>1, <3>1, <3>2
  <2>2. CASE LoginSetOnline(c)
    BY <2>2, RoutingFrame DEF LoginSetOnline, Routing, Unopened
  <2>3. ASSUME NEW found \in BOOLEAN, LoginQueryOffline(c, found)
        PROVE  Routing'
    BY <2>3, RoutingFrame DEF LoginQueryOffline, Routing, Unopened
  <2>4. CASE LoginDropOffline(c)
    BY <2>4, RoutingFrame DEF LoginDropOffline, Routing, Unopened
  <2>5. CASE LoginAck(c)
    <3>1. /\ pc[c] = "ack" /\ pc'[c] = "idle"
          /\ loggedIn'[c] = loggedIn[c] \cup ({user[c]} \cap Users)
          /\ UNCHANGED <<at, userConnMap, contested>>
      BY <2>5 DEF LoginAck
    <3>2. \A d \in Conns \ {c} : UNCHANGED <<pc[d], user[d], loggedIn[d]>>
      BY <2>5 DEF LoginAck
    <3>3. Recorded' /\ Unopened'
      <4> HIDE DEF IInv, TypeOK
      <4>1. pc'[c] \notin LoginSteps /\ pc'[c] # "new"
        BY <3>1
      <4> QED BY <3>1, <3>2, <4>1 DEF Routing, Recorded, Unopened
    <3>4. AckedIsRouted'
      <4>1. user[c] \in Users \ contested => userConnMap[at[c]][user[c]] = c
        BY <3>1 DEF Routing, Recorded
      <4> HIDE DEF IInv, TypeOK
      <4>2. \A u \in loggedIn'[c] \ contested : userConnMap[at[c]][u] = c
        BY <3>1, <4>1 DEF Routing, AckedIsRouted
      <4> QED BY <3>1, <3>2, <4>2 DEF Routing, AckedIsRouted
    <3> QED BY <3>3, <3>4 DEF Routing
  <2> QED BY <1>5, <2>1, <2>2, <2>3, <2>4, <2>5 DEF LoginStep
<1>6. ASSUME NEW c \in Conns, CloseStep(c) PROVE Routing'
  <2> USE DEF LoginSteps, LoginWindow, CloseSteps
  <2>1. CASE CloseUnsubscribe(c) \/ CloseUnsubscribed(c)
    <3>1. /\ UNCHANGED <<at, user, userConnMap, loggedIn, contested>>
          /\ \A d \in Conns \ {c} : UNCHANGED pc[d]
          /\ pc'[c] \in CloseSteps
      BY <2>1 DEF CloseUnsubscribe, CloseUnsubscribed
    <3> QED BY <3>1, RoutingFrame DEF Routing, Unopened
  <2>2. CASE CloseSetOffline(c)
    <3>1. \A d \in Conns \ {c} : UNCHANGED <<pc[d], user[d], loggedIn[d]>>
      BY <2>2 DEF CloseSetOffline
    <3>2. pc'[c] = "closed" /\ loggedIn'[c] = {} /\ UNCHANGED <<at, userConnMap>>
      BY <2>2 DEF CloseSetOffline
    <3>3. \A u \in contested \ contested' : ~ Traced(u)'
      BY <2>2 DEF CloseSetOffline, Contest
    <3>4. loggedIn' \in [Conns -> SUBSET Users]
      BY <2>2 DEF CloseSetOffline
    <3> QED BY <3>1, <3>2, <3>3, <3>4, RoutingFrame DEF Routing, Unopened
  <2> QED BY <1>6, <2>1, <2>2 DEF CloseStep
<1>7. ASSUME NEW s \in Servers, Die(s) PROVE Routing'
  <2>1. \A d \in Conns : at[d] # s =>
          UNCHANGED <<pc[d], user[d], loggedIn[d], at[d], userConnMap[at[d]]>>
    BY <1>7 DEF Die
  <2>2. \A d \in Conns : at[d] = s => pc'[d] = "closed" /\ loggedIn'[d] = {}
    BY <1>7 DEF Die
  <2>3. \A u \in contested \ contested' : ~ Traced(u)'
    BY <1>7 DEF Die, Contest
  <2>4. loggedIn' \in [Conns -> SUBSET Users]
    BY <1>7 DEF Die
  <2>5. \A d \in Conns : pc'[d] = "new" => loggedIn'[d] = {}
    BY <2>1, <2>2 DEF Routing, Unopened
  <2> HIDE DEF IInv, TypeOK
  <2> QED BY <2>1, <2>2, <2>3, <2>4, <2>5, RoutingFrame
          DEF LoginSteps, LoginWindow, CloseSteps
<1>8. ASSUME NEW s \in Servers,
             \/ RedisApply(s) \/ ObserverConfirm(s) \/ ObserverFlush(s) \/ ContextBreaks(s)
             \/ SigintReset(s) \/ Restart(s)
      PROVE  Routing'
  BY <1>1, <1>8 DEF RedisApply, ObserverConfirm, ObserverFlush, ContextBreaks, SigintReset,
                    Restart, Contest
<1> QED
  <2> HIDE DEF IInv, TypeOK
  <2> QED BY <1>2, <1>3, <1>4, <1>5, <1>6, <1>7, <1>8, SessionAssumption
          DEF AnyStep, Next, SigintExit, Kill, TornCrash, Ids

LEMMA RoutingInit == Init => Routing
  BY DEF Init, Routing, Recorded, Unopened, AckedIsRouted, LoginSteps,
         LoginWindow

LEMMA RoutingNext == IInv /\ Routing /\ [AnyStep]_vars => Routing'
<1>1. ASSUME IInv, Routing, UNCHANGED vars PROVE Routing'
  BY <1>1, RoutingFrame DEF vars, IInv, TypeOK, Routing, Unopened
<1> QED BY <1>1, InsertRoutes, EraseRoutes, OtherStepsRoute

\* Routing holds in every state of every behaviour.
LEMMA RoutingInvariance == Spec => []Routing
<1>1. [Next]_vars => [AnyStep]_vars
  BY DEF AnyStep
<1> QED BY <1>1, RoutingInit, RoutingNext, Invariance, PTL DEF Spec

\* An acknowledged user's connection is the one the map of its server leads
\* to, until that connection breaks.
THEOREM AckedIsReachable == Spec => []AckedIsRouted
<1>1. Routing => AckedIsRouted
  BY DEF Routing
<1> QED BY <1>1, RoutingInvariance, PTL
=============================================================================
