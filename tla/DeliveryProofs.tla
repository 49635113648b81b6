-------------------------- MODULE DeliveryProofs --------------------------
(* Proofs about Delivery: messages leave the sessions alone, and what      *)
(* becomes of a message.                                                   *)
EXTENDS Delivery, SubscriptionProofs

\* oneChat has a message that was sent, on a connection that is open and has
\* no other handler.
Chatting ==
  \A c \in Conns : /\ chat[c] = "none" <=> text[c] = NoText
                   /\ chat[c] # "none" => pc[c] = "idle"

\* A message that was not sent is nowhere.
Unsent ==
  \A t \in Texts : to[t] = NoUser =>
    /\ copies[t] = 0 /\ t \notin offline
    /\ \A c \in Conns : text[c] # t /\ t \notin vec[c]

\* A message that oneChat is handling is nowhere else.
Fresh(t) == copies[t] = 0 /\ t \notin offline /\ \A c \in Conns : t \notin vec[c]

OnItsWay ==
  \A c \in Conns, t \in Texts : text[c] = t =>
    Fresh(t) /\ \A d \in Conns : text[d] = t => d = c

\* What login has read are messages for its user, until it is acknowledged.
Collected ==
  \A c \in Conns : \A t \in vec[c] :
    pc[c] \in {"offlineDrop", "ack"} /\ to[t] = user[c]

\* What oneChat will store, though a login has written "online" since it
\* read "offline", is missed.
Late ==
  \A c, d \in Conns :
    /\ pc[c] \in {"offlineQuery", "offlineDrop", "ack"}
    /\ chat[d] = "store" /\ to[text[d]] = user[c]
    => text[d] \in missed \/ user[c] \in contested

\* The rows that a login is about to drop were read, or are missed.
Read ==
  \A c \in Conns : pc[c] = "offlineDrop" =>
    RowsOf(user[c]) \subseteq vec[c] \cup missed \/ user[c] \in contested

\* A message that was delivered is not stored, and neither is one that login
\* has read and dropped.
Dropped ==
  \A t \in offline :
    copies[t] = 0 /\ \A c \in Conns : pc[c] = "ack" => t \notin vec[c]

\* A connection whose close handler has begun has no client, or no entry in
\* a map: its server has ended.
Deaf ==
  \A c \in Conns : pc[c] \in CloseSteps \cup {"closed"} =>
    ~ peer[c] \/ \A s \in Servers, u \in Users : userConnMap[s][u] # c

\* Only overlapping logins have read a message that was delivered.
Single ==
  \A c \in Conns : \A t \in vec[c] : copies[t] > 0 => to[t] \in contested

Places == DeliveryTypeOK /\ Chatting /\ Unsent /\ OnItsWay /\ Collected
Rows   == Late /\ Read /\ Dropped /\ Single

-----------------------------------------------------------------------------
(* Delivery adds no step to the sessions but two more ends of a process.   *)

LEMMA SessionStep == [DeliveryNext]_allVars => [AnyStep]_vars
  BY DEF DeliveryNext, allVars, OneChatForward, OneChatMiss, OneChatStep,
         OneChatQuery, OneChatPublish, OneChatStore, PeerGone, ConnStep,
         SetOnline, QueryOffline, DropOffline, Ack, ServerStep, ChatCrash,
         ObserverMessage, DieWithMessages, AnyStep, Next, LoginStep

LEMMA SessionInvariance == DeliverySpec => [](IInv /\ Routing /\ Sub)
<1>1. DeliveryInit => Init
  BY DEF DeliveryInit
<1> QED BY <1>1, SessionStep, InitInv, NextInv, RoutingInit, RoutingNext,
           SubInit, SubNext, PTL DEF DeliverySpec

\* Messages leave the sessions alone: what holds of the sessions alone holds
\* of them among messages, whatever process ends because of one.
THEOREM SessionsAmongMessages ==
  DeliverySpec =>
    /\ [](/\ TypeOK
         /\ SingleSession /\ OfflineMeansGone /\ AckedIsRouted
         /\ AckedIsSubscribed /\ NoOrphanSubscription)
    /\ NoLockOut
<1>1. IInv /\ Routing /\ Sub =>
        /\ TypeOK
        /\ SingleSession /\ OfflineMeansGone /\ AckedIsRouted
        /\ AckedIsSubscribed /\ NoOrphanSubscription
  BY SubscribedIfAcked, HeldIfSubscribed DEF IInv, Routing
<1> QED BY <1>1, SessionInvariance, SessionStep, LockOutNext, PTL
        DEF DeliverySpec, NoLockOut

-----------------------------------------------------------------------------
(* Where messages are.                                                     *)

LEMMA PlacesInit == DeliveryInit => Places
<1> SUFFICES ASSUME DeliveryInit PROVE Places
  OBVIOUS
<1>1. DeliveryTypeOK
  BY DEF DeliveryInit, DeliveryTypeOK
<1>2. Chatting /\ Unsent /\ OnItsWay /\ Collected
  BY DeliveryAssumption
     DEF DeliveryInit, Chatting, Unsent, OnItsWay, Collected, Fresh
<1> QED BY <1>1, <1>2 DEF Places

\* What Write does to the number of copies.
LEMMA Written ==
  ASSUME DeliveryTypeOK, NEW c \in Conns, NEW T, Write(c, T)
  PROVE  /\ copies' \in [Texts -> 0 .. 2]
         /\ \A t \in Texts : copies'[t] # copies[t] => t \in T /\ peer[c]
         /\ \A t \in T \cap Texts : peer[c] => copies'[t] > 0
  BY DEF Write, DeliveryTypeOK

\* A step of a session with no message leaves the messages where they are:
\* it is no step of a handler that has one.
LEMMA PlacesFrame ==
  ASSUME Places, UNCHANGED chatVars, peer' \in [Conns -> BOOLEAN],
         \A c \in Conns :
           /\ chat[c] # "none" => pc'[c] = pc[c]
           /\ pc[c] \in {"offlineDrop", "ack"} =>
                pc'[c] = pc[c] /\ user'[c] = user[c]
  PROVE  Places'
<1> USE DEF Places, chatVars
<1>1. DeliveryTypeOK'
  BY DEF DeliveryTypeOK
<1>2. Chatting'
  BY DEF Chatting
<1>3. Unsent' /\ OnItsWay'
  BY DEF Unsent, OnItsWay, Fresh
<1>4. Collected'
  BY DEF Collected
<1> QED BY <1>1, <1>2, <1>3, <1>4

LEMMA ForwardPlaces ==
  ASSUME Places, NEW c \in Conns, NEW t \in Texts, NEW u \in Users,
         OneChatForward(c, t, u), userConnMap[at[c]][u] \in Conns
  PROVE  Places'
<1> USE DEF Places, OneChatForward
<1>1. /\ copies' \in [Texts -> 0 .. 2]
      /\ \A x \in Texts \ {t} : copies'[x] = copies[x]
  BY Written
<1>2. to' = [to EXCEPT ![t] = u] /\ to[t] = NoUser
      /\ UNCHANGED <<vars, peer, chat, text, offline, vec, pushed, missed>>
  OBVIOUS
<1>3. DeliveryTypeOK'
  BY <1>1, <1>2 DEF DeliveryTypeOK
<1>4. Chatting'
  BY <1>2 DEF Chatting, vars
<1>5. Unsent'
  BY <1>1, <1>2, SessionAssumption DEF Unsent, DeliveryTypeOK
<1>6. OnItsWay'
  BY <1>1, <1>2 DEF Unsent, OnItsWay, Fresh, DeliveryTypeOK
<1>7. Collected'
  BY <1>2 DEF Collected, Unsent, vars, DeliveryTypeOK
<1> QED BY <1>3, <1>4, <1>5, <1>6, <1>7

LEMMA MissPlaces ==
  ASSUME Places, NEW c \in Conns, NEW t \in Texts, NEW u \in Users,
         OneChatMiss(c, t, u)
  PROVE  Places'
<1> USE DEF Places, OneChatMiss, ChatGoto
<1>1. DeliveryTypeOK'
  BY DEF DeliveryTypeOK
<1>2. Chatting'
  BY DeliveryAssumption DEF Chatting, vars, DeliveryTypeOK
<1>3. Unsent'
  BY SessionAssumption DEF Unsent, DeliveryTypeOK
<1>4. OnItsWay'
  BY DEF Unsent, OnItsWay, Fresh, DeliveryTypeOK
<1>5. Collected'
  BY DEF Collected, Unsent, vars, DeliveryTypeOK
<1> QED BY <1>1, <1>2, <1>3, <1>4, <1>5

\* oneChat goes on: the message changes its place, and only this message.
LEMMA OneChatPlaces ==
  ASSUME Places, NEW c \in Conns, OneChatStep(c)
  PROVE  Places'
<1> USE DEF Places, ChatGoto
<1>1. chat[c] # "none" /\ text[c] \in Texts /\ Fresh(text[c])
      /\ to[text[c]] # NoUser
  BY DEF OneChatStep, OneChatQuery, OneChatPublish, OneChatStore, Chatting,
         DeliveryTypeOK, OnItsWay, Unsent
<1>2. CASE OneChatQuery(c)
  <2>1. /\ chat' \in [Conns -> {"none", "query", "publish", "store"}]
        /\ \A d \in Conns : chat'[d] = "none" <=> chat[d] = "none"
        /\ text' = text
        /\ UNCHANGED <<vars, peer, to, offline, vec, pushed, copies, missed>>
    BY <1>2 DEF OneChatQuery, DeliveryTypeOK
  <2>2. DeliveryTypeOK'
    BY <2>1 DEF DeliveryTypeOK
  <2>3. Chatting'
    BY <2>1 DEF Chatting, vars
  <2>4. Unsent' /\ OnItsWay' /\ Collected'
    BY <2>1 DEF Unsent, OnItsWay, Fresh, Collected, vars
  <2> QED BY <2>2, <2>3, <2>4
<1>3. CASE OneChatPublish(c)
  <2>1. /\ chat' = [chat EXCEPT ![c] = "none"]
        /\ text' = [text EXCEPT ![c] = NoText]
        /\ UNCHANGED <<vars, peer, to, offline, vec, copies, missed>>
    BY <1>3 DEF OneChatPublish
  <2>2. pushed' \in [Servers -> SUBSET Texts]
    BY <1>1, <1>3 DEF OneChatPublish, DeliveryTypeOK
  <2>3. DeliveryTypeOK'
    BY <2>1, <2>2 DEF DeliveryTypeOK
  <2>4. Chatting'
    BY <2>1 DEF Chatting, vars, DeliveryTypeOK
  <2>5. Unsent'
    BY <1>1, <2>1, <2>2, DeliveryAssumption DEF Unsent, DeliveryTypeOK
  <2>6. OnItsWay'
    BY <1>1, <2>1, <2>2, DeliveryAssumption DEF OnItsWay, Fresh, DeliveryTypeOK
  <2>7. Collected'
    BY <2>1 DEF Collected, vars
  <2> QED BY <2>3, <2>4, <2>5, <2>6, <2>7
<1>4. CASE OneChatStore(c)
  <2>1. /\ chat' = [chat EXCEPT ![c] = "none"]
        /\ text' = [text EXCEPT ![c] = NoText]
        /\ UNCHANGED <<vars, peer, to, vec, pushed, copies, missed>>
        /\ offline' \subseteq offline \cup {text[c]}
    BY <1>4 DEF OneChatStore
  <2>2. DeliveryTypeOK'
    BY <1>1, <2>1 DEF DeliveryTypeOK
  <2>3. Chatting'
    BY <2>1 DEF Chatting, vars, DeliveryTypeOK
  <2>4. Unsent'
    BY <1>1, <2>1, DeliveryAssumption DEF Unsent, DeliveryTypeOK
  <2>5. OnItsWay'
    BY <1>1, <2>1, DeliveryAssumption DEF OnItsWay, Fresh, DeliveryTypeOK
  <2>6. Collected'
    BY <2>1 DEF Collected, vars
  <2> QED BY <2>2, <2>3, <2>4, <2>5, <2>6
<1> QED BY <1>2, <1>3, <1>4 DEF OneChatStep

\* login: only the step from the query to the acknowledgement has messages.
LEMMA LoginPlaces ==
  ASSUME Places, IInv, NEW c \in Conns,
         SetOnline(c) \/ QueryOffline(c) \/ DropOffline(c) \/ Ack(c)
  PROVE  Places'
<1> USE DEF Places, Goto
<1>1. CASE SetOnline(c)
  <2>1. /\ pc[c] = "setOnline" /\ pc' = [pc EXCEPT ![c] = "offlineQuery"]
        /\ UNCHANGED <<user, peer, to, chat, text, offline, vec, pushed, copies>>
    BY <1>1 DEF SetOnline, LoginSetOnline
  <2>2. \A d \in Conns : chat[d] = "store" => text[d] \in Texts
    BY DEF Chatting, DeliveryTypeOK
  <2>3. missed' \subseteq Texts
    BY <1>1, <2>2 DEF SetOnline, DeliveryTypeOK
  <2>4. DeliveryTypeOK'
    BY <2>1, <2>3 DEF DeliveryTypeOK
  <2>5. Chatting' /\ Collected'
    BY <2>1 DEF Chatting, Collected, IInv, TypeOK
  <2>6. Unsent' /\ OnItsWay'
    BY <2>1 DEF Unsent, OnItsWay, Fresh
  <2> QED BY <2>4, <2>5, <2>6
<1>2. CASE QueryOffline(c)
  <2>1. PICK rows \in Fetched(RowsOf(user[c])), found \in BOOLEAN :
          /\ rows # {} => found
          /\ LoginQueryOffline(c, found)
          /\ vec' = [vec EXCEPT ![c] = rows]
          /\ missed' = missed \cup (RowsOf(user[c]) \ rows)
          /\ UNCHANGED <<peer, to, chat, text, offline, pushed, copies>>
    BY <1>2 DEF QueryOffline
  <2>2. /\ RowsOf(user[c]) \subseteq offline
        /\ \A t \in RowsOf(user[c]) : to[t] = user[c]
        /\ rows \subseteq RowsOf(user[c])
    BY <2>1 DEF Fetched, RowsOf
  <2>3. /\ pc[c] = "offlineQuery" /\ UNCHANGED user
        /\ pc'[c] \in {"offlineDrop", "ack"}
        /\ \A d \in Conns \ {c} : pc'[d] = pc[d]
    BY <2>1 DEF LoginQueryOffline, IInv, TypeOK
  <2>4. DeliveryTypeOK'
    BY <2>1, <2>2 DEF DeliveryTypeOK
  <2>5. Chatting'
    BY <2>1, <2>3 DEF Chatting, IInv, TypeOK
  <2>6. Unsent' /\ OnItsWay'
    BY <2>1, <2>2 DEF Unsent, OnItsWay, Fresh, DeliveryTypeOK
  <2>7. Collected'
    BY <2>1, <2>2, <2>3 DEF Collected, DeliveryTypeOK, IInv, TypeOK
  <2> QED BY <2>4, <2>5, <2>6, <2>7
<1>3. CASE DropOffline(c)
  <2>1. /\ pc[c] = "offlineDrop" /\ pc' = [pc EXCEPT ![c] = "ack"]
        /\ offline' \subseteq offline
        /\ UNCHANGED <<user, peer, to, chat, text, vec, pushed, copies, missed>>
    BY <1>3 DEF DropOffline, LoginDropOffline
  <2>2. DeliveryTypeOK'
    BY <2>1 DEF DeliveryTypeOK
  <2>3. Chatting' /\ Collected'
    BY <2>1 DEF Chatting, Collected, IInv, TypeOK
  <2>4. Unsent' /\ OnItsWay'
    BY <2>1 DEF Unsent, OnItsWay, Fresh
  <2> QED BY <2>2, <2>3, <2>4
<1>4. CASE Ack(c)
  <2>1. /\ pc[c] = "ack" /\ pc' = [pc EXCEPT ![c] = "idle"]
        /\ user' = [user EXCEPT ![c] = NoUser]
        /\ vec' = [vec EXCEPT ![c] = {}]
        /\ UNCHANGED <<peer, to, chat, text, offline, pushed, missed>>
    BY <1>4 DEF Ack, LoginAck
  <2>2. /\ copies' \in [Texts -> 0 .. 2]
        /\ \A t \in Texts : copies'[t] # copies[t] => t \in vec[c]
    BY <1>4, Written DEF Ack
  <2>3. DeliveryTypeOK'
    BY <2>1, <2>2 DEF DeliveryTypeOK
  <2>4. Chatting' /\ Collected'
    BY <2>1 DEF Chatting, Collected, DeliveryTypeOK, IInv, TypeOK
  <2>5. Unsent' /\ OnItsWay'
    BY <2>1, <2>2 DEF Unsent, OnItsWay, Fresh, DeliveryTypeOK
  <2> QED BY <2>3, <2>4, <2>5
<1> QED BY <1>1, <1>2, <1>3, <1>4

\* A process ends: what it was handling is nowhere.
LEMMA DiePlaces ==
  ASSUME Places, IInv, NEW s \in Servers, DieWithMessages(s)
  PROVE  Places'
<1> USE DEF Places, DieWithMessages
<1>1. \A c \in Conns : at[c] # s => UNCHANGED <<pc[c], user[c]>>
  BY DEF Die
<1>2. DeliveryTypeOK'
  BY DEF DeliveryTypeOK
<1>3. Chatting'
  BY <1>1 DEF Chatting
<1>4. Unsent'
  BY DeliveryAssumption DEF Unsent, DeliveryTypeOK
<1>5. OnItsWay'
  BY DeliveryAssumption DEF OnItsWay, Fresh, DeliveryTypeOK
<1>6. Collected'
  BY <1>1 DEF Collected
<1> QED BY <1>2, <1>3, <1>4, <1>5, <1>6

\* The observer reads what Redis pushed, or it is gone with the context.
LEMMA PushedPlaces ==
  ASSUME Places, pushed' \in [Servers -> SUBSET Texts],
         \A s \in Servers : pushed'[s] \subseteq pushed[s],
         UNCHANGED <<connVars, peer, to, chat, text, offline, vec, copies, missed>>
  PROVE  Places'
<1> USE DEF Places, connVars
<1>1. DeliveryTypeOK'
  BY DEF DeliveryTypeOK
<1>2. Chatting' /\ Collected'
  BY DEF Chatting, Collected
<1>3. Unsent' /\ OnItsWay'
  BY DEF Unsent, OnItsWay, Fresh
<1> QED BY <1>1, <1>2, <1>3

\* The steps of a connection without a message take place outside oneChat
\* and outside the last steps of login.
LEMMA ConnStepApart ==
  ASSUME Places, IInv, NEW c \in Conns, ConnStep(c), NEW d \in Conns
  PROVE  /\ chat[d] # "none" => pc'[d] = pc[d]
         /\ \/ pc[d] \in {"offlineQuery", "offlineDrop", "ack"}
            \/ pc'[d] \in {"offlineQuery", "offlineDrop", "ack"}
            => pc'[d] = pc[d] /\ user'[d] = user[d]
<1> USE DEF ConnStep, Places, Chatting, IInv, TypeOK, Goto
<1>1. CASE \E s \in Servers : Connect(c, s)
  BY <1>1 DEF Connect
<1>2. CASE /\ chat[c] = "none"
           /\ \/ LoginDenied(c)
              \/ \E u \in Users : LoginRefused(c, u)
              \/ \E u \in Typed : LoginAccepted(c, u)
  BY <1>2 DEF LoginDenied, LoginRefused, LoginAccepted
<1>3. CASE LoginInsert(c) \/ LoginSubscribe(c) \/ LoginSubscribed(c)
  BY <1>3 DEF LoginInsert, LoginSubscribe, LoginSubscribed
<1>4. CASE chat[c] = "none" /\ CloseErase(c)
  BY <1>4 DEF CloseErase
<1>5. CASE CloseStep(c)
  BY <1>5 DEF CloseStep, CloseUnsubscribe, CloseUnsubscribed, CloseSetOffline
<1> QED BY <1>1, <1>2, <1>3, <1>4, <1>5

LEMMA PlacesNext == Places /\ IInv /\ [DeliveryNext]_allVars => Places'
<1> SUFFICES ASSUME Places, IInv, [DeliveryNext]_allVars PROVE Places'
  OBVIOUS
<1>1. ASSUME NEW c \in Conns, NEW t \in Texts, NEW u \in Users,
             OneChatForward(c, t, u)
      PROVE  Places'
  <2>1. userConnMap[at[c]][u] \in Conns
    BY <1>1 DEF OneChatForward, IInv, TypeOK, Placed, Ids
  <2> QED BY <1>1, <2>1, ForwardPlaces
<1>2. ASSUME NEW c \in Conns, PeerGone(c) PROVE Places'
  <2>1. peer' \in [Conns -> BOOLEAN]
    BY <1>2 DEF PeerGone, Places, DeliveryTypeOK
  <2> QED BY <1>2, <2>1, PlacesFrame DEF PeerGone, vars
<1>3. ASSUME NEW c \in Conns, ConnStep(c) PROVE Places'
  <2>1. peer' \in [Conns -> BOOLEAN] /\ UNCHANGED chatVars
    BY <1>3 DEF ConnStep, Places, DeliveryTypeOK
  <2> QED BY <1>3, <2>1, ConnStepApart, PlacesFrame
<1>4. ASSUME NEW s \in Servers, ServerStep(s) \/ ChatCrash(s) \/ ObserverMessage(s)
      PROVE  Places'
  <2>1. CASE DieWithMessages(s)
    BY <2>1, DiePlaces
  <2>2. CASE /\ RedisApply(s) \/ ObserverConfirm(s) \/ SigintReset(s) \/ Restart(s)
             /\ UNCHANGED <<peer, chatVars>>
    <3>1. UNCHANGED connVars
      BY <2>2 DEF RedisApply, ObserverConfirm, SigintReset, Restart
    <3>2. peer' \in [Conns -> BOOLEAN]
      BY <2>2 DEF Places, DeliveryTypeOK
    <3> QED BY <2>2, <3>1, <3>2, PlacesFrame DEF connVars
  <2>3. CASE /\ ContextBreaks(s)
             /\ pushed' = [pushed EXCEPT ![s] = {}]
             /\ UNCHANGED <<peer, to, chat, text, offline, vec, copies, missed>>
    BY <2>3, PushedPlaces DEF ContextBreaks, Places, DeliveryTypeOK
  <2>4. ASSUME NEW t \in pushed[s], pushed' = [pushed EXCEPT ![s] = @ \ {t}],
               ObserverFlush(s) \/ UNCHANGED vars,
               UNCHANGED <<peer, to, chat, text, offline, vec, copies, missed>>
        PROVE  Places'
    BY <2>4, PushedPlaces DEF Places, DeliveryTypeOK, ObserverFlush, vars, connVars
  <2> QED BY <1>4, <2>1, <2>2, <2>3, <2>4
          DEF ServerStep, ChatCrash, ObserverMessage
<1>5. CASE UNCHANGED allVars
  <2>1. peer' \in [Conns -> BOOLEAN]
    BY <1>5 DEF allVars, Places, DeliveryTypeOK
  <2> QED BY <1>5, <2>1, PlacesFrame DEF allVars, vars
<1> QED BY <1>1, <1>2, <1>3, <1>4, <1>5, MissPlaces, OneChatPlaces, LoginPlaces
        DEF DeliveryNext

LEMMA PlacesInvariance == DeliverySpec => []Places
  BY PlacesInit, PlacesNext, SessionInvariance, PTL DEF DeliverySpec

\* Every variable of Delivery keeps to its type.
THEOREM DeliveryTypeCorrect == DeliverySpec => []DeliveryTypeOK
<1>1. Places => DeliveryTypeOK
  BY DEF Places
<1> QED BY <1>1, PlacesInvariance, PTL

-----------------------------------------------------------------------------
(* Whom a message reaches, and which rows login drops.                     *)

LEMMA DeafNext == IInv /\ Deaf /\ [DeliveryNext]_allVars => Deaf'
<1> SUFFICES ASSUME IInv, Deaf, [DeliveryNext]_allVars,
                    NEW c \in Conns, pc'[c] \in CloseSteps \cup {"closed"}, peer'[c],
                    NEW s \in Servers, NEW u \in Users
             PROVE  userConnMap'[s][u] # c
  BY DEF Deaf
<1> USE DEF IInv, TypeOK
<1>1. ASSUME pc[c] \in CloseSteps \cup {"closed"}, peer[c],
             userConnMap'[s][u] = c => userConnMap[s][u] = c
      PROVE  userConnMap'[s][u] # c
  BY <1>1 DEF Deaf
<1>2. ASSUME NEW d \in Conns, ConnStep(d) PROVE userConnMap'[s][u] # c
  <2> USE DEF Goto, CloseSteps
  <2>1. CASE UNCHANGED userConnMap /\ ~ (~ peer[d] /\ CloseErase(d))
    <3>1. pc[c] \in CloseSteps \cup {"closed"}
      BY <1>2, <2>1 DEF ConnStep, Connect, LoginDenied, LoginRefused,
           LoginAccepted, LoginInsert, LoginSubscribe, LoginSubscribed,
           CloseStep, CloseUnsubscribe, CloseUnsubscribed, CloseSetOffline
    <3> QED BY <1>1, <1>2, <2>1, <3>1 DEF ConnStep
  <2>2. CASE LoginInsert(d)
    <3>1. /\ pc[c] \in CloseSteps \cup {"closed"} /\ c # d
          /\ userConnMap'[s][u] = c => userConnMap[s][u] = c
      BY <2>2 DEF LoginInsert
    <3> QED BY <1>1, <1>2, <3>1 DEF ConnStep
  <2>3. CASE ~ peer[d] /\ CloseErase(d)
    <3>1. c # d
      BY <1>2, <2>3 DEF ConnStep
    <3>2. pc[c] \in CloseSteps \cup {"closed"}
      BY <2>3, <3>1 DEF CloseErase
    <3>3. \/ UNCHANGED userConnMap
          \/ \E v \in Ids :
               userConnMap' = [userConnMap EXCEPT ![at[d]][v] = NoConn]
      BY <2>3 DEF CloseErase, Mapped
    <3>4. ASSUME NEW v \in Ids, userConnMap'[s][u] = c,
                 userConnMap' = [userConnMap EXCEPT ![at[d]][v] = NoConn]
          PROVE  userConnMap[s][u] = c
      <4>1. userConnMap'[s] \in {userConnMap[s], [userConnMap[s] EXCEPT ![v] = NoConn]}
        BY <3>4
      <4>2. u \in Ids /\ userConnMap[s] \in [Ids -> Conns \cup {NoConn}]
        BY DEF Ids
      <4> QED BY <3>4, <4>1, <4>2, SessionAssumption
    <3> QED BY <1>1, <1>2, <3>2, <3>3, <3>4 DEF ConnStep
  <2> QED BY <1>2, <2>1, <2>2, <2>3
          DEF ConnStep, Connect, LoginDenied, LoginRefused, LoginAccepted,
              LoginSubscribe, LoginSubscribed, CloseStep, CloseUnsubscribe,
              CloseUnsubscribed, CloseSetOffline, redisVars, dbVars
<1>3. ASSUME NEW r \in Servers, DieWithMessages(r)
      PROVE  userConnMap'[s][u] # c
  <2>1. userConnMap' = [userConnMap EXCEPT ![r] = [v \in Ids |-> NoConn]]
        /\ peer' = peer /\ (at[c] # r => pc'[c] = pc[c])
    BY <1>3 DEF DieWithMessages, Die
  <2>2. userConnMap'[s][u] = c => userConnMap[s][u] = c /\ s # r
    BY <2>1, SessionAssumption DEF Ids
  <2>3. userConnMap[s][u] = c => at[c] = s
    BY DEF Local
  <2> QED BY <1>1, <2>1, <2>2, <2>3
<1>4. CASE UNCHANGED <<pc, userConnMap>> /\ (peer'[c] => peer[c])
  BY <1>1, <1>4
<1>5. ASSUME NEW d \in Conns,
             SetOnline(d) \/ QueryOffline(d) \/ DropOffline(d) \/ Ack(d)
      PROVE  userConnMap'[s][u] # c
  <2>1. /\ pc[c] \in CloseSteps \cup {"closed"}
        /\ UNCHANGED <<userConnMap, peer>>
    BY <1>5 DEF SetOnline, QueryOffline, DropOffline, Ack, LoginSetOnline,
         LoginQueryOffline, LoginDropOffline, LoginAck, Goto, CloseSteps
  <2> QED BY <1>1, <2>1
<1>6. ASSUME NEW d \in Conns, PeerGone(d) PROVE userConnMap'[s][u] # c
  <2>1. peer'[c] => peer[c]
    BY <1>6 DEF PeerGone
  <2> QED BY <1>4, <1>6, <2>1 DEF PeerGone, vars
<1>7. ASSUME NEW r \in Servers, ~ DieWithMessages(r),
             ServerStep(r) \/ ChatCrash(r) \/ ObserverMessage(r)
      PROVE  UNCHANGED <<pc, userConnMap, peer>>
  BY <1>7 DEF ServerStep, ChatCrash, ObserverMessage, RedisApply,
       ObserverConfirm, ObserverFlush, SigintReset, Restart, ContextBreaks,
       vars, connVars
<1>8. \/ UNCHANGED <<pc, userConnMap, peer>>
      \/ \E d \in Conns : ConnStep(d) \/ PeerGone(d)
      \/ \E d \in Conns : SetOnline(d) \/ QueryOffline(d) \/ DropOffline(d) \/ Ack(d)
      \/ \E r \in Servers : ServerStep(r) \/ ChatCrash(r) \/ ObserverMessage(r)
  BY DEF DeliveryNext, OneChatForward, OneChatMiss, OneChatStep, OneChatQuery,
       OneChatPublish, OneChatStore, allVars, vars
<1> QED BY <1>2, <1>3, <1>4, <1>5, <1>6, <1>7, <1>8

LEMMA DeafInvariance == DeliverySpec => []Deaf
<1>1. DeliveryInit => Deaf
  BY DEF DeliveryInit, Init, Deaf, CloseSteps
<1> QED BY <1>1, DeafNext, SessionInvariance, PTL DEF DeliverySpec

\* A message is delivered by oneChat or by the acknowledgement of a login,
\* on an open connection that has its addressee.
LEMMA DeliveredTo ==
  ASSUME IInv, Places, Deaf, DeliveryNext,
         NEW t \in Texts, copies'[t] # copies[t]
  PROVE  \E c \in Conns : peer[c] /\ Holds(c, to'[t]) /\ Reaches(c, t)
<1> USE DEF IInv, TypeOK
<1>1. ASSUME NEW d \in Conns, NEW x \in Texts, NEW u \in Users,
             OneChatForward(d, x, u)
      PROVE  \E c \in Conns : peer[c] /\ Holds(c, to'[t]) /\ Reaches(c, t)
  <2>1. at[d] \in Servers /\ userConnMap[at[d]][u] \in Conns
    BY <1>1 DEF OneChatForward, Placed, Ids
  <2>2. PICK c \in Conns : userConnMap[at[d]][u] = c
    BY <2>1
  <2>3. x = t /\ peer[c]
    BY <1>1, <2>2, Written DEF OneChatForward, Places
  <2>4. to'[t] = u
    BY <1>1, <2>3 DEF OneChatForward, Places, DeliveryTypeOK
  <2>5. at[c] = at[d]
    <3>1. Local
      OBVIOUS
    <3>2. \A s \in Servers : userConnMap[s][u] = c => at[c] = s
      BY <3>1 DEF Local
    <3> QED BY <2>1, <2>2, <3>2
  <2>6. Holds(c, u)
    BY <2>1, <2>2, <2>3, <2>5, SessionAssumption DEF Holds, Traces, Deaf, Ids
  <2>7. Reaches(c, t)
    BY <1>1, <2>2, <2>3, <2>4 DEF Reaches
  <2> QED BY <2>3, <2>4, <2>6, <2>7
<1>2. ASSUME NEW c \in Conns, Ack(c)
      PROVE  \E d \in Conns : peer[d] /\ Holds(d, to'[t]) /\ Reaches(d, t)
  <2>1. t \in vec[c] /\ peer[c]
    BY <1>2, Written DEF Ack, Places
  <2>2. Holds(c, to'[t])
    BY <1>2, <2>1 DEF Ack, LoginAck, Goto, Places, Collected, Holds, Traces,
                      LoginSteps
  <2> QED BY <1>2, <2>1, <2>2 DEF Reaches
<1>3. CASE UNCHANGED copies
  BY <1>3
<1>4. \/ UNCHANGED copies
      \/ \E c \in Conns : Ack(c)
      \/ \E c \in Conns, x \in Texts, u \in Users : OneChatForward(c, x, u)
  BY DEF DeliveryNext, OneChatMiss, OneChatStep, OneChatQuery, OneChatPublish,
         OneChatStore, PeerGone, ConnStep, SetOnline, QueryOffline,
         DropOffline, ServerStep, ChatCrash, ObserverMessage,
         DieWithMessages, chatVars
<1> QED BY <1>1, <1>2, <1>3, <1>4

\* A message reaches nobody but its addressee.
THEOREM ReachesItsAddressee == DeliverySpec => OnlyAddressee
<1>1. IInv /\ Places /\ Deaf /\ [DeliveryNext]_allVars =>
        [\A t \in Texts : copies'[t] # copies[t] =>
           \E c \in Conns : peer[c] /\ Holds(c, to'[t]) /\ Reaches(c, t)]_allVars
  BY DeliveredTo
<1> QED BY <1>1, SessionInvariance, PlacesInvariance, DeafInvariance, PTL
        DEF DeliverySpec, OnlyAddressee

-----------------------------------------------------------------------------

\* contested forgets only users without a trace.
LEMMA ContestedKept ==
  ASSUME [AnyStep]_vars
  PROVE  \A u \in contested \ contested' : ~ Traced(u)'
<1>1. ASSUME Contest({}) PROVE \A u \in contested \ contested' : ~ Traced(u)'
  BY <1>1 DEF Contest
<1>2. ASSUME NEW s \in Servers, SigintReset(s)
      PROVE  \A u \in contested \ contested' : ~ Traced(u)'
  BY <1>2 DEF SigintReset, Contest
<1>3. \/ contested \subseteq contested' \/ Contest({})
      \/ \E s \in Servers : SigintReset(s)
  BY DEF AnyStep, Next, vars, Connect, LoginDenied, LoginRefused,
         LoginAccepted, LoginStep, LoginInsert, LoginSubscribe,
         LoginSubscribed, LoginSetOnline, LoginQueryOffline, LoginDropOffline,
         LoginAck, CloseErase, CloseStep, CloseUnsubscribe, CloseUnsubscribed,
         CloseSetOffline, RedisApply, ObserverConfirm, ObserverFlush,
         ContextBreaks, SigintExit, Kill, TornCrash, Restart, Die
<1> QED BY <1>1, <1>2, <1>3

\* A step keeps Rows if it adds neither rows, nor messages to store, nor
\* copies, and takes no login into its last steps.
LEMMA RowsFrame ==
  ASSUME Places, Places', IInv, Rows, [AnyStep]_vars,
         UNCHANGED <<to, offline, copies, missed>>,
         \A c \in Conns :
           /\ chat'[c] = "store" => chat[c] = "store" /\ text'[c] = text[c]
           /\ pc'[c] \in {"offlineQuery", "offlineDrop", "ack"} =>
                pc'[c] = pc[c] /\ user'[c] = user[c] /\ vec'[c] = vec[c]
  PROVE  Rows'
<1>1. \A c \in Conns :
        /\ pc'[c] \in {"offlineQuery", "offlineDrop", "ack"}
        /\ user[c] \in contested
        => user[c] \in contested'
  BY ContestedKept DEF IInv, TypeOK, Traced, Traces, LoginSteps
<1>2. Late'
  BY <1>1 DEF Rows, Late
<1>3. Read'
  BY <1>1 DEF Rows, Read, RowsOf
<1>4. Dropped'
  BY DEF Rows, Dropped
<1>5. Single'
  BY <1>1 DEF Rows, Single, Places, Collected
<1> QED BY <1>2, <1>3, <1>4, <1>5 DEF Rows

LEMMA OneChatRows ==
  ASSUME ~ DbMayFail, Places, IInv, Rows, NEW c \in Conns, OneChatStep(c)
  PROVE  Rows'
<1> USE DEF Places, Rows, ChatGoto
<1>1. chat[c] # "none" /\ text[c] \in Texts /\ Fresh(text[c])
      /\ to[text[c]] \in Users
  BY DEF OneChatStep, OneChatQuery, OneChatPublish, OneChatStore, Chatting,
         DeliveryTypeOK, OnItsWay, Unsent
<1>2. CASE OneChatQuery(c)
  <2>1. /\ UNCHANGED <<vars, peer, to, offline, vec, pushed, copies, missed>>
        /\ text' = text
        /\ chat'[c] = "store" => userState[to[text[c]]] = "offline"
        /\ \A d \in Conns \ {c} : chat'[d] = chat[d]
    BY <1>2 DEF OneChatQuery, DeliveryTypeOK
  <2>2. Read' /\ Dropped' /\ Single'
    BY <2>1 DEF Read, Dropped, Single, RowsOf, vars
  <2>3. ASSUME NEW e \in Conns, pc[e] \in {"offlineQuery", "offlineDrop", "ack"},
               user[e] \in Users, userState[user[e]] = "offline"
        PROVE  user[e] \in contested
    <3>1. Traces(e, user[e]) /\ ~ InWindow(e, user[e])
      BY <2>3 DEF Traces, InWindow, LoginSteps, LoginWindow
    <3> QED BY <2>3, <3>1 DEF IInv, OfflineMeansGone
  <2>4. Late'
    BY <1>1, <2>1, <2>3 DEF Late, vars
  <2> QED BY <2>2, <2>4
<1>3. CASE OneChatPublish(c)
  <2>1. /\ UNCHANGED <<vars, peer, to, offline, vec, copies, missed>>
        /\ chat'[c] = "none"
        /\ \A d \in Conns \ {c} : chat'[d] = chat[d] /\ text'[d] = text[d]
    BY <1>3 DEF OneChatPublish, DeliveryTypeOK
  <2>2. Read' /\ Dropped' /\ Single'
    BY <2>1 DEF Read, Dropped, Single, RowsOf, vars
  <2>3. Late'
    BY <2>1 DEF Late, vars
  <2> QED BY <2>2, <2>3
<1>4. CASE OneChatStore(c)
  <2>1. /\ UNCHANGED <<vars, peer, to, vec, pushed, copies, missed>>
        /\ chat[c] = "store" /\ chat'[c] = "none"
        /\ \A d \in Conns \ {c} : chat'[d] = chat[d] /\ text'[d] = text[d]
        /\ offline' \in {offline, offline \cup {text[c]}}
    BY <1>4 DEF OneChatStore, DeliveryTypeOK
  <2>2. Late'
    BY <2>1 DEF Late, vars
  <2>3. Read'
    BY <1>1, <2>1 DEF Read, Late, RowsOf, vars
  <2>4. Dropped'
    BY <1>1, <2>1 DEF Dropped, Fresh, vars
  <2>5. Single'
    BY <2>1 DEF Single, vars
  <2> QED BY <2>2, <2>3, <2>4, <2>5
<1> QED BY <1>2, <1>3, <1>4 DEF OneChatStep

LEMMA LoginRows ==
  ASSUME Places, Places', IInv, Rows, NEW c \in Conns,
         SetOnline(c) \/ QueryOffline(c) \/ DropOffline(c) \/ Ack(c),
         ~ DbMayFail
  PROVE  Rows'
<1> USE DEF Rows, Goto
<1>1. CASE SetOnline(c)
  <2>1. /\ pc' = [pc EXCEPT ![c] = "offlineQuery"]
        /\ contested' = contested
        /\ UNCHANGED <<user, to, chat, text, offline, vec, copies>>
        /\ missed \subseteq missed'
        /\ \A d \in Conns : chat[d] = "store" /\ to[text[d]] = user[c] =>
             text[d] \in missed'
    BY <1>1 DEF SetOnline, LoginSetOnline
  <2>2. \A d \in Conns \ {c} : pc'[d] = pc[d]
    BY <2>1
  <2>3. pc'[c] = "offlineQuery"
    BY <2>1 DEF IInv, TypeOK
  <2>4. Late'
    BY <2>1, <2>2, <2>3 DEF Late
  <2>5. Read'
    BY <2>1, <2>2, <2>3 DEF Read, RowsOf
  <2>6. Dropped' /\ Single'
    BY <2>1, <2>2, <2>3 DEF Dropped, Single
  <2> QED BY <2>4, <2>5, <2>6
<1>2. CASE QueryOffline(c)
  <2>1. PICK rows \in Fetched(RowsOf(user[c])), found \in BOOLEAN :
          /\ rows # {} => found
          /\ LoginQueryOffline(c, found)
          /\ vec' = [vec EXCEPT ![c] = rows]
          /\ missed' = missed \cup (RowsOf(user[c]) \ rows)
          /\ UNCHANGED <<peer, to, chat, text, offline, pushed, copies>>
    BY <1>2 DEF QueryOffline
  <2>2. RowsOf(user[c]) \subseteq offline /\ rows \subseteq offline
    BY <2>1 DEF Fetched, RowsOf
  <2>3. /\ pc[c] = "offlineQuery" /\ UNCHANGED <<user, contested>>
        /\ pc'[c] \in {"offlineDrop", "ack"} /\ (pc'[c] = "ack" => rows = {})
        /\ vec'[c] = rows
        /\ \A d \in Conns \ {c} : pc'[d] = pc[d] /\ vec'[d] = vec[d]
    BY <2>1 DEF LoginQueryOffline, IInv, TypeOK, Places, DeliveryTypeOK
  <2>4. Late'
    BY <2>1, <2>3 DEF Late
  <2>5. Read'
    BY <2>1, <2>3 DEF Read, RowsOf
  <2>6. Dropped' /\ Single'
    BY <2>1, <2>2, <2>3 DEF Dropped, Single, Places, DeliveryTypeOK
  <2> QED BY <2>4, <2>5, <2>6
<1>3. CASE DropOffline(c)
  <2>1. /\ pc[c] = "offlineDrop" /\ pc' = [pc EXCEPT ![c] = "ack"]
        /\ offline' = offline \ RowsOf(user[c])
        /\ UNCHANGED <<user, contested, to, chat, text, vec, copies, missed>>
    BY <1>3 DEF DropOffline, LoginDropOffline
  <2>2. /\ pc'[c] = "ack" /\ \A d \in Conns \ {c} : pc'[d] = pc[d]
        /\ RowsOf(user[c]) = {t \in offline : to[t] = user[c]}
    BY <2>1 DEF IInv, TypeOK, RowsOf
  <2>3. Late'
    BY <2>1, <2>2 DEF Late
  <2>4. Read'
    BY <2>1, <2>2 DEF Read, RowsOf
  <2>5. Dropped'
    BY <2>1, <2>2 DEF Dropped, Places, Collected
  <2>6. Single'
    BY <2>1 DEF Single
  <2> QED BY <2>3, <2>4, <2>5, <2>6
<1>4. CASE Ack(c)
  <2>1. /\ pc[c] = "ack" /\ vec' = [vec EXCEPT ![c] = {}]
        /\ pc'[c] = "idle" /\ \A d \in Conns \ {c} : pc'[d] = pc[d]
        /\ \A d \in Conns \ {c} : user'[d] = user[d]
        /\ UNCHANGED <<contested, to, chat, text, offline, missed>>
    BY <1>4 DEF Ack, LoginAck, IInv, TypeOK
  <2>2. /\ vec'[c] = {} /\ \A d \in Conns \ {c} : vec'[d] = vec[d]
        /\ \A t \in Texts : copies'[t] # copies[t] => t \in vec[c]
    BY <1>4, <2>1, Written DEF Ack, Places, DeliveryTypeOK
  <2>3. Late'
    BY <2>1, <2>2 DEF Late
  <2>4. Read'
    BY <2>1, <2>2 DEF Read, RowsOf
  <2>5. Dropped'
    BY <2>1, <2>2 DEF Dropped, Places, DeliveryTypeOK
  <2>6. ASSUME NEW d \in Conns \ {c}, NEW t \in vec[d], t \in vec[c]
        PROVE  to[t] \in contested
    <3>1. Traces(c, to[t]) /\ Traces(d, to[t]) /\ to[t] \in Users
      BY <2>6 DEF Places, Collected, Traces, LoginSteps, Unsent, DeliveryTypeOK
    <3> QED BY <3>1, <2>6 DEF IInv, SingleSession
  <2>7. Single'
    BY <2>1, <2>2, <2>6 DEF Single, Places, DeliveryTypeOK
  <2> QED BY <2>3, <2>4, <2>5, <2>7
<1> QED BY <1>1, <1>2, <1>3, <1>4

LEMMA RowsNext ==
  ASSUME ~ DbMayFail, Places, Places', IInv, Rows, [DeliveryNext]_allVars
  PROVE  Rows'
<1>1. ASSUME NEW c \in Conns, NEW t \in Texts, NEW u \in Users,
             OneChatForward(c, t, u)
      PROVE  Rows'
  <2>1. userConnMap[at[c]][u] \in Conns
    BY <1>1 DEF OneChatForward, IInv, TypeOK, Placed, Ids
  <2>2. /\ to' = [to EXCEPT ![t] = u] /\ to[t] = NoUser
        /\ \A x \in Texts \ {t} : copies'[x] = copies[x]
        /\ UNCHANGED <<vars, chat, text, offline, vec, missed>>
    BY <1>1, <2>1, Written DEF OneChatForward, Places
  <2>3. /\ t \notin offline /\ \A d \in Conns : text[d] # t /\ t \notin vec[d]
        /\ \A x \in Texts \ {t} : to'[x] = to[x]
    BY <2>2 DEF Places, Unsent, DeliveryTypeOK
  <2>4. \A d \in Conns : chat[d] = "store" => text[d] \in Texts
    BY DEF Places, Chatting, DeliveryTypeOK
  <2>5. Late'
    BY <2>2, <2>3, <2>4 DEF Rows, Late, vars
  <2>6. Read'
    BY <2>2, <2>3 DEF Rows, Read, RowsOf, vars, Places, DeliveryTypeOK
  <2>7. Dropped' /\ Single'
    BY <2>2, <2>3 DEF Rows, Dropped, Single, vars, Places, DeliveryTypeOK
  <2> QED BY <2>5, <2>6, <2>7 DEF Rows
<1>2. ASSUME NEW c \in Conns, NEW t \in Texts, NEW u \in Users,
             OneChatMiss(c, t, u)
      PROVE  Rows'
  <2>1. /\ to' = [to EXCEPT ![t] = u] /\ to[t] = NoUser
        /\ UNCHANGED <<vars, offline, vec, missed, copies>>
        /\ chat'[c] = "query"
        /\ \A d \in Conns \ {c} : chat'[d] = chat[d] /\ text'[d] = text[d]
    BY <1>2 DEF OneChatMiss, ChatGoto, Places, DeliveryTypeOK
  <2>2. /\ t \notin offline /\ \A d \in Conns : text[d] # t /\ t \notin vec[d]
        /\ \A x \in Texts \ {t} : to'[x] = to[x]
    BY <2>1 DEF Places, Unsent, DeliveryTypeOK
  <2>3. \A d \in Conns : chat[d] = "store" => text[d] \in Texts
    BY DEF Places, Chatting, DeliveryTypeOK
  <2>4. Late'
    BY <2>1, <2>2, <2>3 DEF Rows, Late, vars
  <2>5. Read'
    BY <2>1, <2>2 DEF Rows, Read, RowsOf, vars, Places, DeliveryTypeOK
  <2>6. Dropped' /\ Single'
    BY <2>1, <2>2 DEF Rows, Dropped, Single, vars, Places, DeliveryTypeOK
  <2> QED BY <2>4, <2>5, <2>6 DEF Rows
<1>3. [AnyStep]_vars
  BY SessionStep
<1>4. ASSUME NEW c \in Conns, ConnStep(c) PROVE Rows'
  <2>1. UNCHANGED chatVars
    BY <1>4 DEF ConnStep
  <2> QED BY <1>3, <1>4, <2>1, ConnStepApart, RowsFrame DEF chatVars
<1>5. ASSUME NEW s \in Servers, DieWithMessages(s) PROVE Rows'
  <2>1. \A c \in Conns : at[c] # s => UNCHANGED <<pc[c], user[c]>>
    BY <1>5 DEF DieWithMessages, Die
  <2>2. \A c \in Conns : at[c] = s => pc'[c] = "closed"
    BY <1>5 DEF DieWithMessages, Die
  <2> QED BY <1>3, <1>5, <2>1, <2>2, RowsFrame DEF DieWithMessages
<1>6. ASSUME UNCHANGED connVars,
             UNCHANGED <<to, chat, text, offline, vec, copies, missed>>
      PROVE  Rows'
  BY <1>3, <1>6, RowsFrame DEF connVars
<1>7. ASSUME NEW c \in Conns, PeerGone(c) PROVE Rows'
  BY <1>6, <1>7 DEF PeerGone, vars, connVars, chatVars
<1>8. ASSUME NEW s \in Servers, ~ DieWithMessages(s),
             ServerStep(s) \/ ChatCrash(s) \/ ObserverMessage(s)
      PROVE  Rows'
  <2>1. UNCHANGED <<to, chat, text, offline, vec, copies, missed>>
    BY <1>8 DEF ServerStep, ChatCrash, ObserverMessage, chatVars
  <2>2. UNCHANGED connVars
    <3>1. CASE ServerStep(s)
      BY <1>8, <3>1 DEF ServerStep, RedisApply, ObserverConfirm, SigintReset,
                        Restart, ContextBreaks
    <3>2. CASE ObserverFlush(s) \/ UNCHANGED vars
      BY <3>2 DEF ObserverFlush, vars, connVars
    <3> QED BY <1>8, <3>1, <3>2 DEF ChatCrash, ObserverMessage
  <2> QED BY <1>6, <2>1, <2>2
<1>9. CASE UNCHANGED allVars
  BY <1>6, <1>9 DEF allVars, vars, connVars, chatVars
<1> QED
  BY <1>1, <1>2, <1>4, <1>5, <1>7, <1>8, <1>9, OneChatRows, LoginRows
     DEF DeliveryNext

\* Rows is inductive if no statement fails: then login drops what it read,
\* and oneChat reads the state that was written.
LEMMA RowsInvariance == DeliverySpec => [](DbMayFail \/ Rows)
<1>1. DeliveryInit => Rows
  BY DEF DeliveryInit, Init, Rows, Late, Read, Dropped, Single
<1>2. Places /\ Places' /\ IInv /\ (DbMayFail \/ Rows) /\ [DeliveryNext]_allVars
        => (DbMayFail \/ Rows)'
  BY RowsNext
<1> QED BY <1>1, <1>2, PlacesInvariance, SessionInvariance, PTL DEF DeliverySpec

\* Unless a statement fails, a message comes twice only to a user whose
\* logins overlapped.
THEOREM NothingComesTwice ==
  ASSUME ~ DbMayFail
  PROVE  DeliverySpec => NoDuplicate
<1>1. ASSUME IInv, Places, Deaf, Rows, DeliveryNext,
             NEW t \in Texts, copies'[t] = 2, copies[t] = 1
      PROVE  to[t] \in contested
  <2>1. PICK c \in Conns : Reaches(c, t)
    BY <1>1, DeliveredTo
  <2>2. ASSUME NEW d \in Conns, OneChatForward(d, t, to'[t]) PROVE FALSE
    BY <1>1, <2>2 DEF OneChatForward, Places, Unsent
  <2>3. t \in vec[c]
    BY <2>1, <2>2 DEF Reaches
  <2> QED BY <1>1, <2>3 DEF Rows, Single
<1>2. IInv /\ Places /\ Deaf /\ (DbMayFail \/ Rows) /\ [DeliveryNext]_allVars =>
        [\A t \in Texts : copies'[t] = 2 /\ copies[t] = 1
           => to[t] \in contested]_allVars
  BY <1>1
<1> QED BY <1>2, SessionInvariance, PlacesInvariance, DeafInvariance,
           RowsInvariance, PTL DEF DeliverySpec, NoDuplicate

\* Unless a statement fails, the rows that login drops are those that it
\* read, but for what a oneChat stored that had read "offline" before.
THEOREM ReadIsDropped ==
  ASSUME ~ DbMayFail
  PROVE  DeliverySpec => OnlyMissedIsDropped
<1>1. ASSUME Places, Rows, DeliveryNext, NEW t \in offline \ offline'
      PROVE  \/ \E c \in Conns : t \in vec[c]
             \/ t \in missed
             \/ to[t] \in contested
  <2>1. PICK c \in Conns : DropOffline(c)
    BY <1>1 DEF DeliveryNext, OneChatForward, OneChatMiss, OneChatStep,
                OneChatQuery, OneChatPublish, OneChatStore, PeerGone, ConnStep,
                SetOnline, QueryOffline, Ack, ServerStep, ChatCrash,
                ObserverMessage, DieWithMessages, chatVars
  <2>2. pc[c] = "offlineDrop" /\ t \in RowsOf(user[c]) /\ to[t] = user[c]
    BY <2>1 DEF DropOffline, LoginDropOffline, Goto, RowsOf
  <2> QED BY <1>1, <2>2 DEF Rows, Read
<1>2. Places /\ (DbMayFail \/ Rows) /\ [DeliveryNext]_allVars =>
        [\A t \in offline \ offline' :
           \/ \E c \in Conns : t \in vec[c]
           \/ t \in missed
           \/ to[t] \in contested]_allVars
  BY <1>1
<1> QED BY <1>2, PlacesInvariance, RowsInvariance, PTL
        DEF DeliverySpec, OnlyMissedIsDropped

-----------------------------------------------------------------------------
(* Delivery implements Mailbox: every step does to each text what a step   *)
(* of Mailbox may do to it.                                                *)

\* What Whereabouts says, now and after a step.
LEMMA WhereIs ==
  ASSUME NEW t \in Texts
  PROVE  /\ Whereabouts(t) =
              IF to[t] = NoUser THEN "unsent"
              ELSE IF copies[t] > 0 THEN "delivered"
              ELSE IF t \in offline THEN "stored"
              ELSE IF \E c \in Conns : t \in vec[c] THEN "collected"
              ELSE IF \E c \in Conns : text[c] = t /\ chat[c] = "publish"
                   THEN "publishing"
              ELSE IF \E c \in Conns : text[c] = t THEN "sending" ELSE "lost"
         /\ Whereabouts(t)' =
              IF to'[t] = NoUser THEN "unsent"
              ELSE IF copies'[t] > 0 THEN "delivered"
              ELSE IF t \in offline' THEN "stored"
              ELSE IF \E c \in Conns : t \in vec'[c] THEN "collected"
              ELSE IF \E c \in Conns : text'[c] = t /\ chat'[c] = "publish"
                   THEN "publishing"
              ELSE IF \E c \in Conns : text'[c] = t THEN "sending" ELSE "lost"
  BY DEF Whereabouts

LEMMA Moves ==
  ASSUME NEW t \in Texts, NEW From, NEW To,
         Whereabouts(t) \in From, Whereabouts(t)' \in To, to'[t] = to[t]
  PROVE  MB!Move(t, From, To)
  BY DEF MB!Move

LEMMA Rests ==
  ASSUME NEW t \in Texts, Whereabouts(t)' = Whereabouts(t), to'[t] = to[t]
  PROVE  MB!TextStep(t)
  BY DEF MB!TextStep, MB!Rest

\* A text stays where it is if what has it does.
LEMMA MailFrame ==
  ASSUME NEW t \in Texts, UNCHANGED copies, to'[t] = to[t],
         t \in offline' <=> t \in offline,
         \A c \in Conns : t \in vec'[c] <=> t \in vec[c],
         \A c \in Conns : text'[c] = t <=> text[c] = t,
         \A c \in Conns : text[c] = t => chat'[c] = chat[c]
  PROVE  MB!TextStep(t)
<1>1. Whereabouts(t)' = Whereabouts(t)
  BY WhereIs
<1> QED BY <1>1, Rests

\* A user with a trace on a connection without a client is cut off.
LEMMA CutOff ==
  ASSUME NEW u \in Users, NEW c \in Conns, Traces(c, u), ~ peer[c]
  PROVE  u \in {v \in Users : \E d \in Conns : Traces(d, v) /\ ~ peer[d]}
  OBVIOUS

\* oneChat begins.
LEMMA ForwardMail ==
  ASSUME Places, IInv, NEW c \in Conns, NEW x \in Texts, NEW u \in Users,
         OneChatForward(c, x, u), NEW t \in Texts
  PROVE  MB!TextStep(t)
<1>1. /\ to' = [to EXCEPT ![x] = u] /\ to[x] = NoUser
      /\ UNCHANGED <<chat, text, offline, vec>>
      /\ Write(userConnMap[at[c]][u], {x})
  BY DEF OneChatForward
<1>2. PICK d \in Conns : userConnMap[at[c]][u] = d /\ at[c] \in Servers
  BY DEF OneChatForward, IInv, TypeOK, Placed, Ids
<1>3. CASE t # x
  <2>1. to'[t] = to[t] /\ copies'[t] = copies[t]
    BY <1>1, <1>2, <1>3, Written DEF Places, DeliveryTypeOK
  <2>2. Whereabouts(t)' = Whereabouts(t)
    BY <1>1, <2>1, WhereIs
  <2> QED BY <2>1, <2>2, Rests
<1>4. CASE t = x
  <2>1. /\ copies[t] = 0 /\ t \notin offline
        /\ \A e \in Conns : text[e] # t /\ t \notin vec[e]
        /\ to'[t] = u /\ u # NoUser
    BY <1>1, <1>4, SessionAssumption DEF Places, Unsent, DeliveryTypeOK
  <2>2. Whereabouts(t) = "unsent"
    BY <1>1, <1>4, WhereIs
  <2>3. CASE peer[d]
    <3>1. copies'[t] > 0
      BY <1>1, <1>2, <1>4, <2>3, Written DEF Places
    <3>2. Whereabouts(t)' = "delivered"
      BY <2>1, <3>1, WhereIs
    <3> QED BY <2>1, <2>2, <3>2 DEF MB!TextStep, MB!Send
  <2>4. CASE ~ peer[d]
    <3>1. copies'[t] = 0
      BY <1>1, <1>2, <2>1, <2>4, Written DEF Places
    <3>2. Whereabouts(t)' = "lost"
      BY <1>1, <2>1, <3>1, WhereIs
    <3>3. at[d] = at[c]
      BY <1>2 DEF IInv, Local
    <3>4. Traces(d, u)
      BY <1>2, <3>3, SessionAssumption DEF Traces
    <3> QED BY <2>1, <2>2, <2>4, <3>2, <3>4, CutOff DEF MB!TextStep, MB!Send
  <2> QED BY <2>3, <2>4
<1> QED BY <1>3, <1>4

LEMMA MissMail ==
  ASSUME Places, NEW c \in Conns, NEW x \in Texts, NEW u \in Users,
         OneChatMiss(c, x, u), NEW t \in Texts
  PROVE  MB!TextStep(t)
<1>1. /\ to' = [to EXCEPT ![x] = u] /\ to[x] = NoUser
      /\ text'[c] = x /\ text[c] = NoText /\ chat'[c] = "query"
      /\ \A d \in Conns \ {c} : text'[d] = text[d] /\ chat'[d] = chat[d]
      /\ UNCHANGED <<offline, vec, copies>>
  BY DEF OneChatMiss, ChatGoto, Places, DeliveryTypeOK, Chatting
<1>2. CASE t # x
  BY <1>1, <1>2, MailFrame, DeliveryAssumption DEF Places, DeliveryTypeOK
<1>3. CASE t = x
  <2>1. /\ copies[t] = 0 /\ t \notin offline
        /\ \A e \in Conns : text[e] # t /\ t \notin vec[e]
        /\ to'[t] = u /\ u # NoUser
    BY <1>1, <1>3, SessionAssumption DEF Places, Unsent, DeliveryTypeOK
  <2>2. Whereabouts(t) = "unsent"
    BY <1>1, <1>3, WhereIs
  <2>3. Whereabouts(t)' = "sending"
    BY <1>1, <1>3, <2>1, WhereIs
  <2> QED BY <2>1, <2>2, <2>3 DEF MB!TextStep, MB!Send
<1> QED BY <1>2, <1>3

\* oneChat goes on: only its own message moves.
LEMMA OneChatMail ==
  ASSUME Places, NEW c \in Conns, OneChatStep(c), NEW t \in Texts
  PROVE  MB!TextStep(t)
<1> USE DEF Places, ChatGoto
<1>1. chat[c] # "none" /\ text[c] \in Texts /\ UNCHANGED <<to, vec, copies>>
  BY DEF OneChatStep, OneChatQuery, OneChatPublish, OneChatStore, Chatting,
         DeliveryTypeOK
<1>2. CASE text[c] # t
  <2>1. t \in offline' <=> t \in offline
    BY <1>2 DEF OneChatStep, OneChatQuery, OneChatPublish, OneChatStore
  <2>2. \A d \in Conns \ {c} : text'[d] = text[d] /\ chat'[d] = chat[d]
    BY DEF OneChatStep, OneChatQuery, OneChatPublish, OneChatStore,
           DeliveryTypeOK
  <2>3. text'[c] # t
    BY <1>2, DeliveryAssumption
       DEF OneChatStep, OneChatQuery, OneChatPublish, OneChatStore,
           DeliveryTypeOK
  <2> QED BY <1>1, <1>2, <2>1, <2>2, <2>3, MailFrame
<1>3. CASE text[c] = t
  <2>1. /\ to[t] \in Users /\ to[t] # NoUser /\ copies[t] = 0 /\ t \notin offline
        /\ \A d \in Conns : t \notin vec[d] /\ (text[d] = t => d = c)
    BY <1>1, <1>3, SessionAssumption
       DEF OnItsWay, Fresh, Unsent, DeliveryTypeOK
  <2>2. /\ chat[c] # "publish" => Whereabouts(t) = "sending"
        /\ chat[c] = "publish" => Whereabouts(t) = "publishing"
    BY <1>3, <2>1, WhereIs
  <2>3. CASE OneChatQuery(c)
    <3>1. /\ chat[c] = "query" /\ text' = text /\ UNCHANGED offline
          /\ chat'[c] \in {"publish", "store"}
          /\ chat'[c] = "publish" => userState[to[t]] = "online"
      BY <1>3, <2>3 DEF OneChatQuery, DeliveryTypeOK
    <3>2. CASE chat'[c] = "publish"
      <4>1. Whereabouts(t)' = "publishing"
        BY <1>1, <1>3, <2>1, <3>1, <3>2, WhereIs
      <4>2. MB!Move(t, {"sending"}, {"publishing"})
        BY <1>1, <2>2, <3>1, <4>1, Moves
      <4> QED BY <2>1, <3>1, <3>2, <4>2 DEF MB!TextStep, MB!Publish
    <3>3. CASE chat'[c] = "store"
      <4>1. Whereabouts(t)' = "sending"
        BY <1>1, <1>3, <2>1, <3>1, <3>3, WhereIs
      <4> QED BY <1>1, <2>2, <3>1, <4>1, Rests
    <3> QED BY <3>1, <3>2, <3>3
  <2>4. CASE OneChatPublish(c)
    <3>1. /\ chat[c] = "publish" /\ UNCHANGED offline
          /\ \A d \in Conns : text'[d] # t
      BY <1>1, <1>3, <2>1, <2>4, DeliveryAssumption
         DEF OneChatPublish, DeliveryTypeOK
    <3>2. Whereabouts(t)' = "lost"
      BY <1>1, <2>1, <3>1, WhereIs
    <3>3. MB!Move(t, {"publishing"}, {"delivered", "stored", "lost"})
      BY <1>1, <2>2, <3>1, <3>2, Moves
    <3> QED BY <3>3 DEF MB!TextStep, MB!PublishEnds
  <2>5. CASE OneChatStore(c)
    <3>1. chat[c] = "store" /\ \A d \in Conns : text'[d] # t
      BY <1>1, <1>3, <2>1, <2>5, DeliveryAssumption
         DEF OneChatStore, DeliveryTypeOK
    <3>2. CASE t \in offline'
      <4>1. Whereabouts(t)' = "stored"
        BY <1>1, <2>1, <3>2, WhereIs
      <4>2. MB!Move(t, {"sending"}, {"stored"})
        BY <1>1, <2>2, <3>1, <4>1, Moves
      <4> QED BY <4>2 DEF MB!TextStep, MB!Store
    <3>3. CASE t \notin offline'
      <4>1. Whereabouts(t)' = "lost"
        BY <1>1, <2>1, <3>1, <3>3, WhereIs
      <4>2. MB!Move(t, {"sending"}, {"lost"})
        BY <1>1, <2>2, <3>1, <4>1, Moves
      <4>3. DbMayFail \/ t \in Unstorable
        BY <1>3, <2>5, <3>3 DEF OneChatStore
      <4> QED BY <4>2, <4>3 DEF MB!TextStep, MB!Store
    <3> QED BY <3>2, <3>3
  <2> QED BY <2>3, <2>4, <2>5 DEF OneChatStep
<1> QED BY <1>2, <1>3

\* The query moves nothing: its rows are still stored.
LEMMA QueryMail ==
  ASSUME Places, NEW c \in Conns, QueryOffline(c), NEW t \in Texts
  PROVE  MB!TextStep(t)
<1>1. PICK rows \in Fetched(RowsOf(user[c])) :
        /\ pc[c] = "offlineQuery"
        /\ vec' = [vec EXCEPT ![c] = rows]
        /\ UNCHANGED <<peer, to, chat, text, offline, pushed, copies>>
  BY DEF QueryOffline, LoginQueryOffline, Goto
<1>2. rows \subseteq offline
  BY <1>1 DEF Fetched, RowsOf
<1>3. vec[c] = {}
  BY <1>1 DEF Places, Collected, DeliveryTypeOK
<1>4. t \notin offline => \A d \in Conns : t \in vec'[d] <=> t \in vec[d]
  BY <1>1, <1>2, <1>3 DEF Places, DeliveryTypeOK
<1>5. Whereabouts(t)' = Whereabouts(t)
  BY <1>1, <1>4, WhereIs
<1> QED BY <1>1, <1>5, Rests

\* The delete collects the rows of the login's user, or loses them.
LEMMA DropMail ==
  ASSUME Places, NEW c \in Conns, DropOffline(c), NEW t \in Texts
  PROVE  MB!TextStep(t)
<1>1. /\ pc[c] = "offlineDrop"
      /\ UNCHANGED <<to, chat, text, vec, copies>>
  BY DEF DropOffline, LoginDropOffline, Goto
<1>2. CASE t \in offline' <=> t \in offline
  BY <1>1, <1>2, MailFrame
<1>3. CASE ~ (t \in offline' <=> t \in offline)
  <2>1. t \in offline /\ t \notin offline' /\ to[t] = user[c]
    BY <1>3 DEF DropOffline, RowsOf
  <2>2. to[t] \in Users /\ to[t] # NoUser
    BY <2>1, SessionAssumption DEF Places, Unsent, DeliveryTypeOK
  <2>3. \A d \in Conns : text[d] # t
    BY <2>1 DEF Places, OnItsWay, Fresh
  <2>4. CASE copies[t] > 0
    <3>1. Whereabouts(t)' = Whereabouts(t)
      BY <1>1, <2>4, WhereIs
    <3> QED BY <1>1, <3>1, Rests
  <2>5. CASE ~ copies[t] > 0
    <3>1. Whereabouts(t) = "stored" /\ Whereabouts(t)' \in {"collected", "lost"}
      BY <1>1, <2>1, <2>2, <2>3, <2>5, WhereIs
    <3>2. MB!Move(t, {"stored"}, {"collected", "lost"})
      BY <1>1, <3>1, Moves
    <3>3. to[t] \in {u \in Users : \E d \in Conns : pc[d] \in LoginSteps /\ user[d] = u}
      BY <1>1, <2>1, <2>2 DEF LoginSteps
    <3> QED BY <3>2, <3>3 DEF MB!TextStep, MB!Collect
  <2> QED BY <2>4, <2>5
<1> QED BY <1>2, <1>3

\* The acknowledgement delivers what login has read; to a client that is
\* gone it delivers nothing, and what was dropped is lost.
LEMMA AckMail ==
  ASSUME Places, IInv, DbMayFail \/ Rows, NEW c \in Conns, Ack(c),
         NEW t \in Texts
  PROVE  MB!TextStep(t)
<1>1. /\ pc[c] = "ack" /\ vec' = [vec EXCEPT ![c] = {}] /\ Write(c, vec[c])
      /\ UNCHANGED <<to, chat, text, offline>>
  BY DEF Ack, LoginAck, Goto
<1>2. vec'[c] = {} /\ \A d \in Conns \ {c} : vec'[d] = vec[d]
  BY <1>1 DEF Places, DeliveryTypeOK
<1>3. CASE t \notin vec[c]
  <2>1. copies'[t] = copies[t]
    BY <1>1, <1>3, Written DEF Places
  <2>2. \A d \in Conns : t \in vec'[d] <=> t \in vec[d]
    BY <1>2, <1>3
  <2>3. Whereabouts(t)' = Whereabouts(t)
    BY <1>1, <2>1, <2>2, WhereIs
  <2> QED BY <1>1, <2>3, Rests
<1>4. CASE t \in vec[c]
  <2>1. /\ to[t] = user[c] /\ to[t] \in Users /\ to[t] # NoUser
        /\ \A d \in Conns : text[d] # t
    BY <1>4, SessionAssumption
       DEF Places, Collected, Unsent, DeliveryTypeOK, OnItsWay, Fresh
  <2>2. to[t] \in {u \in Users : \E d \in Conns : pc[d] \in LoginSteps /\ user[d] = u}
    BY <1>1, <2>1 DEF LoginSteps
  <2>3. CASE copies[t] > 0
    <3>1. copies'[t] > 0
      BY <1>1, <2>3 DEF Write, Places, DeliveryTypeOK
    <3>2. Whereabouts(t)' = Whereabouts(t)
      BY <1>1, <2>1, <2>3, <3>1, WhereIs
    <3> QED BY <1>1, <3>2, Rests
  <2>4. CASE peer[c] /\ ~ copies[t] > 0
    <3>1. copies'[t] > 0
      BY <1>1, <1>4, <2>4, Written DEF Places
    <3>2. Whereabouts(t)' = "delivered"
      BY <1>1, <2>1, <3>1, WhereIs
    <3>3. CASE t \in offline
      <4>1. DbMayFail
        BY <1>1, <1>4, <3>3 DEF Rows, Dropped
      <4>2. Whereabouts(t) = "stored"
        BY <2>1, <2>4, <3>3, WhereIs
      <4>3. MB!Move(t, {"stored"}, {"delivered"})
        BY <1>1, <3>2, <4>2, Moves
      <4> QED BY <2>2, <4>1, <4>3 DEF MB!TextStep, MB!Deliver
    <3>4. CASE t \notin offline
      <4>1. Whereabouts(t) = "collected"
        BY <1>4, <2>1, <2>4, <3>4, WhereIs
      <4>2. MB!Move(t, {"collected"}, {"delivered"})
        BY <1>1, <3>2, <4>1, Moves
      <4> QED BY <2>2, <4>2 DEF MB!TextStep, MB!Deliver
    <3> QED BY <3>3, <3>4
  <2>5. CASE ~ peer[c] /\ ~ copies[t] > 0
    <3>1. copies'[t] = copies[t]
      BY <1>1, <2>5, Written DEF Places
    <3>2. CASE t \in offline \/ \E d \in Conns : t \in vec'[d]
      <4>1. Whereabouts(t)' = Whereabouts(t)
        BY <1>1, <1>4, <2>1, <2>5, <3>1, <3>2, WhereIs
      <4> QED BY <1>1, <4>1, Rests
    <3>3. CASE ~ (t \in offline \/ \E d \in Conns : t \in vec'[d])
      <4>1. Whereabouts(t) = "collected" /\ Whereabouts(t)' = "lost"
        BY <1>1, <1>4, <2>1, <2>5, <3>1, <3>3, WhereIs
      <4>2. MB!Move(t, {"collected"}, {"lost"})
        BY <1>1, <4>1, Moves
      <4>3. Traces(c, to[t])
        BY <1>1, <2>1 DEF Traces, LoginSteps
      <4> QED BY <2>1, <2>2, <2>5, <4>2, <4>3, CutOff DEF MB!TextStep, MB!Deliver
    <3> QED BY <3>2, <3>3
  <2> QED BY <2>3, <2>4, <2>5
<1> QED BY <1>3, <1>4

\* A process that ends loses what its handlers had, if it was not down.
LEMMA DieMail ==
  ASSUME Places, IInv, Sub, NEW s \in Servers, DieWithMessages(s),
         NEW t \in Texts
  PROVE  MB!TextStep(t)
<1> USE DEF Places
<1>1. /\ UNCHANGED <<to, offline, copies>>
      /\ process' = [process EXCEPT ![s] = "down"]
      /\ \A c \in Conns : at[c] = s => text'[c] = NoText /\ vec'[c] = {}
      /\ \A c \in Conns : at[c] # s => UNCHANGED <<text[c], chat[c], vec[c]>>
  BY DEF DieWithMessages, Die
<1>2. CASE \A c \in Conns : at[c] = s => text[c] # t /\ t \notin vec[c]
  BY <1>1, <1>2, MailFrame, DeliveryAssumption
<1>3. ASSUME NEW c \in Conns, at[c] = s, text[c] = t \/ t \in vec[c]
      PROVE  MB!TextStep(t)
  <2>1. pc[c] # "closed"
    BY <1>3, DeliveryAssumption DEF Chatting, Collected
  <2>2. process[s] # "down"
    BY <1>3, <2>1 DEF Sub, Dead
  <2>3. process' # process
    BY <1>1, <2>2 DEF IInv, TypeOK
  <2>4. \A d \in Conns : /\ text'[d] = t => text[d] = t /\ chat'[d] = chat[d]
                         /\ t \in vec'[d] => t \in vec[d]
    BY <1>1, DeliveryAssumption
  <2>5. \A d \in Conns : text'[d] # t
    BY <1>1, <1>3, <2>4, DeliveryAssumption DEF OnItsWay, Fresh
  <2>6. \/ Whereabouts(t)' = Whereabouts(t)
        \/ /\ Whereabouts(t) \in {"sending", "publishing", "collected"}
           /\ Whereabouts(t)' \in {"lost"}
    BY <1>1, <1>3, <2>4, <2>5, WhereIs
  <2>7. CASE Whereabouts(t)' = Whereabouts(t)
    BY <1>1, <2>7, Rests
  <2>8. CASE /\ Whereabouts(t) \in {"sending", "publishing", "collected"}
             /\ Whereabouts(t)' \in {"lost"}
    <3>1. MB!Move(t, {"sending", "publishing", "collected"}, {"lost"})
      BY <1>1, <2>8, Moves
    <3> QED BY <2>3, <3>1 DEF MB!TextStep, MB!Crash
  <2> QED BY <2>6, <2>7, <2>8
<1> QED BY <1>2, <1>3

\* Every step of Delivery is a step of Mailbox.
LEMMA MailStep ==
  ASSUME Places, IInv, Sub, DbMayFail \/ Rows, [DeliveryNext]_allVars
  PROVE  MB!MailNext
<1> SUFFICES ASSUME NEW t \in Texts PROVE MB!TextStep(t)
  BY DEF MB!MailNext
<1>1. CASE UNCHANGED <<to, chat, text, offline, vec, copies>>
  BY <1>1, MailFrame
<1>2. \/ UNCHANGED <<to, chat, text, offline, vec, copies>>
      \/ \E c \in Conns, x \in Texts, u \in Users :
           OneChatForward(c, x, u) \/ OneChatMiss(c, x, u)
      \/ \E c \in Conns :
           OneChatStep(c) \/ QueryOffline(c) \/ DropOffline(c) \/ Ack(c)
      \/ \E s \in Servers : DieWithMessages(s)
  BY DEF DeliveryNext, PeerGone, ConnStep, SetOnline, ServerStep, ChatCrash,
         ObserverMessage, allVars, chatVars
<1> QED BY <1>1, <1>2, ForwardMail, MissMail, OneChatMail, QueryMail, DropMail,
           AckMail, DieMail

\* What Mailbox promises of a message holds of oneChat and login, in every
\* behaviour of any number of servers: a message for a user who is not online
\* comes into the table and is lost only with a process, to a client that is
\* gone, by a statement that fails, or by a login of the addressee.
THEOREM DeliveryImplementsMailbox == DeliverySpec => ImplementsMailbox
<1>1. DeliveryInit => MB!MailInit
  <2> SUFFICES ASSUME DeliveryInit PROVE MB!MailInit
    OBVIOUS
  <2>1. \A t \in Texts : Whereabouts(t) = "unsent"
    BY WhereIs DEF DeliveryInit
  <2> QED BY <2>1 DEF MB!MailInit, DeliveryInit
<1>2. Places /\ IInv /\ Sub /\ (DbMayFail \/ Rows) /\ [DeliveryNext]_allVars
        => [MB!MailNext]_MB!mailVars
  BY MailStep
<1> QED BY <1>1, <1>2, SessionInvariance, PlacesInvariance, RowsInvariance, PTL
        DEF DeliverySpec, ImplementsMailbox, MB!MailSpec
=============================================================================
