----------------------------- MODULE Delivery -----------------------------
(***************************************************************************)
(* One-to-one chat over the sessions of module Session: oneChat, the table *)
(* `offlinemessage`, PUBLISH, and the offline messages that login reads,   *)
(* drops and sends.                                                        *)
(*                                                                         *)
(* A text is a message with an identity of its own, sent at most once.     *)
(* The table and what Redis pushes are sets of texts: neither orders nor   *)
(* repeats what was put there once.  A text counts as delivered when it is *)
(* written to a connection whose client is still there.  Texts for ids     *)
(* without a row, which oneChat does not refuse, are left out.             *)
(***************************************************************************)
EXTENDS Session

CONSTANTS
  Texts,          \* the messages that clients may send
  NoText,         \* no message
  Unstorable,     \* the texts whose insert fails whatever the database does:
                  \* too long for the column, or with a quote in them
  FetchMayBreak,  \* TRUE if a database connection may break between two rows
  HasHandler      \* what the build makes of the missing return of connect():
                  \* TRUE if the constructor goes on to install the handler

ASSUME DeliveryAssumption ==
  /\ NoText \notin Texts
  /\ Unstorable \subseteq Texts
  /\ FetchMayBreak \in BOOLEAN /\ HasHandler \in BOOLEAN

VARIABLES
  peer,     \* the client of a connection is still there
  to,       \* the member "toid" of each message that was sent
  chat,     \* where oneChat stands on a connection
  text,     \* the message that oneChat is handling
  offline,  \* the texts in table offlinemessage, which may have other rows
  vec,      \* the local variable vec of login: messages read from the table
  pushed,   \* what Redis sent to a server and its observer has not read,
            \* named by the texts it should have been
  copies,   \* how often a text was delivered: 0, 1, or 2 for more
  missed    \* history: texts whose oneChat had read "offline" and not yet
            \* stored them when a login of the addressee wrote "online", and
            \* texts that were left out by a fetch that broke off

chatVars == <<to, chat, text, offline, vec, pushed, copies, missed>>
allVars  == <<vars, peer, chatVars>>

DeliveryTypeOK ==
  /\ peer \in [Conns -> BOOLEAN]
  /\ to \in [Texts -> Users \cup {NoUser}]
  /\ chat \in [Conns -> {"none", "query", "publish", "store"}]
  /\ text \in [Conns -> Texts \cup {NoText}]
  /\ offline \subseteq Texts
  /\ vec \in [Conns -> SUBSET Texts]
  /\ pushed \in [Servers -> SUBSET Texts]
  /\ copies \in [Texts -> 0 .. 2]
  /\ missed \subseteq Texts

DeliveryInit ==
  /\ Init
  /\ peer = [c \in Conns |-> TRUE]
  /\ to = [t \in Texts |-> NoUser]
  /\ chat = [c \in Conns |-> "none"]
  /\ text = [c \in Conns |-> NoText]
  /\ offline = {}
  /\ vec = [c \in Conns |-> {}]
  /\ pushed = [s \in Servers |-> {}]
  /\ copies = [t \in Texts |-> 0]
  /\ missed = {}

\* Mutant: the where clause is gone.
RowsOfAnyone(u) == offline

\* The rows of user u.
RowsOf(u) == {t \in offline : to[t] = u}

\* The messages T are written to connection c.
Write(c, T) ==
  copies' = [t \in Texts |->
               IF t \in T /\ peer[c] /\ copies[t] < 2 THEN copies[t] + 1
                                                      ELSE copies[t]]

\* oneChat on c goes to a step with message t.
ChatGoto(c, step, t) ==
  /\ chat' = [chat EXCEPT ![c] = step]
  /\ text' = [text EXCEPT ![c] = t]

-----------------------------------------------------------------------------
(* ChatService::oneChat.                                                   *)

\* The addressee has a connection on this server: the message goes there,
\* still under _connMutex.
OneChatForward(c, t, u) ==
  /\ pc[c] = "idle" /\ chat[c] = "none" /\ to[t] = NoUser
  /\ userConnMap[at[c]][u] # NoConn
  /\ to' = [to EXCEPT ![t] = u]
  /\ Write(userConnMap[at[c]][u], {t})
  /\ UNCHANGED <<vars, peer, chat, text, offline, vec, pushed, missed>>

\* It has none: the lock is given back and the handler goes on.
OneChatMiss(c, t, u) ==
  /\ pc[c] = "idle" /\ chat[c] = "none" /\ to[t] = NoUser
  /\ userConnMap[at[c]][u] = NoConn
  /\ to' = [to EXCEPT ![t] = u]
  /\ ChatGoto(c, "query", t)
  /\ UNCHANGED <<vars, peer, offline, vec, pushed, copies, missed>>

\* Mutant: a failed query gives a User that is "online".
OneChatQueryFailsOnline(c) ==
  /\ chat[c] = "query"
  /\ \/ userState[to[text[c]]] = "offline" /\ ChatGoto(c, "store", text[c])
     \/ /\ userState[to[text[c]]] = "online" \/ DbMayFail
        /\ ChatGoto(c, "publish", text[c])
  /\ UNCHANGED <<vars, peer, to, offline, vec, pushed, copies, missed>>

\* Mutant: oneChat stores only what it cannot publish.
OneChatQueryPublishFirst(c) ==
  /\ chat[c] = "query"
  /\ ChatGoto(c, "publish", text[c])
  /\ UNCHANGED <<vars, peer, to, offline, vec, pushed, copies, missed>>

\* user.state decides; a failed query gives a User that is "offline".
OneChatQuery(c) ==
  /\ chat[c] = "query"
  /\ \/ userState[to[text[c]]] = "online" /\ ChatGoto(c, "publish", text[c])
     \/ /\ userState[to[text[c]]] = "offline" \/ DbMayFail
        /\ ChatGoto(c, "store", text[c])
  /\ UNCHANGED <<vars, peer, to, offline, vec, pushed, copies, missed>>

\* Another I/O thread is on its way through the one _publish_context.
PublishMeets(c) ==
  \E d \in Conns \ {c} : at[d] = at[c] /\ chat[d] = "publish"

\* PUBLISH hands a std::string to the variable arguments of redisCommand,
\* whose %s takes what it gets for characters: the payload is bytes of the
\* string object and never the text, which is gone with the handler.  Redis
\* passes the payload to the servers that subscribe the channel, if any; the
\* number it answers is not looked at.  Of two threads in the context one
\* may lose its command.
OneChatPublish(c) ==
  /\ chat[c] = "publish"
  /\ \/ pushed' = [s \in Servers |->
                     IF to[text[c]] \in subscribed[s]
                     THEN pushed[s] \cup {text[c]} ELSE pushed[s]]
     \/ (PublishMeets(c) \/ RedisMayFail) /\ UNCHANGED pushed
  /\ ChatGoto(c, "none", NoText)
  /\ UNCHANGED <<vars, peer, to, offline, vec, copies, missed>>

\* Mutant: the message was moved from before it is stored.
OneChatStoreMoved(c) ==
  /\ chat[c] = "store"
  /\ offline' = offline \cup {NoText}
  /\ ChatGoto(c, "none", NoText)
  /\ UNCHANGED <<vars, peer, to, vec, pushed, copies, missed>>

\* insert into offlinemessage; a failure is ignored.
OneChatStore(c) ==
  /\ chat[c] = "store"
  /\ \/ text[c] \notin Unstorable /\ offline' = offline \cup {text[c]}
     \/ (text[c] \in Unstorable \/ DbMayFail) /\ UNCHANGED offline
  /\ ChatGoto(c, "none", NoText)
  /\ UNCHANGED <<vars, peer, to, vec, pushed, copies, missed>>

OneChatStep(c) == OneChatQuery(c) \/ OneChatPublish(c) \/ OneChatStore(c)

-----------------------------------------------------------------------------
(* The steps of Session with what they do to messages.                     *)

\* The client closes its end, or is cut off; the server learns of it later.
PeerGone(c) ==
  /\ pc[c] \notin {"new", "closed"}
  /\ peer[c]
  /\ peer' = [peer EXCEPT ![c] = FALSE]
  /\ UNCHANGED <<vars, chatVars>>

\* The steps of a connection that no message takes part in.  A connection's
\* callbacks run one after the other.
ConnStep(c) ==
  /\ \/ \E s \in Servers : Connect(c, s)
     \/ /\ chat[c] = "none"
        /\ \/ LoginDenied(c)
           \/ \E u \in Users : LoginRefused(c, u)
           \/ \E u \in Typed : LoginAccepted(c, u)
     \/ LoginInsert(c) \/ LoginSubscribe(c) \/ LoginSubscribed(c)
     \/ chat[c] = "none" /\ ~ peer[c] /\ CloseErase(c)
     \/ CloseStep(c)
  /\ UNCHANGED <<peer, chatVars>>

SetOnline(c) ==
  /\ LoginSetOnline(c)
  /\ missed' = missed \cup {text[d] : d \in
               {e \in Conns : chat[e] = "store" /\ to[text[e]] = user[c]}}
  /\ UNCHANGED <<peer, to, chat, text, offline, vec, pushed, copies>>

\* What a query returns of its rows.  One that fails gives none.  The rows
\* are fetched one by one, and a connection that breaks in between looks
\* like the end of the rows.
Fetched(rows) ==
  IF FetchMayBreak THEN SUBSET rows
                   ELSE {rows} \cup (IF DbMayFail THEN {{}} ELSE {})

\* Rows that are no text, which an earlier run or the observer may have
\* stored, are found too.
QueryOffline(c) ==
  \E rows \in Fetched(RowsOf(user[c])), found \in BOOLEAN :
    /\ rows # {} => found
    /\ found => rows = RowsOf(user[c]) \/ FetchMayBreak
    /\ LoginQueryOffline(c, found)
    /\ vec' = [vec EXCEPT ![c] = rows]
    /\ missed' = missed \cup (RowsOf(user[c]) \ rows)
    /\ UNCHANGED <<peer, to, chat, text, offline, pushed, copies>>

\* Mutant: the rows stay.
DropOfflineForgotten(c) ==
  /\ LoginDropOffline(c)
  /\ UNCHANGED <<peer, chatVars>>

\* delete from offlinemessage where userid = id: all rows, read or not.
DropOffline(c) ==
  /\ LoginDropOffline(c)
  /\ \/ offline' = offline \ RowsOf(user[c])
     \/ DbMayFail /\ UNCHANGED offline
  /\ UNCHANGED <<peer, to, chat, text, vec, pushed, copies, missed>>

Ack(c) ==
  /\ LoginAck(c)
  /\ Write(c, vec[c])
  /\ vec' = [vec EXCEPT ![c] = {}]
  /\ UNCHANGED <<peer, to, chat, text, offline, pushed, missed>>

\* What the handlers and the sockets of a dead process held is gone.
DieWithMessages(s) ==
  /\ Die(s)
  /\ chat' = [c \in Conns |-> IF at[c] = s THEN "none" ELSE chat[c]]
  /\ text' = [c \in Conns |-> IF at[c] = s THEN NoText ELSE text[c]]
  /\ vec' = [c \in Conns |-> IF at[c] = s THEN {} ELSE vec[c]]
  /\ pushed' = [pushed EXCEPT ![s] = {}]
  /\ UNCHANGED <<peer, to, offline, copies, missed>>

\* oneChat may end its process: two threads in the _publish_context may free
\* its buffer twice, and a text may be longer than the array sql of insert.
ChatCrash(s) ==
  /\ \E c \in Conns :
       /\ at[c] = s
       /\ \/ chat[c] = "publish" /\ PublishMeets(c)
          \/ chat[c] = "store" /\ text[c] \in Unstorable
  /\ DieWithMessages(s)

\* A message has three elements, "message", channel and payload, counted
\* from 0.  The observer takes the channel from element[2], the payload, and
\* the message from element[3], behind the end of the array.  The process
\* dies of it or of a handler that was not installed, or
\* handleRedisSubscribeMessage gets some id and some string, which it sends
\* to a connection or stores, but which is no text.  Then redisGetReply
\* flushes the output buffer again.
ObserverMessage(s) ==
  /\ pushed[s] # {}
  /\ \/ /\ HasHandler
        /\ \E t \in pushed[s] : pushed' = [pushed EXCEPT ![s] = @ \ {t}]
        /\ IF context[s] = "whole" /\ InRedis(s) # {} THEN ObserverFlush(s)
                                                     ELSE UNCHANGED vars
        /\ UNCHANGED <<peer, to, chat, text, offline, vec, copies, missed>>
     \/ DieWithMessages(s)

ServerStep(s) ==
  \/ /\ RedisApply(s) \/ ObserverConfirm(s) \/ SigintReset(s) \/ Restart(s)
     /\ UNCHANGED <<peer, chatVars>>
  \/ /\ ContextBreaks(s)
     /\ pushed' = [pushed EXCEPT ![s] = {}]
     /\ UNCHANGED <<peer, to, chat, text, offline, vec, copies, missed>>
  \/ process[s] = "exiting" /\ DieWithMessages(s)
  \/ "kill" \in Stops /\ process[s] # "down" /\ DieWithMessages(s)
  \/ context[s] = "torn" /\ DieWithMessages(s)

DeliveryNext ==
  \/ \E c \in Conns, t \in Texts, u \in Users :
       OneChatForward(c, t, u) \/ OneChatMiss(c, t, u)
  \/ \E c \in Conns : OneChatStep(c) \/ PeerGone(c)
  \/ \E c \in Conns : ConnStep(c)
  \/ \E c \in Conns : SetOnline(c) \/ QueryOffline(c) \/ DropOffline(c) \/ Ack(c)
  \/ \E s \in Servers : ServerStep(s) \/ ChatCrash(s) \/ ObserverMessage(s)

DeliverySpec == DeliveryInit /\ [][DeliveryNext]_allVars

-----------------------------------------------------------------------------
(* Safety.                                                                 *)

\* A message is delivered to a connection on which its addressee has a
\* session and which is not closed, be it by oneChat on another thread or by
\* the acknowledgement of a login: an entry that a connection left in the map
\* may be found, but no client reads behind it.
\* (A text that is delivered goes from copies n to n + 1, and only then.)
Reaches(c, t) ==
  \/ \E d \in Conns : OneChatForward(d, t, to'[t]) /\ userConnMap[at[d]][to'[t]] = c
  \/ Ack(c) /\ t \in vec[c]

OnlyAddressee ==
  [][\A t \in Texts : copies'[t] # copies[t] =>
       \E c \in Conns : peer[c] /\ Holds(c, to'[t]) /\ Reaches(c, t)]_allVars

\* A message comes twice only to a user whose logins overlapped: both read
\* the table before one of them dropped the rows.
NoDuplicate ==
  [][\A t \in Texts : copies'[t] = 2 /\ copies[t] = 1 => to[t] \in contested]_allVars

\* Rows that login drops unread were stored by a oneChat that had already
\* read "offline" when that login wrote "online", or its fetch broke off: no
\* later message gets into the gap between the query and the delete, because
\* login writes "online" before it queries.
OnlyMissedIsDropped ==
  [][\A t \in offline \ offline' :
       \/ \E c \in Conns : t \in vec[c]
       \/ t \in missed
       \/ to[t] \in contested]_allVars

\* Where a message is, seen from outside.
Whereabouts(t) ==
  CASE to[t] = NoUser                  -> "unsent"
    [] to[t] # NoUser /\ copies[t] > 0 -> "delivered"
    [] OTHER ->
         IF t \in offline                     THEN "stored"
         ELSE IF \E c \in Conns : t \in vec[c] THEN "collected"
         ELSE IF \E c \in Conns : text[c] = t /\ chat[c] = "publish"
              THEN "publishing"
         ELSE IF \E c \in Conns : text[c] = t THEN "sending"
         ELSE "lost"

MB == INSTANCE Mailbox WITH
        MayFail <- DbMayFail,
        box     <- [t \in Texts |-> Whereabouts(t)],
        online  <- {u \in Users : userState[u] = "online"},
        login   <- {u \in Users : \E c \in Conns : pc[c] \in LoginSteps /\ user[c] = u},
        cutOff  <- {u \in Users : \E c \in Conns : Traces(c, u) /\ ~ peer[c]}

\* A message for a user who is not online ends in the table, and stays there
\* until a login of the user: it is lost only with a process, to a client
\* that is gone, or by a statement that fails.  Only that of a user who is
\* online goes to Redis.
ImplementsMailbox == MB!MailSpec

-----------------------------------------------------------------------------
(* What the comments say of messages, and the code does not keep.          *)

\* chatservice.cpp:100, "after the offline messages are recorded in json,
\* delete the offline messages in the database": what is deleted was recorded.
DroppedWasRecorded ==
  [][\A t \in offline \ offline' : \E c \in Conns : t \in vec[c]]_allVars

\* redis.cpp:112, "report to the business layer the message received ... the
\* channel number and the message sent on the channel": what oneChat publishes
\* on a channel that a server hears is not lost on the way.
HeardIsReported ==
  [][\A t \in Texts :
       Whereabouts(t) = "publishing" /\ (\E s \in Servers : to[t] \in subscribed[s])
         => Whereabouts(t)' # "lost"]_allVars
=============================================================================
