------------------------------ MODULE Session ------------------------------
(***************************************************************************)
(* The login sessions of the chat cluster: ChatService::login,             *)
(* ChatService::clientCloseException and the two ways a server process     *)
(* ends, over the state they share:                                        *)
(*                                                                         *)
(*   - the column `state` of the MySQL table `user`, one for the cluster,  *)
(*     read and written by single auto-committed statements;               *)
(*   - _userConnMap of each server process, guarded by _connMutex;         *)
(*   - the Redis subscriptions of each server, changed by commands that    *)
(*     every I/O thread writes to one hiredis context without a lock.      *)
(*                                                                         *)
(* A connection lives on one muduo I/O loop, so its own callbacks never    *)
(* overlap; the callbacks of two connections do.  muduo deals connections  *)
(* to its four loops in turn, so up to four connections of a server each   *)
(* have a thread of their own.  With more, some handlers exclude each      *)
(* other and the model allows a superset of the program's interleavings.   *)
(*                                                                         *)
(* One step is what no other thread can split: a database statement, a     *)
(* critical section of _connMutex, or one end of a call into hiredis.      *)
(* The step of a database statement includes the local code around it.     *)
(***************************************************************************)
EXTENDS Naturals, Sequences

CONSTANTS
  Users,      \* the rows of table `user`, named by their id
  Servers,    \* the ChatServer processes behind the load balancer
  Conns,      \* TCP connections; each is opened at most once
  NoUser,     \* the id -1 of a default constructed User; it has no row
  Typed,      \* the ids that clients log in with: users, and maybe -1
  NoConn,     \* no entry in _userConnMap
  NoServer,   \* where a connection is before it is opened
  SocketCap,  \* bound: commands or replies in flight on a Redis socket
  DbMayFail,  \* TRUE if MySQL::connect or a statement may fail
  RedisMayFail,  \* TRUE if Redis may be down, or go down, at any time
  Stops       \* how a process may end: a subset of {"sigint", "kill"}

ASSUME SessionAssumption ==
  /\ NoUser \notin Users
  /\ Typed \subseteq Users \cup {NoUser}
  /\ NoConn \notin Conns
  /\ NoServer \notin Servers
  /\ SocketCap \in Nat \ {0}
  /\ DbMayFail \in BOOLEAN /\ RedisMayFail \in BOOLEAN
  /\ Stops \subseteq {"sigint", "kill"}

VARIABLES
  userState,    \* column state of table user
  process,      \* each server: running, inside resetHandler, or gone
  at,           \* the server a connection was dealt to
  pc,           \* where the handler running on a connection stands
  user,         \* the local variable `user` of that handler (its id)
  userConnMap,  \* _userConnMap of each server; it may have an entry for -1
  ack,          \* errno of the last LOGIN_MSG_ACK on an open connection
  loggedIn,     \* the users a connection was told it is logged in as
  toRedis,      \* commands written to a server's _subscribe_context
  fromRedis,    \* what Redis sent back and the observer has not read
  subscribed,   \* the channels Redis has a server subscribed to
  context,      \* _subscribe_context: whole, torn by threads that met in
                \* its output buffer, or broken, its socket closed
  spoiled,      \* history: servers that lost a command to such a meeting
  contested     \* history: users whose session may not be the only one

dbVars    == <<userState>>
redisVars == <<toRedis, fromRedis, subscribed, context, spoiled>>
connVars  == <<at, pc, user, userConnMap, ack, loggedIn>>
vars == <<userState, process, at, pc, user, userConnMap, ack, loggedIn,
          toRedis, fromRedis, subscribed, context, spoiled, contested>>

-----------------------------------------------------------------------------
(* The steps of the handlers.                                              *)

\* login, from the check of user.state to the write of user.state.
LoginWindow == {"insert", "subscribe", "subscribing", "setOnline"}
\* login, from the check of user.state to the acknowledgement.
LoginSteps  == LoginWindow \cup {"offlineQuery", "offlineDrop", "ack"}
\* clientCloseException, after the entry was taken out of _userConnMap.
CloseSteps  == {"unsubscribe", "unsubscribing", "setOffline"}
Steps == {"new", "idle", "closed"} \cup LoginSteps \cup CloseSteps

\* The ids that handlers work with.
Ids == Users \cup {NoUser}

Commands == [op : {"SUBSCRIBE", "UNSUBSCRIBE"}, channel : Ids]
Confirm  == "confirm"

TypeOK ==
  /\ userState \in [Users -> {"online", "offline"}]
  /\ process \in [Servers -> {"up", "exiting", "down"}]
  /\ at \in [Conns -> Servers \cup {NoServer}]
  /\ pc \in [Conns -> Steps]
  /\ user \in [Conns -> Ids]
  /\ userConnMap \in [Servers -> [Ids -> Conns \cup {NoConn}]]
  /\ ack \in [Conns -> {"none", "ok", "denied", "online"}]
  /\ loggedIn \in [Conns -> SUBSET Users]
  /\ toRedis \in [Servers -> Seq(Commands)]
  /\ fromRedis \in [Servers -> Seq({Confirm})]
  /\ subscribed \in [Servers -> SUBSET Ids]
  /\ context \in [Servers -> {"whole", "torn", "broken"}]
  /\ spoiled \subseteq Servers
  /\ contested \subseteq Users

\* The servers start with empty maps and the rows that earlier runs left.
Init ==
  /\ userState \in [Users -> {"online", "offline"}]
  /\ process = [s \in Servers |-> "up"]
  /\ at = [c \in Conns |-> NoServer]
  /\ pc = [c \in Conns |-> "new"]
  /\ user = [c \in Conns |-> NoUser]
  /\ userConnMap = [s \in Servers |-> [u \in Ids |-> NoConn]]
  /\ ack = [c \in Conns |-> "none"]
  /\ loggedIn = [c \in Conns |-> {}]
  /\ toRedis = [s \in Servers |-> <<>>]
  /\ fromRedis = [s \in Servers |-> <<>>]
  /\ subscribed = [s \in Servers |-> {}]
  /\ context = [s \in Servers |-> "whole"]
  /\ spoiled = {}
  /\ contested = {}

-----------------------------------------------------------------------------
(* Who holds a session.                                                    *)

\* The login of u on c has read "offline" and not yet written "online".
InWindow(c, u) == pc[c] \in LoginWindow /\ user[c] = u

\* The cluster keeps a trace of a session of u on c: a handler at work for
\* it, an acknowledged login, or an entry in the map of c's server.
Traces(c, u) ==
  \/ pc[c] \in LoginSteps \cup CloseSteps /\ user[c] = u
  \/ u \in loggedIn[c]
  \/ at[c] # NoServer /\ userConnMap[at[c]][u] = c

Traced(u) == \E c \in Conns : Traces(c, u)

\* A session of u on c: a trace of it, on a connection that is not closed.
Holds(c, u) == pc[c] # "closed" /\ Traces(c, u)

Held(u) == \E c \in Conns : Holds(c, u)

\* An entry that leads to a closed connection, for as long as the server
\* runs.  clientCloseException erases one entry; a connection that logged in
\* as two users has two.
Stranded(c, u) == pc[c] = "closed" /\ Traces(c, u)

\* A subscription of u's sessions, or a command that changes one.
Heard(u) ==
  \E s \in Servers :
    u \in subscribed[s] \/ \E i \in DOMAIN toRedis[s] : toRedis[s][i].channel = u

\* contested gains the users New and forgets those without a trace: what
\* went wrong with a session ends with its last connection and channel.
Contest(New) ==
  contested' = {u \in contested \cup New : Traced(u)' \/ Heard(u)'}

-----------------------------------------------------------------------------
(* hiredis: several I/O threads use _subscribe_context without a lock.     *)

\* The threads of s between redisAppendCommand and redisBufferWrite's done.
InRedis(s) ==
  {c \in Conns : at[c] = s /\ pc[c] \in {"subscribing", "unsubscribing"}}

\* A thread of s touches the context's output buffer.
TouchContext(s) ==
  context' = [context EXCEPT ![s] =
                IF @ = "whole" /\ InRedis(s) # {} THEN "torn" ELSE @]

\* The thread of c leaves the context.  Its command is on the socket, or,
\* if threads met in the buffer, it may have been overwritten; on a closed
\* socket both hiredis calls fail, which no handler looks at.  (A command
\* sent twice changes nothing: both are idempotent.)
LeaveContext(c, cmd) ==
  LET s == at[c] IN
  /\ \/ /\ context[s] # "broken"
        /\ Len(toRedis[s]) < SocketCap
        /\ toRedis' = [toRedis EXCEPT ![s] = Append(@, cmd)]
        /\ UNCHANGED spoiled
     \/ /\ context[s] # "whole"
        /\ spoiled' = spoiled \cup {s}
        /\ UNCHANGED toRedis
  /\ context' = [context EXCEPT ![s] =
                   IF @ = "torn" /\ InRedis(s) = {c} THEN "whole" ELSE @]
  /\ UNCHANGED <<fromRedis, subscribed>>

\* The subscriptions are gone and redisGetReply ends the observer's loop:
\* Redis answers garbled bytes with a protocol error and closes the socket,
\* or it was not there when connect called redisConnect, which then returns
\* a context with its err set, or it went away later.  Nothing reconnects.
ContextBreaks(s) ==
  /\ \/ context[s] = "torn"
     \/ RedisMayFail /\ process[s] # "down" /\ context[s] = "whole"
  /\ context' = [context EXCEPT ![s] = "broken"]
  /\ toRedis' = [toRedis EXCEPT ![s] = <<>>]
  /\ fromRedis' = [fromRedis EXCEPT ![s] = <<>>]
  /\ subscribed' = [subscribed EXCEPT ![s] = {}]
  /\ spoiled' = spoiled \cup {s}
  /\ UNCHANGED <<dbVars, process, connVars, contested>>

-----------------------------------------------------------------------------
(* Connections and ChatService::login.                                     *)

Goto(c, from, to) == pc[c] = from /\ pc' = [pc EXCEPT ![c] = to]

\* The load balancer deals a new connection to a live server.
Connect(c, s) ==
  /\ process[s] # "down"
  /\ Goto(c, "new", "idle")
  /\ at' = [at EXCEPT ![c] = s]
  /\ UNCHANGED <<dbVars, redisVars, process, user, userConnMap, ack,
                 loggedIn, contested>>

\* UserModel::updateState: the row of u, if there is one.
UpdateState(u, state) ==
  userState' = [v \in Users |-> IF v = u THEN state ELSE userState[v]]

\* A LOGIN_MSG with the wrong password, or whose query failed: the User that
\* query returns then has the id -1 and no password.
LoginDenied(c) ==
  /\ pc[c] = "idle"
  /\ ack' = [ack EXCEPT ![c] = "denied"]
  /\ UNCHANGED <<dbVars, redisVars, process, at, pc, user, userConnMap,
                 loggedIn, contested>>

\* A LOGIN_MSG for a user whose row says "online".
LoginRefused(c, u) ==
  /\ pc[c] = "idle"
  /\ userState[u] = "online"
  /\ ack' = [ack EXCEPT ![c] = "online"]
  /\ UNCHANGED <<dbVars, redisVars, process, at, pc, user, userConnMap,
                 loggedIn, contested>>

\* Mutant: the check of user.state is gone.
LoginAcceptedUnchecked(c, u) ==
  /\ Goto(c, "idle", "insert")
  /\ user' = [user EXCEPT ![c] = u]
  /\ ack' = [ack EXCEPT ![c] = "none"]
  /\ contested' = contested \cup
                  {v \in Users : v = u /\ \E d \in Conns : InWindow(d, v)}
  /\ UNCHANGED <<dbVars, redisVars, process, at, userConnMap, loggedIn>>

\* A LOGIN_MSG for a user whose row says "offline": the handler goes on.
\* Two of them inside the window contest the user.  So it does for the id -1
\* with no password: query returns a User that matches, and is "offline".
LoginAccepted(c, u) ==
  /\ u \in Users => userState[u] = "offline"
  /\ Goto(c, "idle", "insert")
  /\ user' = [user EXCEPT ![c] = u]
  /\ ack' = [ack EXCEPT ![c] = "none"]
  /\ contested' = contested \cup
                  {v \in Users : v = u /\ \E d \in Conns : InWindow(d, v)}
  /\ UNCHANGED <<dbVars, redisVars, process, at, userConnMap, loggedIn>>

\* Mutant: the connection is not recorded.
LoginInsertForgotten(c) ==
  /\ Goto(c, "insert", "subscribe")
  /\ UNCHANGED <<dbVars, redisVars, process, at, user, userConnMap, ack,
                 loggedIn, contested>>

\* Mutant: the handler returns, without an answer, if insert says that the
\* entry was there.
LoginInsertSilent(c) ==
  /\ pc[c] = "insert"
  /\ IF userConnMap[at[c]][user[c]] = NoConn
     THEN /\ Goto(c, "insert", "subscribe")
          /\ userConnMap' = [userConnMap EXCEPT ![at[c]][user[c]] = c]
          /\ UNCHANGED user
     ELSE /\ Goto(c, "insert", "idle")
          /\ user' = [user EXCEPT ![c] = NoUser]
          /\ UNCHANGED userConnMap
  /\ UNCHANGED <<dbVars, redisVars, process, at, ack, loggedIn, contested>>

\* unordered_map::insert keeps an entry that is already there.
LoginInsert(c) ==
  /\ Goto(c, "insert", "subscribe")
  /\ userConnMap' = [userConnMap EXCEPT ![at[c]][user[c]] =
                       IF @ = NoConn THEN c ELSE @]
  /\ UNCHANGED <<dbVars, redisVars, process, at, user, ack, loggedIn,
                 contested>>

LoginSubscribe(c) ==
  /\ Goto(c, "subscribe", "subscribing")
  /\ TouchContext(at[c])
  /\ UNCHANGED <<dbVars, process, at, user, userConnMap, ack, loggedIn,
                 toRedis, fromRedis, subscribed, spoiled, contested>>

LoginSubscribed(c) ==
  /\ Goto(c, "subscribing", "setOnline")
  /\ LeaveContext(c, [op |-> "SUBSCRIBE", channel |-> user[c]])
  /\ UNCHANGED <<dbVars, process, at, user, userConnMap, ack, loggedIn,
                 contested>>

\* Mutant: user.state is never written.
LoginSetOnlineForgotten(c) ==
  /\ Goto(c, "setOnline", "offlineQuery")
  /\ UNCHANGED <<dbVars, redisVars, process, at, user, userConnMap, ack,
                 loggedIn, contested>>

\* Mutant: a state that is not in the enum of the column, which MySQL stores
\* as "" when it is not strict.
LoginSetOnlineMisspelt(c) ==
  /\ Goto(c, "setOnline", "offlineQuery")
  /\ UpdateState(user[c], "")
  /\ UNCHANGED <<redisVars, process, at, user, userConnMap, ack, loggedIn,
                 contested>>

\* A failed update is ignored: the session goes on, unseen by others.
LoginSetOnline(c) ==
  /\ Goto(c, "setOnline", "offlineQuery")
  /\ \/ /\ UpdateState(user[c], "online")
        /\ UNCHANGED contested
     \/ /\ DbMayFail
        /\ contested' = contested \cup ({user[c]} \cap Users)
        /\ UNCHANGED userState
  /\ UNCHANGED <<redisVars, process, at, user, userConnMap, ack, loggedIn>>

\* The stored messages are read, and dropped if any were found.
LoginQueryOffline(c, found) ==
  /\ Goto(c, "offlineQuery", IF found THEN "offlineDrop" ELSE "ack")
  /\ UNCHANGED <<dbVars, redisVars, process, at, user, userConnMap, ack,
                 loggedIn, contested>>

LoginDropOffline(c) ==
  /\ Goto(c, "offlineDrop", "ack")
  /\ UNCHANGED <<dbVars, redisVars, process, at, user, userConnMap, ack,
                 loggedIn, contested>>

LoginAck(c) ==
  /\ Goto(c, "ack", "idle")
  /\ ack' = [ack EXCEPT ![c] = "ok"]
  /\ loggedIn' = [loggedIn EXCEPT ![c] = @ \cup ({user[c]} \cap Users)]
  /\ user' = [user EXCEPT ![c] = NoUser]
  /\ UNCHANGED <<dbVars, redisVars, process, at, userConnMap, contested>>

LoginStep(c) ==
  \/ LoginInsert(c)
  \/ LoginSubscribe(c)
  \/ LoginSubscribed(c)
  \/ LoginSetOnline(c)
  \/ \E found \in BOOLEAN : LoginQueryOffline(c, found)
  \/ LoginDropOffline(c)
  \/ LoginAck(c)

-----------------------------------------------------------------------------
(* ChatServer::onConnection on a broken connection:                        *)
(* ChatService::clientCloseException.                                      *)

Mapped(c) == {u \in Ids : userConnMap[at[c]][u] = c}

\* Mutant: the row goes "offline" first, before the channel is left.
CloseEraseOfflineFirst(c) ==
  /\ Goto(c, "idle", "unsubscribe")
  /\ \/ \E u \in Mapped(c) :
          /\ user' = [user EXCEPT ![c] = u]
          /\ userConnMap' = [userConnMap EXCEPT ![at[c]][u] = NoConn]
          /\ UpdateState(u, "offline")
     \/ Mapped(c) = {} /\ UNCHANGED <<user, userConnMap, userState>>
  /\ ack' = [ack EXCEPT ![c] = "none"]
  /\ UNCHANGED <<redisVars, process, at, loggedIn, contested>>

\* Mutant: the comparison with the connection is gone.
CloseEraseAny(c) ==
  /\ Goto(c, "idle", "unsubscribe")
  /\ LET entries == {u \in Ids : userConnMap[at[c]][u] # NoConn} IN
     \/ \E u \in entries :
          /\ user' = [user EXCEPT ![c] = u]
          /\ userConnMap' = [userConnMap EXCEPT ![at[c]][u] = NoConn]
     \/ entries = {} /\ UNCHANGED <<user, userConnMap>>
  /\ ack' = [ack EXCEPT ![c] = "none"]
  /\ UNCHANGED <<dbVars, redisVars, process, at, loggedIn, contested>>

\* The first entry found for the connection, in the order of a hash table,
\* is erased, and only that one; without an entry, or with that of -1, the
\* handler goes on with the id -1.
CloseErase(c) ==
  /\ Goto(c, "idle", "unsubscribe")
  /\ \/ \E u \in Mapped(c) :
          /\ user' = [user EXCEPT ![c] = u]
          /\ userConnMap' = [userConnMap EXCEPT ![at[c]][u] = NoConn]
     \/ /\ Mapped(c) = {}
        /\ UNCHANGED <<user, userConnMap>>
  /\ ack' = [ack EXCEPT ![c] = "none"]
  /\ UNCHANGED <<dbVars, redisVars, process, at, loggedIn, contested>>

CloseUnsubscribe(c) ==
  /\ Goto(c, "unsubscribe", "unsubscribing")
  /\ TouchContext(at[c])
  /\ UNCHANGED <<dbVars, process, at, user, userConnMap, ack, loggedIn,
                 toRedis, fromRedis, subscribed, spoiled, contested>>

\* Mutant: unsubscribe is called with the id of a fresh User.
CloseUnsubscribedWrongId(c) ==
  /\ Goto(c, "unsubscribing", "setOffline")
  /\ LeaveContext(c, [op |-> "UNSUBSCRIBE", channel |-> NoUser])
  /\ UNCHANGED <<dbVars, process, at, user, userConnMap, ack, loggedIn,
                 contested>>

\* Mutant: unsubscribe waits for a reply, as redisCommand would, while the
\* observer reads them.
CloseUnsubscribedWaiting(c) ==
  /\ Goto(c, "unsubscribing", "setOffline")
  /\ fromRedis[at[c]] # <<>>
  /\ LeaveContext(c, [op |-> "UNSUBSCRIBE", channel |-> user[c]])
  /\ UNCHANGED <<dbVars, process, at, user, userConnMap, ack, loggedIn,
                 contested>>

CloseUnsubscribed(c) ==
  /\ Goto(c, "unsubscribing", "setOffline")
  /\ LeaveContext(c, [op |-> "UNSUBSCRIBE", channel |-> user[c]])
  /\ UNCHANGED <<dbVars, process, at, user, userConnMap, ack, loggedIn,
                 contested>>

\* Mutant: the test of the id is inverted.
CloseSetOfflineInverted(c) ==
  /\ Goto(c, "setOffline", "closed")
  /\ user' = [user EXCEPT ![c] = NoUser]
  /\ loggedIn' = [loggedIn EXCEPT ![c] = {}]
  /\ UNCHANGED <<dbVars, redisVars, process, at, userConnMap, ack>>
  /\ Contest({})

\* The last step: user.state goes back to "offline", unless the id is -1
\* or the statement fails.
CloseSetOffline(c) ==
  /\ Goto(c, "setOffline", "closed")
  /\ \/ /\ user[c] # NoUser
        /\ UpdateState(user[c], "offline")
     \/ /\ user[c] = NoUser \/ DbMayFail
        /\ UNCHANGED userState
  /\ user' = [user EXCEPT ![c] = NoUser]
  /\ loggedIn' = [loggedIn EXCEPT ![c] = {}]
  /\ UNCHANGED <<redisVars, process, at, userConnMap, ack>>
  /\ Contest({})

CloseStep(c) ==
  \/ CloseUnsubscribe(c)
  \/ CloseUnsubscribed(c)
  \/ CloseSetOffline(c)

-----------------------------------------------------------------------------
(* The Redis server and the thread in Redis::observer_channel_message.     *)

RedisApply(s) ==
  /\ toRedis[s] # <<>>
  /\ Len(fromRedis[s]) < SocketCap
  /\ LET cmd == Head(toRedis[s]) IN
     subscribed' = [subscribed EXCEPT ![s] =
                      IF cmd.op = "SUBSCRIBE" THEN @ \cup {cmd.channel}
                                              ELSE @ \ {cmd.channel}]
  /\ toRedis' = [toRedis EXCEPT ![s] = Tail(@)]
  /\ fromRedis' = [fromRedis EXCEPT ![s] = Append(@, Confirm)]
  /\ UNCHANGED <<dbVars, process, connVars, context, spoiled>>
  /\ Contest({})

\* A confirmation has an integer as third element: its str is null and the
\* observer ignores it.  On its way back into read() redisGetReply flushes
\* the output buffer the I/O threads are writing to.
ObserverConfirm(s) ==
  /\ fromRedis[s] # <<>>
  /\ Head(fromRedis[s]) = Confirm
  /\ fromRedis' = [fromRedis EXCEPT ![s] = Tail(@)]
  /\ TouchContext(s)
  /\ UNCHANGED <<dbVars, process, connVars, toRedis, subscribed, spoiled,
                 contested>>

\* After a message (module Delivery), and once when its thread starts, it
\* flushes the buffer as well.
ObserverFlush(s) ==
  /\ context[s] = "whole" /\ InRedis(s) # {}
  /\ TouchContext(s)
  /\ UNCHANGED <<dbVars, process, connVars, toRedis, fromRedis, subscribed,
                 spoiled, contested>>

-----------------------------------------------------------------------------
(* The end of a server process.                                            *)

\* The process is gone: its connections break, Redis forgets it, and the
\* table user stays as it is.
Die(s) ==
  /\ process' = [process EXCEPT ![s] = "down"]
  /\ pc' = [c \in Conns |-> IF at[c] = s THEN "closed" ELSE pc[c]]
  /\ user' = [c \in Conns |-> IF at[c] = s THEN NoUser ELSE user[c]]
  /\ ack' = [c \in Conns |-> IF at[c] = s THEN "none" ELSE ack[c]]
  /\ loggedIn' = [c \in Conns |-> IF at[c] = s THEN {} ELSE loggedIn[c]]
  /\ userConnMap' = [userConnMap EXCEPT ![s] = [u \in Ids |-> NoConn]]
  /\ toRedis' = [toRedis EXCEPT ![s] = <<>>]
  /\ fromRedis' = [fromRedis EXCEPT ![s] = <<>>]
  /\ subscribed' = [subscribed EXCEPT ![s] = {}]
  /\ context' = [context EXCEPT ![s] = "whole"]
  /\ spoiled' = spoiled \ {s}
  /\ UNCHANGED <<dbVars, at>>
  /\ Contest({})

\* Ctrl-C runs resetHandler on one thread while the others go on: every row
\* that says "online" is reset, whichever server its user is on.
SigintReset(s) ==
  /\ "sigint" \in Stops
  /\ process[s] = "up"
  /\ process' = [process EXCEPT ![s] = "exiting"]
  /\ UNCHANGED <<redisVars, connVars>>
  /\ \/ /\ userState' = [u \in Users |-> "offline"]
        /\ Contest({u \in Users : userState[u] = "online"})
     \/ DbMayFail /\ UNCHANGED <<userState, contested>>

SigintExit(s) == process[s] = "exiting" /\ Die(s)

\* SIGKILL, an uncaught exception, a power cut: nothing is reset.
Kill(s) == "kill" \in Stops /\ process[s] # "down" /\ Die(s)

\* Two threads in one hiredis buffer may free it twice.
TornCrash(s) == context[s] = "torn" /\ Die(s)

\* A new process starts with an empty map; main resets nothing.
Restart(s) ==
  /\ process[s] = "down"
  /\ process' = [process EXCEPT ![s] = "up"]
  /\ UNCHANGED <<dbVars, redisVars, connVars, contested>>

-----------------------------------------------------------------------------

Next ==
  \/ \E c \in Conns, s \in Servers : Connect(c, s)
  \/ \E c \in Conns : LoginDenied(c)
  \/ \E c \in Conns, u \in Users : LoginRefused(c, u)
  \/ \E c \in Conns, u \in Typed : LoginAccepted(c, u)
  \/ \E c \in Conns : LoginStep(c)
  \/ \E c \in Conns : CloseErase(c)
  \/ \E c \in Conns : CloseStep(c)
  \/ \E s \in Servers : RedisApply(s)
  \/ \E s \in Servers : ObserverConfirm(s)
  \/ \E s \in Servers : ObserverFlush(s)
  \/ \E s \in Servers : ContextBreaks(s)
  \/ \E s \in Servers : SigintReset(s)
  \/ \E s \in Servers : SigintExit(s)
  \/ \E s \in Servers : Kill(s)
  \/ \E s \in Servers : TornCrash(s)
  \/ \E s \in Servers : Restart(s)

Spec == Init /\ [][Next]_vars

(***************************************************************************)
(* What is bound to go on: a handler that has begun, on its I/O thread;    *)
(* Redis, reading a command; the observer thread; resetHandler's exit(0).  *)
(* Clients need not send anything nor close, and nothing restarts a        *)
(* server.  A handler waits for no other handler except in the socket to   *)
(* Redis, which is drained in the order it is filled.                      *)
(***************************************************************************)
Fairness ==
  /\ \A c \in Conns : WF_vars(LoginStep(c)) /\ WF_vars(CloseStep(c))
  /\ \A s \in Servers : /\ WF_vars(RedisApply(s))
                        /\ WF_vars(ObserverConfirm(s))
                        /\ WF_vars(SigintExit(s))

FairSpec == Spec /\ Fairness

-----------------------------------------------------------------------------
(* Safety.  A user leaves `contested` with the last trace of its sessions; *)
(* the three ways to enter it are the check of user.state racing another   *)
(* login, an updateState(online) that failed, and a resetState that hit a  *)
(* live session.  The properties say that nothing else breaks a session.   *)

\* No user has sessions on two connections, wherever they are in login or
\* clientCloseException, on one server or on two; not even beside an entry
\* that a closed connection left.
SingleSession ==
  \A u \in Users \ contested : \A c, d \in Conns :
    Traces(c, u) /\ Traces(d, u) => c = d

\* A row says "offline" only when no server has a trace of the user, but
\* for the login that is on its way to write "online": in every other state
\* a login that reads "offline" starts from a clean cluster.
OfflineMeansGone ==
  \A u \in Users \ contested : \A c \in Conns :
    userState[u] = "offline" /\ Traces(c, u) => InWindow(c, u)

\* An acknowledged user is reachable: the map of the connection's server
\* leads to that very connection until clientCloseException runs on it.
AckedIsRouted ==
  \A c \in Conns : pc[c] \notin CloseSteps =>
    \A u \in loggedIn[c] \ contested : userConnMap[at[c]][u] = c

\* The last command for channel u that s sent and Redis applies, if any.
LastOp(s, u) ==
  LET cmds == {i \in DOMAIN toRedis[s] : toRedis[s][i].channel = u} IN
  IF cmds = {} THEN IF u \in subscribed[s] THEN "SUBSCRIBE" ELSE "UNSUBSCRIBE"
  ELSE toRedis[s][CHOOSE i \in cmds : \A j \in cmds : j <= i].op

\* The subscriptions agree with the map once the commands on the socket are
\* applied: an acknowledged user's channel is on.  The UNSUBSCRIBE of an old
\* session never follows the SUBSCRIBE of the next one, because the row goes
\* "offline" only after the UNSUBSCRIBE was written.
AckedIsSubscribed ==
  \A c \in Conns : pc[c] \notin CloseSteps /\ at[c] \notin spoiled =>
    \A u \in loggedIn[c] \ contested : LastOp(at[c], u) = "SUBSCRIBE"

\* A channel is on for nothing but a session: when a server hears channel u
\* after its socket is drained, one of its connections has a session of u,
\* or closed and left the entry of u, for it carried two logins.
NoOrphanSubscription ==
  \A s \in Servers \ spoiled : \A u \in Users \ contested :
    LastOp(s, u) = "SUBSCRIBE" =>
      \E c \in Conns : at[c] = s /\ (Holds(c, u) \/ Stranded(c, u))

\* The end of c's close handler, which worked for another id, leaves the
\* entry of u.
Strands(c, u) ==
  CloseSetOffline(c) /\ Holds(c, u) /\ user[c] # u /\ Stranded(c, u)'

\* A session ends with its row "offline".  A live server leaves the row of an
\* uncontested session "online", which locks the user out, in two ways only:
\* the statement that writes it fails, or the close handler worked for
\* another id that was logged in on the same connection.
NoLockOut ==
  [][\A u \in Users :
       Held(u) /\ ~ Held(u)' /\ u \notin contested
         => \/ userState'[u] = "offline"
            \/ process' # process
            \/ DbMayFail /\ UNCHANGED userState
            \/ \E c \in Conns : Strands(c, u)]_vars

-----------------------------------------------------------------------------
(* Liveness, under FairSpec.                                               *)

\* A login that passed the check is acknowledged unless its server ends.
LoginAnswered ==
  \A c \in Conns : pc[c] = "insert" ~> (ack[c] = "ok" \/ pc[c] = "closed")

\* A broken connection is cleaned up to the end: the session it carried is
\* unsubscribed and its row written, or the server ends.
CloseCompletes ==
  \A c \in Conns : pc[c] = "unsubscribe" ~> pc[c] = "closed"

-----------------------------------------------------------------------------
(* What the comments say of the sessions, and the code does not keep.      *)

\* chatservice.cpp:68, "this user is logged in, repeated logins are not
\* allowed": no two connections are told that they are logged in as a user.
NoRepeatedLogin ==
  \A c, d \in Conns : c # d => loggedIn[c] \cap loggedIn[d] = {}

\* chatservice.cpp:172, "update the user's state": when the handler of a
\* broken connection ends, the rows of all its users say "offline".
CloseFreesItsUsers ==
  [][\A c \in Conns : CloseSetOffline(c) =>
       \A u \in loggedIn[c] : userState'[u] = "offline"]_vars

\* main.cpp:8 and :16, "after Ctrl-C the user states are reset": when the
\* only server exits from resetHandler, no row is left "online".
CtrlCLeavesNobodyOnline ==
  [][\A s \in Servers : SigintExit(s) =>
       \A u \in Users : userState'[u] = "offline"]_vars
=============================================================================
