---------------------------- MODULE ChatClient ----------------------------
(***************************************************************************)
(* One console client and the server at the other end of its connection.   *)
(* The main thread reads what the user types and sends requests; for the   *)
(* answer to a login or a registration it waits on the semaphore rwsem.    *)
(* The reader thread receives, writes the variables both threads share     *)
(* and posts rwsem.                                                        *)
(*                                                                         *)
(* Neither side marks where a message ends, except for the NUL behind each *)
(* request: a read may return several messages, or a part of one.  What    *)
(* nlohmann::json then does is modelled: json::parse stops at a NUL,       *)
(* throws on anything else behind the first value and on half a value, and *)
(* get throws on a member that is missing.  Nothing catches: the process   *)
(* that meets such an exception ends.                                      *)
(*                                                                         *)
(* Of the server the module has ChatServer::onMessage, the dispatch, and   *)
(* what its handlers send to this client.  That the row of a user allows   *)
(* a login or not is module Session's; here either may happen.             *)
(***************************************************************************)
EXTENDS Naturals, Sequences, FiniteSets

CONSTANTS
  Users,        \* the ids that can log in: of registered users, and -1
  NoUser,       \* an id that cannot, like the 0 of a failed cin; and no user
  WithFriends,  \* the users who have rows in table friend
  StreamCap,    \* bound: messages on the way in one direction
  Cuts,         \* TRUE if a read may end inside a message
  LinkMayFail   \* TRUE if the server may end for reasons of its own

ASSUME ClientAssumption ==
  /\ NoUser \notin Users
  /\ WithFriends \subseteq Users
  /\ StreamCap \in Nat \ {0}
  /\ Cuts \in BOOLEAN /\ LinkMayFail \in BOOLEAN

VARIABLES
  life,          \* the client process: running, or how it ended
  input,         \* cin: good, or failed for ever
  main,          \* where the main thread stands
  request,       \* the id typed at the last login
  rwsem,         \* the value of the semaphore
  loginSuccess,  \* g_isLoginSuccess
  currentUser,   \* the id in g_currentUser
  friends,       \* whose friends g_currentUserFriendList holds
  reader,        \* where the reader thread stands
  reply,         \* the message it is handling
  fd,            \* clientfd: open or closed
  link,          \* the server's end of the connection: up or down
  toServer,      \* requests sent and not read
  cut,           \* the first of them was read up to its middle
  inbox,         \* messages sent to the client and not received
  server,        \* the server's thread: reading, or inside login
  serverUser,    \* the user it logs in
  routed         \* _userConnMap leads to this connection

mainVars   == <<input, main, request>>
sharedVars == <<rwsem, loginSuccess, currentUser, friends>>
readerVars == <<reader, reply>>
serverVars == <<cut, server, serverUser, routed>>
vars == <<life, input, main, request, rwsem, loginSuccess, currentUser, friends,
          reader, reply, fd, link, toServer, cut, inbox, server, serverUser,
          routed>>

-----------------------------------------------------------------------------
(* Messages.                                                               *)

\* The commands of the chat menu that are sent as they are typed.
Commands == {"ONE_CHAT_MSG", "ADD_FRIEND_MSG", "CREATE_GROUP_MSG",
             "ADD_GROUP_MSG", "GROUP_CHAT_MSG"}
RequestTypes == Commands \cup {"LOGIN_MSG", "REGISTE_MSG", "LOGINOUT_MSG"}

\* Mutant: LOGINOUT_MSG is sent as the server wants it.
MemberFixedInLoginout(type) ==
  IF type \in {"LOGIN_MSG", "LOGINOUT_MSG"} THEN "msgId" ELSE "msgid"

\* The member in which the client writes the type of a request.
Member(type) == IF type = "LOGIN_MSG" THEN "msgId" ELSE "msgid"

Requests == [type : RequestTypes, member : {"msgId", "msgid"},
             id : Users \cup {NoUser}]

\* A message to the client.  printable: it has every member that the client
\* prints - in an acknowledgement, every offline message has, and also the
\* member "msgid".
Replies == [type : {"LOGIN_MSG_ACK", "REGISTE_MSG_ACK", "ONE_CHAT_MSG"},
            errno : 0 .. 2, id : Users \cup {NoUser}, friends : BOOLEAN,
            printable : BOOLEAN]

Reply(type, errno) ==
  [type |-> type, errno |-> errno, id |-> NoUser, friends |-> FALSE,
   printable |-> TRUE]

\* Mutant: a user who is online gets no answer.
AnswersNotToOnline(m) ==
  CASE m.type = "LOGIN_MSG"   -> {<<Reply("LOGIN_MSG_ACK", 1)>>, <<>>}
    [] m.type = "REGISTE_MSG" -> {<<Reply("REGISTE_MSG_ACK", e)>> : e \in 0 .. 1}
    [] OTHER                  -> {<<>>}

\* What the handler of a request may send back: login when it refuses,
\* registe, and nothing from the others or from the handler for unknown
\* types.
Answers(m) ==
  CASE m.type = "LOGIN_MSG"   -> {<<Reply("LOGIN_MSG_ACK", e)>> : e \in 1 .. 2}
    [] m.type = "REGISTE_MSG" -> {<<Reply("REGISTE_MSG_ACK", e)>> : e \in 0 .. 1}
    [] OTHER                  -> {<<>>}

-----------------------------------------------------------------------------

ReaderInAck == {"user", "friends", "offline", "flag", "post"}
Waiting == {"waitLogin", "waitRegister"}

TypeOK ==
  /\ life \in {"running", "quit", "disconnected", "crashed"}
  /\ input \in {"good", "failed"}
  /\ main \in Waiting \cup {"menu", "sendLogin", "check", "sendRegister",
                            "mainMenu", "quitting"}
  /\ request \in Users \cup {NoUser}
  /\ rwsem \in 0 .. 1
  /\ loginSuccess \in BOOLEAN
  /\ currentUser \in Users \cup {NoUser}
  /\ friends \in Users \cup {NoUser}
  /\ reader \in ReaderInAck \cup {"recv", "leaving"}
  /\ reply \in Replies
  /\ fd \in {"open", "closed"}
  /\ link \in {"up", "down"}
  /\ toServer \in Seq(Requests) /\ Len(toServer) <= StreamCap
  /\ cut \in BOOLEAN
  /\ inbox \in Seq(Replies) /\ Len(inbox) <= StreamCap + 1
  /\ server \in {"reading", "login"}
  /\ serverUser \in Users \cup {NoUser}
  /\ routed \in BOOLEAN

\* connect has succeeded, sem_init has run and the reader was started.
Init ==
  /\ life = "running"
  /\ input = "good"
  /\ main = "menu"
  /\ request = NoUser
  /\ rwsem = 0
  /\ loginSuccess = FALSE
  /\ currentUser = NoUser
  /\ friends = NoUser
  /\ reader = "recv"
  /\ reply = Reply("ONE_CHAT_MSG", 0)
  /\ fd = "open"
  /\ link = "up"
  /\ toServer = <<>>
  /\ cut = FALSE
  /\ inbox = <<>>
  /\ server = "reading"
  /\ serverUser = NoUser
  /\ routed = FALSE

\* The client process ends; the connection goes with it.
End(how) ==
  /\ life' = how
  /\ fd' = "closed"
  /\ link' = "down"

-----------------------------------------------------------------------------
(* The main thread.                                                        *)

\* send: the request is on its way, or the connection is gone.
Send(type) ==
  \/ /\ fd = "open" /\ link = "up"
     /\ Len(toServer) < StreamCap
     /\ toServer' = Append(toServer, [type |-> type, member |-> Member(type),
                                      id |-> request])
  \/ /\ fd = "closed" \/ link = "down"
     /\ UNCHANGED toServer

\* One send on a connection that the server has closed may return; the next
\* one raises SIGPIPE.
SigPipe ==
  /\ life = "running" /\ fd = "open" /\ link = "down"
  /\ main \in {"sendLogin", "sendRegister", "mainMenu"}
  /\ End("crashed")
  /\ UNCHANGED <<mainVars, sharedVars, readerVars, serverVars, toServer, inbox>>

\* The user chooses 1 and types an id.  On something that is no number cin
\* fails, which makes the id 0; on a password that is too long it fails too,
\* and the id that was typed is sent with the part that fits.  It stays so.
ChooseLogin(u, in) ==
  /\ life = "running" /\ main = "menu" /\ input = "good"
  /\ main' = "sendLogin"
  /\ request' \in {u} \cup (IF in = "failed" THEN {NoUser} ELSE {})
  /\ input' = in
  /\ loginSuccess' = FALSE
  /\ UNCHANGED <<life, rwsem, currentUser, friends, readerVars, serverVars,
                 fd, link, toServer, inbox>>

SendLogin ==
  /\ life = "running" /\ main = "sendLogin"
  /\ Send("LOGIN_MSG")
  /\ main' = "waitLogin"
  /\ UNCHANGED <<life, input, request, sharedVars, readerVars, serverVars,
                 fd, link, inbox>>

ChooseRegister(in) ==
  /\ life = "running" /\ main = "menu" /\ input = "good"
  /\ main' = "sendRegister"
  /\ input' = in
  /\ UNCHANGED <<life, request, sharedVars, readerVars, serverVars, fd, link,
                 toServer, inbox>>

\* Mutant: the main thread does not wait for the answer.
SendRegisterAndGo ==
  /\ life = "running" /\ main = "sendRegister"
  /\ Send("REGISTE_MSG")
  /\ main' = "menu"
  /\ UNCHANGED <<life, input, request, sharedVars, readerVars, serverVars,
                 fd, link, inbox>>

SendRegister ==
  /\ life = "running" /\ main = "sendRegister"
  /\ Send("REGISTE_MSG")
  /\ main' = "waitRegister"
  /\ UNCHANGED <<life, input, request, sharedVars, readerVars, serverVars,
                 fd, link, inbox>>

SemWait ==
  /\ life = "running" /\ main \in Waiting
  /\ rwsem > 0
  /\ rwsem' = rwsem - 1
  /\ main' = IF main = "waitLogin" THEN "check" ELSE "menu"
  /\ UNCHANGED <<life, input, request, loginSuccess, currentUser, friends,
                 readerVars, serverVars, fd, link, toServer, inbox>>

CheckLogin ==
  /\ life = "running" /\ main = "check"
  /\ main' = IF loginSuccess THEN "mainMenu" ELSE "menu"
  /\ UNCHANGED <<life, input, request, sharedVars, readerVars, serverVars,
                 fd, link, toServer, inbox>>

\* A command of the chat menu; no answer is waited for.
Command(type) ==
  /\ life = "running" /\ main = "mainMenu" /\ input = "good"
  /\ Send(type)
  /\ UNCHANGED <<life, mainVars, sharedVars, readerVars, serverVars, fd, link,
                 inbox>>

\* The menu is left only if send did not return -1.
Loginout ==
  /\ life = "running" /\ main = "mainMenu" /\ input = "good"
  /\ Send("LOGINOUT_MSG")
  /\ main' = IF fd = "open" THEN "menu" ELSE "mainMenu"
  /\ UNCHANGED <<life, input, request, sharedVars, readerVars, serverVars,
                 fd, link, inbox>>

\* At a menu, a line that cin cannot take: both menus then loop for ever.
InputFails ==
  /\ life = "running" /\ main \in {"menu", "mainMenu"} /\ input = "good"
  /\ input' = "failed"
  /\ UNCHANGED <<life, main, request, sharedVars, readerVars, serverVars, fd,
                 link, toServer, inbox>>

QuitClose ==
  /\ life = "running" /\ main = "menu" /\ input = "good"
  /\ main' = "quitting"
  /\ fd' = "closed"
  /\ UNCHANGED <<life, input, request, sharedVars, readerVars, serverVars,
                 link, toServer, inbox>>

\* sem_destroy and exit(0).
QuitExit ==
  /\ life = "running" /\ main = "quitting"
  /\ End("quit")
  /\ UNCHANGED <<mainVars, sharedVars, readerVars, serverVars, toServer, inbox>>

-----------------------------------------------------------------------------
(* The reader thread, readTaskHandler.                                     *)

\* An uncaught exception of the reader ends the client.
ReaderCrash ==
  /\ End("crashed")
  /\ UNCHANGED <<mainVars, sharedVars, readerVars, serverVars, toServer, inbox>>

\* Mutant: rwsem is posted when the answer arrives, and again at the end.
ReaderRecvPostsTwice ==
  /\ life = "running" /\ reader = "recv" /\ fd = "open"
  /\ inbox # <<>>
  /\ LET m == Head(inbox) IN
     /\ reply' = m
     /\ inbox' = Tail(inbox)
     /\ reader' = CASE m.type = "ONE_CHAT_MSG" -> "recv"
                    [] OTHER -> IF m.errno = 0 THEN "user" ELSE "flag"
     /\ rwsem' = rwsem + 1
     /\ UNCHANGED <<life, mainVars, loginSuccess, currentUser, friends,
                    serverVars, fd, link, toServer>>

\* recv returned one message and no byte of another; m is its type's branch.
ReaderRecv ==
  /\ life = "running" /\ reader = "recv" /\ fd = "open"
  /\ inbox # <<>>
  /\ LET m == Head(inbox) IN
     IF m.type = "ONE_CHAT_MSG" /\ ~ m.printable
     THEN ReaderCrash
     ELSE /\ reply' = m
          /\ inbox' = Tail(inbox)
          /\ reader' = CASE m.type = "ONE_CHAT_MSG"    -> "recv"
                         [] m.type = "REGISTE_MSG_ACK" -> "post"
                         [] OTHER -> IF m.errno = 0 THEN "user" ELSE "flag"
          /\ UNCHANGED <<life, mainVars, sharedVars, serverVars, fd, link,
                         toServer>>

\* recv returned more than one message, or a part of one.
ReaderThrows ==
  /\ life = "running" /\ reader = "recv" /\ fd = "open"
  /\ Len(inbox) > 1 \/ (inbox # <<>> /\ Cuts)
  /\ ReaderCrash

\* doLoginResponse writes the user, then the friends if the answer has any,
\* then prints the offline messages, and at last says whether it went well.
AckUser ==
  /\ life = "running" /\ reader = "user"
  /\ currentUser' = reply.id
  /\ reader' = "friends"
  /\ UNCHANGED <<life, mainVars, rwsem, loginSuccess, friends, reply,
                 serverVars, fd, link, toServer, inbox>>

AckFriends ==
  /\ life = "running" /\ reader = "friends"
  /\ friends' = IF reply.friends THEN reply.id ELSE friends
  /\ reader' = "offline"
  /\ UNCHANGED <<life, mainVars, rwsem, loginSuccess, currentUser, reply,
                 serverVars, fd, link, toServer, inbox>>

AckOffline ==
  /\ life = "running" /\ reader = "offline"
  /\ \/ /\ reply.printable
        /\ reader' = "flag"
        /\ UNCHANGED <<life, mainVars, sharedVars, reply, serverVars, fd, link,
                       toServer, inbox>>
     \/ ~ reply.printable /\ ReaderCrash

\* Mutant: the flag is not set when the login went well.
AckFlagNotSet ==
  /\ life = "running" /\ reader = "flag"
  /\ loginSuccess' = FALSE
  /\ reader' = "post"
  /\ UNCHANGED <<life, mainVars, rwsem, currentUser, friends, reply,
                 serverVars, fd, link, toServer, inbox>>

AckFlag ==
  /\ life = "running" /\ reader = "flag"
  /\ loginSuccess' = (reply.errno = 0)
  /\ reader' = "post"
  /\ UNCHANGED <<life, mainVars, rwsem, currentUser, friends, reply,
                 serverVars, fd, link, toServer, inbox>>

SemPost ==
  /\ life = "running" /\ reader = "post"
  /\ rwsem' = rwsem + 1
  /\ reader' = "recv"
  /\ UNCHANGED <<life, mainVars, loginSuccess, currentUser, friends, reply,
                 serverVars, fd, link, toServer, inbox>>

\* recv returned 0 or -1: the server is gone or the main thread has closed
\* the descriptor.
ReaderClose ==
  /\ life = "running" /\ reader = "recv"
  /\ fd = "closed" \/ (link = "down" /\ inbox = <<>>)
  /\ fd' = "closed"
  /\ reader' = "leaving"
  /\ UNCHANGED <<life, mainVars, sharedVars, reply, serverVars, link, toServer,
                 inbox>>

ReaderExit ==
  /\ life = "running" /\ reader = "leaving"
  /\ End("disconnected")
  /\ UNCHANGED <<mainVars, sharedVars, readerVars, serverVars, toServer, inbox>>

ReaderStep ==
  \/ ReaderRecv \/ ReaderThrows
  \/ AckUser \/ AckFriends \/ AckOffline \/ AckFlag \/ SemPost
  \/ ReaderClose \/ ReaderExit

-----------------------------------------------------------------------------
(* The server's thread of this connection.                                 *)

\* The server process ends.  What it had sent may still arrive.
ServerEnds ==
  /\ link' = "down"
  /\ inbox' \in {inbox, <<>>}
  /\ UNCHANGED <<life, mainVars, sharedVars, readerVars, fd, toServer, cut,
                 server, serverUser, routed>>

ServerFails == LinkMayFail /\ link = "up" /\ ServerEnds

\* onMessage takes n whole messages and, if half, a part of the next.
Segment(n, half) ==
  /\ link = "up" /\ server = "reading"
  /\ half => Cuts /\ n < Len(toServer)
  /\ n > 0 \/ (half /\ ~ cut)

\* The segment starts inside a message or holds no whole one, the first
\* message has no member msgId, or it is one for addFriend, which reads
\* "userid" where the client writes "id".
Throws(n) ==
  \/ cut \/ n = 0
  \/ Head(toServer).member # "msgId"
  \/ Head(toServer).type = "ADD_FRIEND_MSG"

\* The messages behind the first one's NUL are dropped.
Consume(n, half) ==
  /\ toServer' = SubSeq(toServer, n + 1, Len(toServer))
  /\ cut' = half

ServerThrows(n, half) == Segment(n, half) /\ Throws(n) /\ ServerEnds

\* A handler that is over with its answer, if it has one.
ServerAnswers(n, half) ==
  /\ Segment(n, half) /\ ~ Throws(n)
  /\ Consume(n, half)
  /\ \E a \in Answers(Head(toServer)) : inbox' = inbox \o a
  /\ UNCHANGED <<life, mainVars, sharedVars, readerVars, fd, link, server,
                 serverUser, routed>>

\* login goes ahead: from now on others' messages reach this connection.
ServerAccepts(n, half) ==
  /\ Segment(n, half) /\ ~ Throws(n)
  /\ Head(toServer).type = "LOGIN_MSG" /\ Head(toServer).id # NoUser
  /\ Consume(n, half)
  /\ server' = "login"
  /\ serverUser' = Head(toServer).id
  /\ routed' = TRUE
  /\ UNCHANGED <<life, mainVars, sharedVars, readerVars, fd, link, inbox>>

\* The acknowledgement, with the friends that were found and the offline
\* messages as their senders wrote them.
ServerAck ==
  /\ link = "up" /\ server = "login"
  /\ server' = "reading"
  /\ \E printable \in BOOLEAN :
       inbox' = Append(inbox, [type |-> "LOGIN_MSG_ACK", errno |-> 0,
                               id |-> serverUser,
                               friends |-> serverUser \in WithFriends,
                               printable |-> printable])
  /\ UNCHANGED <<life, mainVars, sharedVars, readerVars, fd, link, toServer,
                 cut, serverUser, routed>>

\* oneChat on another connection writes to this one.
Forward ==
  /\ link = "up" /\ routed
  /\ Len(inbox) < StreamCap
  /\ \E printable \in BOOLEAN :
       inbox' = Append(inbox, [Reply("ONE_CHAT_MSG", 0) EXCEPT
                                 !.printable = printable])
  /\ UNCHANGED <<life, mainVars, sharedVars, readerVars, serverVars, fd, link,
                 toServer>>

ServerStep ==
  \/ \E n \in 0 .. Len(toServer), half \in BOOLEAN :
       ServerThrows(n, half) \/ ServerAnswers(n, half) \/ ServerAccepts(n, half)
  \/ ServerAck

-----------------------------------------------------------------------------

Next ==
  \/ \E u \in Users \cup {NoUser}, in \in {"good", "failed"} : ChooseLogin(u, in)
  \/ \E in \in {"good", "failed"} : ChooseRegister(in)
  \/ SendLogin \/ SendRegister \/ SemWait \/ CheckLogin
  \/ \E type \in Commands : Command(type)
  \/ Loginout \/ InputFails \/ QuitClose \/ QuitExit \/ SigPipe
  \/ ReaderStep
  \/ ServerStep \/ ServerFails \/ Forward

Spec == Init /\ [][Next]_vars

(***************************************************************************)
(* The main thread once a request is typed, the reader thread and the      *)
(* server's thread go on.  The user need not type anything.                *)
(***************************************************************************)
Fairness ==
  /\ WF_vars(SendLogin \/ SendRegister \/ SemWait \/ CheckLogin \/ QuitExit)
  /\ WF_vars(ReaderStep)
  /\ WF_vars(ServerStep)

FairSpec == Spec /\ Fairness

-----------------------------------------------------------------------------
(* Safety.                                                                 *)

\* Requests under way that the server answers, answers under way, and the
\* post that an answer became.
Outstanding ==
  Cardinality({i \in DOMAIN toServer : toServer[i].type \in {"LOGIN_MSG", "REGISTE_MSG"}})
  + (IF server = "login" THEN 1 ELSE 0)
  + Cardinality({i \in DOMAIN inbox : inbox[i].type # "ONE_CHAT_MSG"})
  + (IF reader \in ReaderInAck THEN 1 ELSE 0)
  + rwsem

\* While the client runs there is at most one of them, and only while the
\* main thread waits: no answer writes the variables that the main thread is
\* using, and no post is left over to let a later request through unanswered.
OneAnswer ==
  life = "running" =>
    Outstanding <= (IF main \in Waiting THEN 1 ELSE 0)

\* The chat menu is entered as the user whose id was typed last, and not on
\* the word of an earlier answer.
MenuIsMine == main = "mainMenu" => currentUser = request /\ request # NoUser

\* The list of friends that is shown is the user's.  It is never cleared for
\* a user without friends; but a client that has logged out never gets to
\* log in again, because its LOGINOUT_MSG ends the server.
FriendsAreMine == main = "mainMenu" => friends \in {NoUser, currentUser}

\* Who waits for an answer gets it, or the client ends.
RequestEnds ==
  main \in Waiting ~> (main \notin Waiting \/ life # "running")

\* A login that the server accepted, and that it will from then on forward
\* messages to, opens the chat menu, or the client ends: it never falls back
\* to the first menu with its user online.
AcceptedOpensMenu ==
  server = "login" ~> (main = "mainMenu" \/ life # "running")
=============================================================================
