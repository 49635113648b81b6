# Jiqun: a verification project for the chat cluster

Jiqun is a chat server written on muduo, MySQL and Redis, with a console
client.  Several server processes stand behind a TCP load balancer; they share
one database and pass messages to one another over Redis channels.  This
directory holds TLA+ models of that system, TLC configurations that check them
on small instances, and theorems that TLAPS proves for instances of any size.

Paths below are relative to the repository.  The comments of the code are in
GB18030; the quotations are translated.

## 1. The system

| component | source | state | operations |
|---|---|---|---|
| sessions | `src/server/chatservice.cpp` `login`, `clientCloseException`; `src/server/model/usermodel.cpp` | column `user.state` (one per cluster); `_userConnMap` of each process, under `_connMutex`; the Redis subscriptions of each process | log in, clean up a broken connection, reset all rows |
| one-to-one chat | `chatservice.cpp` `oneChat`; `offlinemessagemodle.cpp` | table `offlinemessage`; messages on the way through Redis; the local `vec` of a login | send, store, publish, collect at login |
| Redis bus | `src/server/redis/redis.cpp` | one hiredis context to publish and one to subscribe, both used by every I/O thread, and the observer thread | publish, subscribe, unsubscribe, observe |
| network layer | `src/server/chatserver.cpp` on muduo | connections, each bound to one of four I/O loops | accept, read a segment, break |
| dispatch | `getHandler`, `include/public.hpp` | `_msgHandlerMap`, filled once | find the handler of a message id |
| accounts | `registe`, `addFriend`, `createGroup`; `usermodel.cpp`, `friendmodel.cpp`, `groupmodel.cpp` | tables `user`, `friend`, `allgroup`, `groupuser` | insert and query rows |
| process entry | `src/server/main.cpp` | whether a process runs, resets, or is gone | start, Ctrl-C |
| database access | `src/server/db/mydb.cpp` | a connection per statement | connect, update, query |
| client | `src/client/main.cpp` | the current user, friend and group lists, `g_isLoginSuccess`, `isMainMenuRunning`, a semaphore | menus on the main thread, replies on the reader thread |

How they interact.  A client writes JSON to its connection.  muduo calls
`ChatServer::onMessage` on the I/O loop that the connection was dealt to, which
calls the handler in `ChatService`.  Handlers call the models (each statement
opens a database connection of its own), take `_connMutex` for
`_userConnMap`, and call `Redis`.  Redis pushes what is published on a channel
to the processes that subscribe it, where the observer thread calls
`handleRedisSubscribeMessage`.  A broken connection runs
`clientCloseException`.  Ctrl-C runs `resetHandler` on whatever thread the
signal hits while all others go on.

What is hard.  Two logins of one user meet on two threads or two servers, with
the check of the row and its update far apart.  A close races the next login.
All threads share hiredis contexts that are not meant to be shared.  A message
is sent while its addressee logs in or out, so the three places it can go (a
connection, the table, Redis) are chosen on stale information.  A process dies
between any two steps and leaves the table as it was.  A statement that failed
may have taken effect all the same, and one step of two may be missing for
good.  `PROJECT.json` lists
each of these hazards at its line.

What makes each component correct:

- sessions: one session per user in the cluster; a row that tells the truth;
  an acknowledged user can be reached through the map and through Redis; a
  login is answered; a close completes and locks nobody out;
- one-to-one chat: a message comes to its addressee only, not twice, and a
  stored message survives until its addressee logs in;
- Redis bus: subscriptions follow sessions; what is published on a channel that
  a server hears is handed on (it is not);
- network layer and dispatch: a segment of the stream is one message of the
  sender, and finds the handler the sender meant;
- accounts: clients that race for a name or an id are never told each other's;
  a group belongs to who asked for it, and one without a member is the trace of
  a cut-off `createGroup`;
- client: what the reader thread does to the shared variables is what the main
  thread waits for.

## 2. The modules

| module | models | rests on |
|---|---|---|
| `Session` | sessions, process entry, the subscribing half of the Redis bus | |
| `Mailbox` | abstract: what one-to-one chat promises of a message | |
| `Delivery` | one-to-one chat, the publishing half of the Redis bus, the observer | `Session` (EXTENDS), `Mailbox` (INSTANCE) |
| `ChatClient` | the client's two threads, the stream, `onMessage` and the dispatch | |
| `Accounts` | `registe`, `addFriend`, `createGroup`, the friends query of `login` | |
| `SessionProofs` | theorems about sessions and rows | `Session`, `TLAPS` |
| `SubscriptionProofs` | theorems about subscriptions and the end of sessions | `SessionProofs` |
| `DeliveryProofs` | theorems about `Delivery` | `Delivery`, `SubscriptionProofs` |
| `ChatClientProofs` | theorems about `ChatClient` | `ChatClient`, `TLAPS` |
| `AccountsProofs` | theorems about `Accounts` | `Accounts`, `TLAPS` |
| `MCSession`, `MCDelivery`, `MCChatClient`, `MCAccounts` | instances for TLC | |

### Session

One step is what no other thread can split: a statement of the database, a
critical section of `_connMutex`, one end of a call into hiredis.  `pc[c]` says
where the handler running on connection `c` stands; `user[c]` is its local
variable `user`.

Ids.  `Typed` are the ids that clients log in with.  An id without a row is
denied, with one exception that the code has: `UserModel::query` then returns a
default `User`, whose id is -1 and whose password is empty, so a login of -1
with an empty password is accepted.  `NoUser` is that id.  It comes into the
map and to Redis as a channel, `updateState` finds no row for it
(`UpdateState`), and a close handler that erased its entry, or none, goes on
with -1.  `Ids` are the users and -1.

| action | code |
|---|---|
| `Connect`, `LoginDenied`, `LoginRefused` | a new connection; the answers `errno` 1 and 2 |
| `LoginAccepted` | `_userModel.query` and the check of `user.state` |
| `LoginInsert` | `_userConnMap.insert` under the lock; an entry that is there stays |
| `LoginSubscribe`, `LoginSubscribed` | `Redis::subscribe`: into the context's buffer, and out to the socket |
| `LoginSetOnline` | `updateState`, whose result is ignored |
| `LoginQueryOffline`, `LoginDropOffline`, `LoginAck` | the rest of `login` |
| `CloseErase` | the critical section of `clientCloseException`; the first entry found |
| `CloseUnsubscribe`, `CloseUnsubscribed`, `CloseSetOffline` | the rest of it; the id is -1 (`NoUser`) if no entry was found |
| `RedisApply`, `ObserverConfirm` | Redis executes a command; the observer drops the confirmation and flushes the output buffer |
| `ObserverFlush` | the same flush after a message, and when the observer starts |
| `ContextBreaks`, `TornCrash` | what may come of two threads in one context, or of Redis being down (`RedisMayFail`) |
| `SigintReset`, `SigintExit`, `Kill`, `Restart` | `resetHandler` and its `exit(0)`; any other end; a new `main` |

hiredis.  `redisAppendCommand` and `redisBufferWrite` work on one output buffer
without a lock, and the observer thread flushes the same buffer when it enters
`redisGetReply`.  `context[s]` becomes "torn" when a thread touches the buffer
between the two ends of another thread's call.  From then on, until the last
thread has left, a command may be lost, the socket may get garbled bytes
(Redis closes it: "broken", for good) or the process may die.  `spoiled`
remembers the servers whose command was lost, so that the properties about
subscriptions can except them; sessions and rows are not excepted.

`contested` is a history variable.  A user enters it in the three ways in which
the code admits that a session is not exclusive: a login passes the check
while another login of the user is between its check and its update; an
`updateState(online)` fails; a `resetState` sets a row of a live session to
"offline".  A user leaves it with the last trace and the last channel of its
sessions.  All safety properties are about uncontested users, and so say that
there is no fourth way.  That the first exists is shown by
`session_double_login`.

What is left of a session.  `Traces(c, u)` is anything the cluster keeps of a
session of `u` on `c`: a handler at work, an acknowledged login, an entry of the
map.  `Holds(c, u)` is a trace on a connection that is not closed, and that is
what a session means.  `Stranded(c, u)` is a trace on a closed one, and it
happens: `clientCloseException` erases the first entry it finds for the
connection, and a connection that logged in as two users has two.  The other
user's row stays "online", which locks it out, its channel stays on and
messages for it are sent to nobody, until the server ends.
`session_second_user` shows it.  `SingleSession` and `OfflineMeansGone` speak
of traces, so stranded ones too; `NoLockOut` and `NoOrphanSubscription` name
the stranded user as the one exception on a live server, `NoLockOut` only at
the step in which the close handler worked for another id (`Strands`).

### Mailbox and Delivery

`Delivery` extends `Session` by `oneChat` and by what the steps of `Session` do
to messages: `SetOnline`, `QueryOffline`, `DropOffline` and `Ack` conjoin the
step of `login` with the rows read, dropped and sent.  A text is sent at most
once and has an identity.  `ConnStep` restricts `Session`: callbacks of one
connection do not overlap, and a close callback follows the loss of the peer.

Publishing.  `Redis::publish` hands a `std::string` object to the variable
arguments of `redisCommand`, whose `%s` takes it for characters: what is
published is bytes of the object, never the message.  And the observer's
handler of a message reads `element[2]` (the payload) as the channel and
`element[3]`, behind the array, as the message.  Both are undefined:
`pushed` holds that something was pushed in place of a text, and in
`ObserverMessage` the process dies, or the handler is called with data that is
no text.  The model therefore contains no delivery over Redis, and a text that
was published is lost.

Four more constants name what the data, the environment or the build decides.
`Unstorable` are the texts that `insert` cannot store whatever the database
does: with a single quote in them, or too long for the column; one too long for the
array `sql` may end the process (`ChatCrash`).
`HasHandler`: `Redis::connect` ends without a return statement when it
succeeds, so the constructor of `ChatService` installs the observer's handler
or not; without one the first message throws and the process dies.
`RedisMayFail`: `redisConnect` hands out a context with its `err` set when
Redis is down, which is no null pointer, so `connect` goes on, the observer
ends at once, later commands fail unseen and nothing reconnects; the same
happens when Redis goes away later.  `FetchMayBreak`: `mysql_use_result`
fetches row by row, and a connection that breaks looks like the last row;
`login` then deletes what it has not read.  `missed` remembers these rows, next
to those that were about to be stored when the addressee's login wrote
"online".

`Mailbox` knows where a text is: unsent, on its way ("sending"), given to Redis
("publishing"), stored, collected by a login, delivered, lost.  `Whereabouts`
is the refinement mapping.  Its other variables are inputs: whose row says
"online", who has a login under way, who lost a client, and the state of the
processes.  It promises of every text, in every step, that

- it goes to Redis only if the addressee's row says "online";
- once stored it stays stored until a login of its addressee;
- it is collected only by a login of its addressee and delivered from there,
  or directly by `oneChat`;
- apart from Redis it is lost only with a process that had it in a handler, to
  an addressee one of whose connections has lost its client, by a statement
  that fails (`MayFail`) or cannot take it, or in a login of its addressee,
  which empties the table with or without it in hand;
- what is delivered or lost stays so.

Of a text given to Redis it promises nothing.  An observer that worked would
implement the same `Mailbox`: it may go on to "delivered" or "stored".

### Accounts

The handlers of `Accounts` share nothing but four tables, so the server a
connection was dealt to does not matter.  One step is one statement, on a
connection to the database of its own, with the local code around it.

| action | code |
|---|---|
| `Registe`, `InsertUser`, `Answer` | `registe`, `UserModel::insert` with `mysql_insert_id`, the two answers |
| `AddFriend` | `addFriend`, `FriendModel::insert`; neither id is looked up |
| `LoginFriends` | `FriendModel::query` as `login` uses it: a join with `user` |
| `CreateGroup`, `InsertGroup` | `createGroup`, `GroupModel::createGroup` |
| `AddGroup` | `GroupModel::addGroup` for the creator; its result is ignored |
| `Crash` | the server ends inside a handler |

With `DbMayFail`, a statement may fail before it took effect, and its reply may
be lost after it did; the handler cannot tell the two apart.  `registe` then
answers `errno` 1, which the client prints as "name is already exist", though
the row is there and is the asker's, who never learns its id.  `createGroup`
gives up a group that exists.  `Strict` says whether MySQL refuses the role
"creater" (`chatservice.cpp:287`), which is not in the enum of the column
('creator', 'normal', `chat.sql:78`), or stores "" for it.  In strict mode, the default of MySQL, no group ever gets a
member, though it is to "store the information of the group's creator"
(`chatservice.cpp:286`); in the other the creator is stored without a role.

`founder` and `abandoned` are history variables: who asked for a group, and the
groups whose creator will not be inserted.  That ids and names of a table are
unique is MySQL's doing and goes into the model (`Accepts`); the properties are
about what the handlers make of it.  The friends query is in the model, and no
property is claimed of it: `addFriend` looks no id up, and a row may name an id
that somebody gets later.

### ChatClient

One client process and the server's thread of its connection.  `main` and
`reader` say where the two threads stand; `rwsem`, `loginSuccess`,
`currentUser` and `friends` are the variables they share.

| action | code (`src/client/main.cpp` unless named) |
|---|---|
| `ChooseLogin`, `SendLogin`, `SemWait`, `CheckLogin` | `case 1` of `main` |
| `ChooseRegister`, `SendRegister`, `SemWait` | `case 2` |
| `QuitClose`, `QuitExit` | `case 3` |
| `Command`, `Loginout`, `InputFails` | the chat menu and its commands |
| `ReaderRecv`, `ReaderThrows` | `recv`, `json::parse` and the branches of `readTaskHandler` |
| `AckUser`, `AckFriends`, `AckOffline`, `AckFlag`, `SemPost` | `doLoginResponse` and `sem_post` |
| `ReaderClose`, `ReaderExit`, `SigPipe` | the end of the connection |
| `ServerThrows`, `ServerAnswers`, `ServerAccepts`, `ServerAck` | `ChatServer::onMessage`, `getHandler`, `login`, `registe` |
| `Forward` | `oneChat` on another connection, from the moment `login` has inserted this one |

Wire format.  A request is a JSON object and a NUL; an answer is a JSON object
and nothing.  `json::parse` of the vendored nlohmann 3.6 takes a NUL for the end
of its input, so the server handles the first of several requests and drops the
rest, and the client throws when `recv` returns two answers.  Both throw on a
part of a message (for the client, also one longer than its 1024 bytes).  The
client writes the type of a request to "msgid", except in a login; the server
reads "msgId".  `get<int>` of a member that is missing throws, and nothing in
either program catches.

So a client can log in and be written to, but its first other request ends the
server process it is connected to.  `FriendsAreMine` shows how the code hangs
together: the friend list of an earlier user is never cleared for a user who has
no friends, which nobody sees, because no client comes to log in twice.  With
`LOGINOUT_MSG` corrected, and nothing else, the property fails; that is its
mutant.

The group list is left out: no answer of the server has a member "groups".
Input that is no valid UTF-8, on which `dump` throws, is left out too.

## 3. The runs

Passing:

| run | instance | what it shows |
|---|---|---|
| `session_contention` | 1 user, 2 servers, 2 connections, failing statements, Redis down, Ctrl-C, kill | `SingleSession`, `OfflineMeansGone`, `AckedIsRouted` when two logins compete on one server or on two |
| `session_two_users` | 2 users and the id -1, 1 server, 2 connections | map and subscriptions when two users share a connection or threads share the socket, and -1 comes between; `NoLockOut`: only the end of a server, a failing statement (there is none in this run), or a close handler that worked for another id of its connection leaves a row "online" behind |
| `session_live` | 1 user, 1 server, 2 connections, Redis down, Ctrl-C, `FairSpec` | `TypeOK`, `LoginAnswered` and `CloseCompletes` with a socket that is full after one command |
| `delivery_races` | 2 users, 2 servers, 2 connections, 1 text, broken fetches | `NoDuplicate`, `OnlyMissedIsDropped`, `OnlyAddressee`, and `Delivery` implements `Mailbox` |
| `delivery_failures` | 1 user, 1 server, 2 connections, 2 texts, one of them unstorable, failing statements, no handler, Ctrl-C, kill | `Delivery` implements `Mailbox` across failures, resets and restarts |
| `accounts` | 2 connections, 2 ids and 2 names of users and of groups, failing statements, lost replies, crashes | `ToldIsMine`, `MemberIsFounder`, `MemberlessIsAbandoned`, `AbandonedForGood` |
| `client_threads` | 2 users, streams of 3 messages, joined and cut, a server that may end | `OneAnswer` (answers and posts are matched one to one with waits, so the threads never use the shared variables together), `MenuIsMine`, `FriendsAreMine`, `RequestEnds`, `AcceptedOpensMenu` |

Violated, each a claim of a comment that the code does not keep:

| run | what it shows |
|---|---|
| `session_double_login` | Two logins of a user both read "offline" before either writes "online", and both are acknowledged, though "repeated logins are not allowed" (`chatservice.cpp:68`). |
| `session_second_user` | Two users log in on one connection; when it breaks, `clientCloseException` breaks off its search at the first entry (`chatservice.cpp:163`), and the other row stays "online", though the handler is to "update the user's state" (`chatservice.cpp:172`). |
| `session_ctrl_c` | A login in progress writes "online" after `resetHandler` has reset the table, though "after Ctrl-C the states are reset" (`main.cpp:8`). |
| `delivery_dropped_unread` | `login` deletes by user, not by what it has read, though "after the messages are recorded" (`chatservice.cpp:100`): a message stored in between is gone. |
| `delivery_unheard` | A message published on a channel that a server hears is nowhere afterwards, though it is to be "reported to the business layer" (`redis.cpp:112`): it is not in the payload (`redis.cpp:44`), and the observer looks for it behind the reply (`redis.cpp:113`). |

More comments that the code does not keep can be read off the models, without a
run of their own: a registration is never answered (section 4, The client); the
login of -1 with no password is acknowledged, though "the user does not exist,
the login fails" (`chatservice.cpp:121`); the creator of a group is never stored
as one (`chatservice.cpp:286`); and a SUBSCRIBE may be lost in the unlocked
context though the login "succeeded" (`chatservice.cpp:82`).

Bounds.  `SocketCap` caps the commands and replies in flight on a Redis socket
at 1 or 2; the code's bound is the socket buffer, and what matters is that a
sender can find it full and that commands can queue behind one another.
Connections are opened once; a client that comes back is another connection.
All races of the code are between two handlers, or two handlers and a process
end, so two connections and two servers meet them; the main session properties
are proved for any number.  In `session_two_users` no statement fails,
no process is stopped and Redis stays up, so that `NoLockOut` and the properties
about subscriptions have no exception to hide behind but those of the unlocked
context.  The violated runs are as small as
their counterexamples allow, without failing statements and without Redis going
down.  The rows start as earlier runs may have left them,
so a user who is "online" without a session is there from the start.
In `accounts` all races are for one name or one id, so two connections and two
of each meet them; the properties are proved for any number.  `Strict` is FALSE
there; strict mode removes the one branch of `AddGroup` in which the insert
succeeds, and `DbMayFail` has the other one.
`StreamCap` bounds what is on the way between client and server; three
requests are enough for one to be joined, dropped and cut.  `copies` saturates at 2.  Texts have no order because
the table has none.  Symmetry is used only in runs without liveness.
Three runs tell states apart by a `VIEW` that leaves variables out:
`session_two_users` leaves out `ack` (`WithoutAck`), `delivery_races` `ack` and
`spoiled` (`WithHistory`), and `delivery_failures` these and the histories
`contested` and `missed` (`Essentials`).  No guard reads what a view leaves
out, no other variable depends on it, and no property of the run is about it,
so no behaviour is lost.

Deadlock is checked in the runs in which a server may be stopped and
restarted for ever: there no reachable state is without a step.  A client
process ends, so `client_threads` does not check it.  In the
others every connection, or every name and id, may have been used up, so the
system may really stop, and `CHECK_DEADLOCK` is off.

Fairness.  `FairSpec` has weak fairness of the steps of a handler that has
begun (they run on an I/O thread to the end), of Redis reading commands, of the
observer thread and of `exit(0)` in `resetHandler`.  The last one assumes that
`resetHandler`, which allocates and talks to MySQL in signal context, does not
meet a lock that the interrupted thread holds.  Clients need do nothing,
and nobody has to restart a server.  Weak fairness is enough because a handler
waits for nothing but room in the socket, and once there is room it stays
until this or another handler uses it; each uses it once.  In `ChatClient` the
main thread is fair once a request was typed, and so are the reader and the
server's thread; the user need not type.

## 4. The proofs

Every safety property of the passing runs is a theorem, for instances of any
size.  The constants have the assumptions that the modules name
(`SessionAssumption`, `DeliveryAssumption`, `ClientAssumption`,
`AccountsAssumption`), which TLC evaluates in every run; further hypotheses are
named below.  Each inductive invariant was model-checked on the instances of
section 3 before it was proved.

### Sessions

`SessionProofs` proves, for all sets of users, servers and connections, any
`SocketCap`, with and without failing statements or Redis, and any way to stop:

| theorem | states |
|---|---|
| `TypeCorrect` | `Spec => []TypeOK` |
| `OneSession` | `Spec => []SingleSession` |
| `OfflineIsTrue` | `Spec => []OfflineMeansGone` |
| `AckedIsReachable` | `Spec => []AckedIsRouted` |

The inductive invariant `IInv` joins `TypeOK`, `SingleSession`,
`OfflineMeansGone` and four facts about local state (`Placed`, `Local`,
`Working`, `Erased`: the connections on a server are those that were opened; a
map holds only connections of its own server; between two handlers `user` is a
default one; a close handler's user is no longer in the map).  A handler may
work for -1, and a closed connection may be in the map.  `SingleSession` and
`OfflineMeansGone` need each other: a login that reads "offline" starts a second
session unless "offline" means that nobody has one, and a close writes "offline"
truthfully only because it is the last to hold the user.

`AckedIsRouted` is proved on top of `IInv` with `Routing`: the map leads to a
login's connection from `LoginInsert` on (`Recorded`), and nobody is logged in
on a connection that is not open (`Unopened`).  `RoutingFrame` covers the
steps that change none of this.

The invariants are inductive under `AnyStep`, which is `Next` or the end of any
process at any moment, more than `Session` itself allows: `DeliveryProofs`
needs that.

### Subscriptions

`SubscriptionProofs` proves, for the same instances:

| theorem | states |
|---|---|
| `AckedHearsItsChannel` | `Spec => []AckedIsSubscribed` |
| `NoChannelIsLeft` | `Spec => []NoOrphanSubscription` |
| `NobodyIsLockedOut` | `Spec => NoLockOut` |

What counts is the last command for a channel that is still in the socket, or
the channel itself when there is none (`LastOp`).  `LastOf` is the same function
of any sequence of commands, and lemmas say what it becomes when a command is
appended (`LastAppended`), when Redis applies the first one (`LastApplied`) and
when the socket is left alone (`LastFrame`).  That a sequence with a command for a
channel has a last one is an induction over its length; since an induction
theorem cannot be instantiated, `LastExists` takes a smallest interval of
positions, by the well-foundedness of the subsets of a finite set.

The inductive invariant `Sub`, on top of `IInv` and `Routing`, joins `Agreement`
(a channel that will be on has a session behind it; a handler that has
subscribed left SUBSCRIBE last, and one that has unsubscribed UNSUBSCRIBE),
`Kept` (while a close handler runs, any other user of its connection is still
mapped there, or is contested) and `Dead` (a server that is
down has no connection, no session and nothing in its socket).  Servers whose
command was lost in the unlocked context are excepted as in the properties.
`NobodyIsLockedOut` goes through the steps that can end the last session of a
user on an open connection, and needs `Kept` for the close handler: its own user
gets "offline" or the statement failed, and any other is stranded in the map,
which is the exception `Strands` and nothing wider.

### Messages

`DeliveryProofs` proves, for any users, servers, connections and texts:

| theorem | states |
|---|---|
| `SessionsAmongMessages` | the safety properties of `Session`, of `DeliverySpec` |
| `DeliveryTypeCorrect` | `DeliverySpec => []DeliveryTypeOK` |
| `ReachesItsAddressee` | `DeliverySpec => OnlyAddressee` |
| `NothingComesTwice` | `DeliverySpec => NoDuplicate`, if `~ DbMayFail` |
| `ReadIsDropped` | `DeliverySpec => OnlyMissedIsDropped`, if `~ DbMayFail` |
| `DeliveryImplementsMailbox` | `DeliverySpec => ImplementsMailbox` |

`Delivery` does not implement `Session` to the letter: a message may end a
process in two ways of its own (`ChatCrash`, `ObserverMessage`), also where
`Stops` has no "kill".  Every step of `Delivery` is a step of `AnyStep`, though,
so the invariants above carry over as they are.

`Places` says where a message can be: `oneChat` handles only a message that was
sent, on a connection without another handler (`Chatting`); one that was not
sent is nowhere (`Unsent`); one that is being handled is nowhere else
(`OnItsWay`); what a login has read belongs to its user (`Collected`).
`Deaf` adds that a connection on which a close handler has begun has lost its
client, or is in no map, so that an entry left in the map delivers nothing;
with it `OnlyAddressee` says that the receiving connection is open.
`DeliveryImplementsMailbox` shows, action by action, which step of `Mailbox`
every single text takes (`ForwardMail`, `MissMail`, `OneChatMail`, `QueryMail`,
`DropMail`, `AckMail`, `DieMail`), and that the texts an action does not touch
rest (`MailFrame`).  `AckMail` uses `Rows` where statements do not
fail: then no row of the table holds what the login is about to deliver.

`Rows` is about the gap between the query and the delete of a login, where the
code is hard to trust.  A row gets into the gap only from a `oneChat` that had
read "offline" before that login wrote "online" (`Late`, `Read`); and once
delivered or read for good, a message is in no row (`Dropped`) and in no other
login's `vec`, but for overlapping ones (`Single`).  These need `~ DbMayFail`,
and not for the sake of the proof: a delete that fails leaves the rows for the
next login, which delivers them again, and a query of the state that fails lets
`oneChat` store a message for a user who is online.  With `DbMayFail` neither
property is claimed.

### The client

`ChatClientProofs` proves, for any users and any capacity of the stream:

| theorem | states |
|---|---|
| `TypeCorrect` | `Spec => []TypeOK` |
| `OneAtATime` | `Spec => []OneAnswer` |
| `MenuOfTheUser` | `Spec => []MenuIsMine` |
| `FriendsOfTheUser` | `Spec => []FriendsAreMine` |
| `RegistrationUnanswered` | `Spec => [](main = "waitRegister" => rwsem = 0)` |

A request passes through five places: the stream to the server, the server's
handler, the stream back, the reader thread, the semaphore.  `Exclusive` says
that it is in one of them at most, and only while the main thread waits, `Wire`
that it is the last thing the client has sent.  That is what makes one
semaphore without a lock enough: every post finds the wait it was meant for.
`SameUser` follows the id through the places to `g_currentUser`.  `Friends` is
about the list that is never cleared: its user is in the menu, or on the way
there (`Leading`), or has left it, and then a request is on the wire, or was,
that ends the server (`Doomed`).  `RegistrationUnanswered` says that no
registration is ever answered, though the client waits for the thread that "will notify it when it has handled the registration"
(`main.cpp:167` of the client): the request carries "msgid", the server throws
and ends, and the reader thread leaves.

### Accounts

`AccountsProofs` proves, for all sets of connections, ids and names, in strict
mode or not, with and without failures and crashes:

| theorem | states |
|---|---|
| `TypeCorrect` | `Spec => []TypeOK` |
| `IdIsMine` | `Spec => []ToldIsMine` |
| `FounderIsMember` | `Spec => []MemberIsFounder` |
| `MemberlessIsCutOff` | `Spec => []MemberlessIsAbandoned` |
| `CutOffForGood` | `Spec => AbandonedForGood` |

The inductive invariant `IInv` adds
facts about handlers between two steps to the properties: local variables fit
the step (`Local`); a handler about to answer with an id owns its row, and
nobody else was or is about to be told the id (`Mine`); a handler about to
insert the creator has a group that was created for its user, that no other
handler has and that was not given up (`Founded`); only groups that were
created are given up (`AbandonedExists`).  They hold because a table gives out
an id that no row has, and everything that refers to an id refers to a row.
The steps that touch neither users nor groups are covered by `UserFrame` and
`GroupFrame`.

### Only model-checked

- Liveness: `LoginAnswered` and `CloseCompletes`, `RequestEnds` and
  `AcceptedOpensMenu`.  Fairness is stated with ENABLED, which is out of the
  prover's reach.
- The five violated claims: a counterexample is one behaviour, and TLC's is the
  evidence.

## 5. Not modelled, and the plan

What is left to do, in this order:

1. An abstract specification of a request and its answer, which `ChatClient`
   implements, and the proof that it does.
2. What may be claimed of duplicates and of unread rows when statements fail:
   a weaker form of `NoDuplicate` and `OnlyMissedIsDropped` with the failed
   statement as its exception.

Left out for good:

- `loginOut`, the handler `addGroup`, `groupChat`, `GroupModel::queryGroups` and
  `queryGroupUsers`: no entry of `_msgHandlerMap` and no call leads to them.
  The group list of the client, which no answer fills, goes with them.
- JSON text, passwords and SQL text (data the properties do not tell apart),
  what the client prints, logging.
- `thirdparty/json.hpp` (vendored, 21,000 lines), the files that CMake generated
  under `CMakeFiles` (2,900 lines) and the tutorial programs under `test/`:
  they are most of the repository by size and none of the chat system.  What
  the system uses of the JSON library, `parse` on joined and cut text and `get`
  on a missing member, is in `ChatClient`.
