------------------------------ MODULE Mailbox ------------------------------
(***************************************************************************)
(* What one-to-one chat promises of a message, whatever the servers, the   *)
(* table offlinemessage and Redis do to it.  It moves forward through the  *)
(* places below; it is handed to Redis only for an addressee whose row     *)
(* says "online"; and apart from Redis it is lost only                     *)
(*   - with a server process that had it in a handler,                     *)
(*   - by a client of the addressee that is gone,                          *)
(*   - by a statement that fails, or that cannot take this text, or        *)
(*   - by a login of the addressee, which empties its rows of the table.   *)
(* What is in the table stays there until that login.  Of a text that was  *)
(* handed to Redis nothing is promised.                                    *)
(*                                                                         *)
(* The variables online, login, cutOff and process are inputs: they move   *)
(* as they like, and the steps of the messages read them.                  *)
(***************************************************************************)
CONSTANTS
  Texts, Users, NoUser,
  Unstorable,  \* texts that no statement can store
  MayFail      \* TRUE if statements may fail

VARIABLES
  to,       \* the addressee of each text that was sent
  box,      \* where each text is
  online,   \* the users whose row says "online"
  login,    \* the users with a login under way
  cutOff,   \* the users one of whose connections has lost its client
  process   \* the state of each server process

mailVars == <<to, box, online, login, cutOff, process>>

MailInit ==
  /\ to = [t \in Texts |-> NoUser]
  /\ box = [t \in Texts |-> "unsent"]

Rest(t) == box'[t] = box[t] /\ to'[t] = to[t]

\* Text t moves from one of the places From to one of To.
Move(t, From, To) == box[t] \in From /\ box'[t] \in To /\ to'[t] = to[t]

\* oneChat takes the message; if the addressee has a connection on its own
\* server the message goes straight there.
Send(t) ==
  /\ box[t] = "unsent"
  /\ to'[t] \in Users
  /\ \/ box'[t] \in {"sending", "delivered"}
     \/ box'[t] = "lost" /\ to'[t] \in cutOff

Publish(t) == Move(t, {"sending"}, {"publishing"}) /\ to[t] \in online

\* Redis, and the servers that listen to it.
PublishEnds(t) == Move(t, {"publishing"}, {"delivered", "stored", "lost"})

Store(t) ==
  \/ Move(t, {"sending"}, {"stored"})
  \/ Move(t, {"sending"}, {"lost"}) /\ (MayFail \/ t \in Unstorable)

\* A login of the addressee empties the table, with or without t in hand.
Collect(t) == Move(t, {"stored"}, {"collected", "lost"}) /\ to[t] \in login

\* The acknowledgement of that login.  A row that could not be deleted is
\* delivered too.
Deliver(t) ==
  /\ to[t] \in login
  /\ \/ Move(t, {"collected"}, {"delivered"})
     \/ Move(t, {"stored"}, {"delivered"}) /\ MayFail
     \/ Move(t, {"collected"}, {"lost"}) /\ to[t] \in cutOff

\* A process ends, and with it what its handlers had.
Crash(t) ==
  Move(t, {"sending", "publishing", "collected"}, {"lost"}) /\ process' # process

\* What may become of one text.
TextStep(t) ==
  \/ Rest(t) \/ Send(t) \/ Publish(t) \/ PublishEnds(t) \/ Store(t)
  \/ Collect(t) \/ Deliver(t) \/ Crash(t)

MailNext == \A t \in Texts : TextStep(t)

MailSpec == MailInit /\ [][MailNext]_mailVars
=============================================================================
