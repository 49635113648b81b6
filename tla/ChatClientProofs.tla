-------------------------- MODULE ChatClientProofs --------------------------
(* Proofs about ChatClient, for any users and any capacity of the stream.  *)
EXTENDS ChatClient, FiniteSetTheorems, TLAPS

(***************************************************************************)
(* A login or a registration passes through five places, one after the     *)
(* other: the requests, the server's handler, the answers, the reader      *)
(* thread and the semaphore.                                               *)
(***************************************************************************)
Asked    == {i \in DOMAIN toServer :
               toServer[i].type \in {"LOGIN_MSG", "REGISTE_MSG"}}
Serving  == server = "login"
Answered == {i \in DOMAIN inbox : inbox[i].type # "ONE_CHAT_MSG"}
Handling == reader \in ReaderInAck
Posted   == rwsem > 0

\* It is in none of them.
Quiet == Asked = {} /\ ~ Serving /\ Answered = {} /\ ~ Handling /\ ~ Posted

\* The connection ends with the process, so that the server stops too.
Gone == life # "running" => link = "down"

\* What is on the way to the server: only a login has the member that the
\* server dispatches on, and what the main thread waits for it sent last.
Wire ==
  \A i \in DOMAIN toServer :
    /\ toServer[i].member = Member(toServer[i].type)
    /\ i \in Asked => i = Len(toServer)
    /\ toServer[i].type = "LOGIN_MSG" =>
         main = "waitLogin" /\ toServer[i].id = request
    /\ toServer[i].type = "REGISTE_MSG" => main = "waitRegister"

\* The places exclude each other, and without a main thread that waits they
\* are empty.  Behind the first one there are only logins, because a
\* REGISTE_MSG ends the server.
Exclusive ==
  /\ main \notin Waiting => Quiet
  /\ Asked # {} => ~ Serving /\ Answered = {} /\ ~ Handling /\ ~ Posted
  /\ Serving => Answered = {} /\ ~ Handling /\ ~ Posted
  /\ Answered # {} => ~ Handling /\ ~ Posted
  /\ Handling => ~ Posted
  /\ \A i, j \in Answered : i = j
  /\ Serving \/ Answered # {} \/ Handling \/ Posted => main = "waitLogin"
  /\ \A i \in Answered : inbox[i].type = "LOGIN_MSG_ACK"

\* An acknowledgement comes on top of the messages that others forward.
Room == Answered = {} => Len(inbox) <= StreamCap

\* The user that a login is for, from the server's handler to g_currentUser.
Mine(u) == u = request /\ request # NoUser

SameUser ==
  /\ Serving => Mine(serverUser)
  /\ \A i \in Answered : inbox[i].errno = 0 => Mine(inbox[i].id)
  /\ reader \in {"user", "friends", "offline"} => reply.errno = 0
  /\ Handling /\ reply.errno = 0 =>
       /\ Mine(reply.id)
       /\ reader # "user" => currentUser = reply.id
  /\ reader = "post" => loginSuccess = (reply.errno = 0)
  /\ main \in {"sendLogin", "waitLogin", "check", "mainMenu"} /\ loginSuccess =>
       Mine(currentUser)
  /\ main = "mainMenu" => loginSuccess

\* The login that fetched the friends is on its way to the chat menu, or in
\* it; or it was left, and a request ends the server, or has ended it, before
\* another login can be accepted.
Leading ==
  /\ friends = currentUser
  /\ \/ reader \in {"offline", "flag", "post"} /\ reply.errno = 0
     \/ Posted /\ loginSuccess
     \/ main = "check" /\ loginSuccess
     \/ main = "mainMenu"

Doomed ==
  /\ main \notin {"check", "mainMenu"}
  /\ ~ Serving /\ Answered = {} /\ ~ Handling /\ ~ Posted
  /\ link = "down" \/ \E i \in DOMAIN toServer : toServer[i].member # "msgId"

Friends == friends # NoUser => Leading \/ Doomed

\* The inductive invariant.
IInv ==
  /\ TypeOK
  /\ Gone
  /\ Wire
  /\ Exclusive
  /\ Room
  /\ SameUser
  /\ Friends

-----------------------------------------------------------------------------

\* The state before the first line is typed has nothing on the way.
LEMMA InitInv == Init => IInv
<1> SUFFICES ASSUME Init PROVE IInv
  OBVIOUS
<1>1. toServer = <<>> /\ inbox = <<>> /\ Asked = {} /\ Answered = {}
  BY DEF Init, Asked, Answered
<1>2. TypeOK
  <2>1. reply \in Replies
    BY DEF Init, Reply, Replies
  <2>2. Len(toServer) <= StreamCap /\ Len(inbox) <= StreamCap + 1
    BY <1>1, ClientAssumption
  <2>3. toServer \in Seq(Requests) /\ inbox \in Seq(Replies)
    BY <1>1
  <2>4. loginSuccess \in BOOLEAN /\ cut \in BOOLEAN /\ routed \in BOOLEAN
    BY DEF Init
  <2>5. main \in {"menu"} /\ reader \in {"recv"} /\ rwsem \in 0 .. 1
    BY DEF Init
  <2> QED BY <2>1, <2>2, <2>3, <2>4, <2>5 DEF Init, TypeOK
<1>3. Gone /\ Wire /\ Room /\ Friends
  BY <1>1, ClientAssumption DEF Init, Gone, Wire, Room, Friends
<1>4. Exclusive /\ SameUser
  BY <1>1 DEF Init, Exclusive, SameUser, Quiet, Serving, Handling, Posted,
              ReaderInAck, Waiting
<1> QED BY <1>2, <1>3, <1>4 DEF IInv

\* What the server leaves of the requests when it has taken n of them.
LEMMA Consumed ==
  ASSUME NEW S, NEW s \in Seq(S), NEW n \in 0 .. Len(s),
         NEW t, t = SubSeq(s, n + 1, Len(s))
  PROVE  /\ t \in Seq(S)
         /\ Len(t) = Len(s) - n
         /\ \A i \in DOMAIN t : t[i] = s[i + n] /\ i + n \in DOMAIN s
<1>1. Len(s) \in Nat /\ DOMAIN s = 1 .. Len(s) /\ n \in Nat
  OBVIOUS
<1>2. t = [i \in 1 .. Len(s) - n |-> s[i + n]]
  BY <1>1
<1>3. Len(s) - n \in Nat /\ \A i \in 1 .. Len(s) - n : i + n \in DOMAIN s
  BY <1>1
<1>4. \A i \in 1 .. Len(s) - n : s[i + n] \in S
  BY <1>3
<1>5. t \in Seq(S)
  BY <1>2, <1>3, <1>4
<1>6. Len(t) = Len(s) - n /\ DOMAIN t = 1 .. Len(s) - n
  BY <1>2, <1>3
<1> QED BY <1>2, <1>3, <1>5, <1>6

\* A request is sent: either it follows the others, or it is gone.
LEMMA Sent ==
  ASSUME TypeOK, NEW type \in RequestTypes, Send(type)
  PROVE  /\ toServer' \in Seq(Requests) /\ Len(toServer') <= StreamCap
         /\ \/ UNCHANGED toServer /\ (fd = "closed" \/ link = "down")
            \/ toServer' = Append(toServer, [type |-> type, member |-> Member(type),
                                             id |-> request])
<1>1. [type |-> type, member |-> Member(type), id |-> request] \in Requests
  BY DEF TypeOK, Requests, Member
<1>2. CASE UNCHANGED toServer /\ (fd = "closed" \/ link = "down")
  BY <1>2 DEF TypeOK
<1>3. CASE /\ Len(toServer) < StreamCap
           /\ toServer' = Append(toServer, [type |-> type, member |-> Member(type),
                                            id |-> request])
  <2>1. StreamCap \in Nat
    BY ClientAssumption
  <2> QED BY <1>1, <1>3, <2>1 DEF TypeOK
<1> QED BY <1>2, <1>3 DEF Send

\* What the chat menu sends is not answered.
LEMMA UnansweredSent ==
  ASSUME TypeOK, Asked = {}, NEW type \in RequestTypes, Send(type),
         type \notin {"LOGIN_MSG", "REGISTE_MSG"}
  PROVE  Asked' = {}
  BY DEF TypeOK, Asked, Send

-----------------------------------------------------------------------------

\* The main thread.  It types and sends when nothing is under way, and goes
\* on from a wait with what the reader thread left in the shared variables.
LEMMA MainInv ==
  ASSUME IInv,
         \/ \E u \in Users \cup {NoUser}, in \in {"good", "failed"} : ChooseLogin(u, in)
         \/ \E in \in {"good", "failed"} : ChooseRegister(in)
         \/ SendLogin \/ SendRegister \/ SemWait \/ CheckLogin
         \/ \E type \in Commands : Command(type)
         \/ Loginout \/ InputFails \/ QuitClose \/ QuitExit \/ SigPipe
  PROVE  IInv'
<1> USE DEF Gone, Wire, Exclusive, Room, SameUser, Friends, Leading, Doomed,
            Asked, Serving, Answered, Handling, Posted, Quiet, Mine, Member,
            ReaderInAck, Waiting, serverVars, readerVars, sharedVars, mainVars
<1>1. ASSUME NEW u \in Users \cup {NoUser}, NEW in \in {"good", "failed"}, ChooseLogin(u, in)
      PROVE  IInv'
  <2>1. request' \in Users \cup {NoUser} /\ loginSuccess' \in BOOLEAN
    BY <1>1 DEF ChooseLogin
  <2>2. TypeOK'
    BY <1>1, <2>1 DEF IInv, TypeOK, ChooseLogin
  <2> QED BY <1>1, <2>2 DEF IInv, ChooseLogin
<1>2. ASSUME NEW in \in {"good", "failed"}, ChooseRegister(in) PROVE IInv'
  BY <1>2 DEF IInv, TypeOK, ChooseRegister
<1>3. CASE SendLogin
  <2>1. Send("LOGIN_MSG") /\ "LOGIN_MSG" \in RequestTypes
    BY <1>3 DEF SendLogin, RequestTypes
  <2>2. toServer' \in Seq(Requests) /\ Len(toServer') <= StreamCap
    BY <2>1, Sent DEF IInv
  <2>3. TypeOK'
    BY <1>3, <2>2 DEF IInv, TypeOK, SendLogin
  <2>4. Wire' /\ Exclusive' /\ Room'
    BY <1>3, <2>1 DEF IInv, TypeOK, SendLogin, Send
  <2>5. SameUser' /\ Friends'
    BY <1>3, <2>1 DEF IInv, TypeOK, SendLogin, Send
  <2> QED BY <1>3, <2>3, <2>4, <2>5 DEF IInv, SendLogin
<1>4. CASE SendRegister
  <2>1. Send("REGISTE_MSG") /\ "REGISTE_MSG" \in RequestTypes
    BY <1>4 DEF SendRegister, RequestTypes
  <2>2. toServer' \in Seq(Requests) /\ Len(toServer') <= StreamCap
    BY <2>1, Sent DEF IInv
  <2>3. TypeOK'
    BY <1>4, <2>2 DEF IInv, TypeOK, SendRegister
  <2>4. Wire' /\ Exclusive' /\ Room'
    BY <1>4, <2>1 DEF IInv, TypeOK, SendRegister, Send
  <2>5. SameUser' /\ Friends'
    BY <1>4, <2>1 DEF IInv, TypeOK, SendRegister, Send
  <2> QED BY <1>4, <2>3, <2>4, <2>5 DEF IInv, SendRegister
<1>5. CASE SemWait
  BY <1>5 DEF IInv, TypeOK, SemWait
<1>6. CASE CheckLogin
  BY <1>6 DEF IInv, TypeOK, CheckLogin
<1>7. ASSUME NEW type \in Commands, Command(type) PROVE IInv'
  <2>1. /\ Send(type) /\ type \in RequestTypes
        /\ type \notin {"LOGIN_MSG", "REGISTE_MSG"}
    BY <1>7 DEF Command, RequestTypes, Commands
  <2>2. toServer' \in Seq(Requests) /\ Len(toServer') <= StreamCap
    BY <2>1, Sent DEF IInv
  <2>3. TypeOK'
    BY <1>7, <2>2 DEF IInv, TypeOK, Command
  <2>4. Asked = {} /\ Asked' = {}
    BY <1>7, <2>1, UnansweredSent DEF IInv, Command
  <2>5. Wire'
    BY <1>7, <2>1 DEF IInv, TypeOK, Command, Send
  <2>6. Exclusive' /\ Room' /\ SameUser'
    BY <1>7, <2>4 DEF IInv, TypeOK, Command
  <2>7. Friends'
    BY <1>7, <2>1 DEF IInv, TypeOK, Command, Send
  <2> QED BY <1>7, <2>3, <2>5, <2>6, <2>7 DEF IInv, Command
<1>8. CASE Loginout
  <2>1. /\ Send("LOGINOUT_MSG") /\ "LOGINOUT_MSG" \in RequestTypes
        /\ "LOGINOUT_MSG" \notin {"LOGIN_MSG", "REGISTE_MSG"}
    BY <1>8 DEF Loginout, RequestTypes
  <2>2. toServer' \in Seq(Requests) /\ Len(toServer') <= StreamCap
    BY <2>1, Sent DEF IInv
  <2>3. TypeOK'
    BY <1>8, <2>2 DEF IInv, TypeOK, Loginout
  <2>4. Asked = {} /\ Asked' = {}
    BY <1>8, <2>1, UnansweredSent DEF IInv, Loginout
  <2>5. Wire'
    BY <1>8, <2>1 DEF IInv, TypeOK, Loginout, Send
  <2>6. Exclusive' /\ Room' /\ SameUser'
    BY <1>8, <2>4 DEF IInv, TypeOK, Loginout
  <2>7. Friends'
    BY <1>8, <2>1 DEF IInv, TypeOK, Loginout, Send
  <2> QED BY <1>8, <2>3, <2>5, <2>6, <2>7 DEF IInv, Loginout
<1>9. CASE InputFails
  BY <1>9 DEF IInv, TypeOK, InputFails
<1>10. CASE QuitClose
  BY <1>10 DEF IInv, TypeOK, QuitClose
<1>11. CASE QuitExit \/ SigPipe
  BY <1>11 DEF IInv, TypeOK, QuitExit, SigPipe, End
<1> QED BY <1>1, <1>2, <1>3, <1>4, <1>5, <1>6, <1>7, <1>8, <1>9, <1>10, <1>11

\* The reader thread.  The answer it takes from the connection is the one
\* the main thread waits for; it posts when it is through with it.
LEMMA ReaderInv == ASSUME IInv, ReaderStep PROVE IInv'
<1> USE DEF Gone, Wire, Exclusive, Room, SameUser, Friends, Leading, Doomed,
            Asked, Serving, Answered, Handling, Posted, Quiet, Mine, Member,
            ReaderInAck, Waiting, serverVars, readerVars, sharedVars, mainVars
<1>1. CASE ReaderRecv
  <2>1. CASE ReaderCrash
    BY <1>1, <2>1 DEF IInv, TypeOK, ReaderCrash, End
  <2>2. CASE UNCHANGED life
    <3>1. inbox # <<>> /\ inbox \in Seq(Replies)
      BY <1>1 DEF ReaderRecv, IInv, TypeOK
    <3>2. /\ Head(inbox) \in Replies /\ Tail(inbox) \in Seq(Replies)
          /\ Len(Tail(inbox)) = Len(inbox) - 1
          /\ 1 \in DOMAIN inbox /\ inbox[1] = Head(inbox)
          /\ \A i \in DOMAIN Tail(inbox) :
               Tail(inbox)[i] = inbox[i + 1] /\ i + 1 \in DOMAIN inbox
      BY <3>1
    <3>3. /\ reply' = Head(inbox) /\ inbox' = Tail(inbox)
          /\ reader = "recv"
          /\ reader' = CASE reply'.type = "ONE_CHAT_MSG"    -> "recv"
                         [] reply'.type = "REGISTE_MSG_ACK" -> "post"
                         [] OTHER -> IF reply'.errno = 0 THEN "user" ELSE "flag"
          /\ UNCHANGED <<life, mainVars, sharedVars, serverVars, fd, link, toServer>>
      BY <1>1, <2>2 DEF ReaderRecv, ReaderCrash, End
    <3>4. TypeOK'
      <4>1. reader' \in ReaderInAck \cup {"recv", "leaving"}
        BY <3>3
      <4>2. Len(inbox') <= StreamCap + 1
        BY <3>2, <3>3, ClientAssumption DEF IInv, TypeOK
      <4> QED BY <3>2, <3>3, <4>1, <4>2 DEF IInv, TypeOK
    <3>5. Gone' /\ Wire'
      BY <3>3 DEF IInv
    <3>6. CASE Head(inbox).type = "ONE_CHAT_MSG"
      <4>1. Exclusive' /\ Room'
        BY <3>1, <3>2, <3>3, <3>6, ClientAssumption DEF IInv, TypeOK
      <4>2. SameUser' /\ Friends'
        BY <3>1, <3>2, <3>3, <3>6 DEF IInv, TypeOK
      <4> QED BY <3>4, <3>5, <4>1, <4>2 DEF IInv
    <3>7. CASE Head(inbox).type # "ONE_CHAT_MSG"
      <4>1. 1 \in Answered /\ Answered' = {} /\ Head(inbox).type = "LOGIN_MSG_ACK"
        BY <3>2, <3>3, <3>7 DEF IInv, TypeOK
      <4>2. Exclusive' /\ Room'
        BY <3>1, <3>2, <3>3, <4>1, ClientAssumption DEF IInv, TypeOK
      <4>3. SameUser' /\ Friends'
        BY <3>1, <3>2, <3>3, <4>1 DEF IInv, TypeOK
      <4> QED BY <3>4, <3>5, <4>2, <4>3 DEF IInv
    <3> QED BY <3>6, <3>7
  <2> QED BY <1>1, <2>1, <2>2 DEF ReaderRecv
<1>2. CASE ReaderThrows
  BY <1>2 DEF IInv, TypeOK, ReaderThrows, ReaderCrash, End
<1>3. CASE AckUser
  BY <1>3 DEF IInv, TypeOK, AckUser, Replies
<1>4. CASE AckFriends
  BY <1>4 DEF IInv, TypeOK, AckFriends, Replies
<1>5. CASE AckOffline
  BY <1>5 DEF IInv, TypeOK, AckOffline, ReaderCrash, End
<1>6. CASE AckFlag
  BY <1>6 DEF IInv, TypeOK, AckFlag
<1>7. CASE SemPost
  <2>1. TypeOK'
    BY <1>7 DEF IInv, TypeOK, SemPost
  <2>2. Gone' /\ Wire' /\ Exclusive' /\ Room' /\ SameUser'
    BY <1>7 DEF IInv, TypeOK, SemPost
  <2>3. reply.errno = 0 => loginSuccess
    BY <1>7 DEF IInv, SemPost
  <2>4. rwsem' > 0
    BY <1>7 DEF IInv, TypeOK, SemPost
  <2>5. Friends'
    BY <1>7, <2>3, <2>4 DEF IInv, TypeOK, SemPost
  <2> QED BY <2>1, <2>2, <2>5 DEF IInv
<1>8. CASE ReaderClose
  BY <1>8 DEF IInv, TypeOK, ReaderClose
<1>9. CASE ReaderExit
  BY <1>9 DEF IInv, TypeOK, ReaderExit, End
<1> QED BY <1>1, <1>2, <1>3, <1>4, <1>5, <1>6, <1>7, <1>8, <1>9 DEF ReaderStep

\* The only request that the server does not fail on is a login, and then
\* there is no other one.
LEMMA LoginTaken ==
  ASSUME IInv, NEW n \in 0 .. Len(toServer), NEW half \in BOOLEAN,
         Segment(n, half), ~ Throws(n), Consume(n, half)
  PROVE  /\ Head(toServer).type = "LOGIN_MSG" /\ Head(toServer).id = request
         /\ main = "waitLogin" /\ Asked # {}
         /\ toServer' = <<>> /\ cut' \in BOOLEAN
         /\ friends = NoUser
<1>1. n \in 1 .. Len(toServer) /\ 1 \in DOMAIN toServer
      /\ Head(toServer) = toServer[1] /\ toServer[1] \in Requests
  BY DEF IInv, TypeOK, Throws
<1>2. toServer[1].type = "LOGIN_MSG"
  BY <1>1 DEF IInv, Wire, Throws, Member
<1>3. 1 \in Asked
  BY <1>1, <1>2 DEF Asked
<1>4. Len(toServer) = 1 /\ n = 1
  <2>1. 1 = Len(toServer)
    BY <1>1, <1>3 DEF IInv, Wire
  <2> QED BY <1>1, <2>1
<1>5. toServer' = <<>>
  BY <1>4 DEF IInv, TypeOK, Consume
<1>6. ~ Leading
  BY <1>1, <1>2, <1>3 DEF IInv, Wire, Exclusive, Leading, Handling, ReaderInAck
<1>7. ~ Doomed
  BY <1>1, <1>2, <1>4 DEF IInv, TypeOK, Wire, Member, Doomed, Segment
<1> QED BY <1>1, <1>2, <1>3, <1>5, <1>6, <1>7 DEF IInv, Wire, Friends, Consume

\* A message to the client follows those on the way.
LEMMA Written ==
  ASSUME IInv, NEW m \in Replies, inbox' = Append(inbox, m)
  PROVE  /\ inbox' \in Seq(Replies) /\ Len(inbox') = Len(inbox) + 1
         /\ \A i \in DOMAIN inbox : i \in DOMAIN inbox' /\ inbox'[i] = inbox[i]
         /\ inbox'[Len(inbox) + 1] = m
         /\ Answered' = Answered \cup
              {i \in {Len(inbox) + 1} : m.type # "ONE_CHAT_MSG"}
<1>1. inbox \in Seq(Replies)
  BY DEF IInv, TypeOK
<1>2. DOMAIN inbox = 1 .. Len(inbox) /\ DOMAIN inbox' = 1 .. Len(inbox) + 1
  BY <1>1
<1>3. /\ \A i \in DOMAIN inbox : i \in DOMAIN inbox' /\ inbox'[i] = inbox[i]
      /\ inbox'[Len(inbox) + 1] = m
  BY <1>1
<1>4. \A i \in DOMAIN inbox' : i \in DOMAIN inbox \/ i = Len(inbox) + 1
  BY <1>1, <1>2
<1>5. Answered' = Answered \cup {i \in {Len(inbox) + 1} : m.type # "ONE_CHAT_MSG"}
  BY <1>1, <1>2, <1>3, <1>4 DEF Answered
<1> QED BY <1>1, <1>3, <1>5

\* The server, and the others who write to the connection through it.  It
\* takes a request apart only if a login is the first of them, and then
\* that is the only one.
LEMMA ServerInv == ASSUME IInv, ServerStep \/ ServerFails \/ Forward PROVE IInv'
<1> USE DEF Gone, Wire, Exclusive, Room, SameUser, Friends, Leading, Doomed,
            Asked, Serving, Answered, Handling, Posted, Quiet, Mine, Member,
            ReaderInAck, Waiting, serverVars, readerVars, sharedVars, mainVars
<1>1. ASSUME ServerEnds PROVE IInv'
  <2>1. TypeOK'
    <3>1. /\ <<>> \in Seq(Replies) /\ Len(<<>>) <= StreamCap + 1
          /\ inbox \in Seq(Replies) /\ Len(inbox) <= StreamCap + 1
      BY ClientAssumption DEF IInv, TypeOK
    <3>2. inbox' \in Seq(Replies) /\ Len(inbox') <= StreamCap + 1
      BY <1>1, <3>1 DEF ServerEnds
    <3> QED BY <1>1, <3>2 DEF IInv, TypeOK, ServerEnds
  <2>2. CASE inbox' = inbox
    BY <1>1, <2>1, <2>2 DEF IInv, ServerEnds
  <2>3. CASE inbox' = <<>>
    BY <1>1, <2>1, <2>3, ClientAssumption DEF IInv, ServerEnds
  <2> QED BY <1>1, <2>2, <2>3 DEF ServerEnds
<1>2. ASSUME NEW n \in 0 .. Len(toServer), NEW half \in BOOLEAN,
             ServerAnswers(n, half)
      PROVE  IInv'
  <2>1. /\ Head(toServer).type = "LOGIN_MSG" /\ Asked # {}
        /\ main = "waitLogin" /\ toServer' = <<>> /\ cut' \in BOOLEAN
        /\ friends = NoUser
    BY <1>2, LoginTaken DEF ServerAnswers
  <2>2. PICK e \in 1 .. 2 : inbox' = inbox \o <<Reply("LOGIN_MSG_ACK", e)>>
    BY <1>2, <2>1 DEF ServerAnswers, Answers
  <2>3. inbox' = Append(inbox, [type |-> "LOGIN_MSG_ACK", errno |-> e,
                                id |-> NoUser, friends |-> FALSE,
                                printable |-> TRUE])
    BY <2>2 DEF IInv, TypeOK, Reply
  <2>4. [type |-> "LOGIN_MSG_ACK", errno |-> e,
         id |-> NoUser, friends |-> FALSE, printable |-> TRUE] \in Replies
    BY DEF Replies
  <2> HIDE DEF Answered
  <2>5. /\ inbox' \in Seq(Replies) /\ Len(inbox') = Len(inbox) + 1
        /\ Answered' = Answered \cup {Len(inbox) + 1}
        /\ inbox'[Len(inbox) + 1].type = "LOGIN_MSG_ACK"
        /\ inbox'[Len(inbox) + 1].errno # 0
    BY <2>3, <2>4, Written
  <2>6. Asked' = {} /\ Answered = {} /\ ~ Serving /\ ~ Handling /\ ~ Posted
        /\ Len(inbox) <= StreamCap
    BY <2>1 DEF IInv
  <2>7. TypeOK'
    <3>1. toServer' \in Seq(Requests) /\ Len(toServer') <= StreamCap
          /\ Len(inbox') <= StreamCap + 1
      BY <2>1, <2>5, <2>6, ClientAssumption DEF IInv, TypeOK
    <3> QED BY <1>2, <2>1, <2>5, <3>1 DEF ServerAnswers, IInv, TypeOK
  <2>8. Gone' /\ Wire' /\ Exclusive' /\ Room'
    BY <1>2, <2>1, <2>5, <2>6 DEF ServerAnswers, IInv, TypeOK
  <2>9. SameUser'
    BY <1>2, <2>1, <2>5, <2>6 DEF ServerAnswers, IInv, TypeOK
  <2>10. Friends'
    BY <1>2, <2>1, <2>5, <2>6 DEF ServerAnswers, IInv, TypeOK
  <2> QED BY <2>7, <2>8, <2>9, <2>10 DEF IInv
<1>3. ASSUME NEW n \in 0 .. Len(toServer), NEW half \in BOOLEAN,
             ServerAccepts(n, half)
      PROVE  IInv'
  <2>1. toServer' \in Seq(Requests) /\ Len(toServer') <= StreamCap
    BY <1>3, Consumed, ClientAssumption DEF IInv, TypeOK, ServerAccepts, Consume
  <2> QED BY <1>3, <2>1 DEF IInv, TypeOK, ServerAccepts, Segment, Throws, Consume
<1>4. CASE ServerAck
  <2>1. PICK printable \in BOOLEAN :
          inbox' = Append(inbox, [type |-> "LOGIN_MSG_ACK", errno |-> 0,
                                  id |-> serverUser,
                                  friends |-> serverUser \in WithFriends,
                                  printable |-> printable])
    BY <1>4 DEF ServerAck
  <2>2. [type |-> "LOGIN_MSG_ACK", errno |-> 0, id |-> serverUser,
         friends |-> serverUser \in WithFriends,
         printable |-> printable] \in Replies
    BY DEF Replies, IInv, TypeOK
  <2> HIDE DEF Answered
  <2>3. /\ inbox' \in Seq(Replies) /\ Len(inbox') = Len(inbox) + 1
        /\ Answered' = Answered \cup {Len(inbox) + 1}
        /\ inbox'[Len(inbox) + 1].type = "LOGIN_MSG_ACK"
        /\ inbox'[Len(inbox) + 1].id = serverUser
    BY <2>1, <2>2, Written
  <2>4. Asked = {} /\ Answered = {} /\ main = "waitLogin" /\ Mine(serverUser)
        /\ ~ Handling /\ ~ Posted /\ Len(inbox) <= StreamCap
    BY <1>4 DEF IInv, ServerAck
  <2>5. TypeOK'
    <3>1. Len(inbox') <= StreamCap + 1
      BY <2>3, <2>4, ClientAssumption DEF IInv, TypeOK
    <3> QED BY <1>4, <2>3, <3>1 DEF ServerAck, IInv, TypeOK
  <2>6. Gone' /\ Wire' /\ Exclusive' /\ Room'
    BY <1>4, <2>3, <2>4 DEF ServerAck, IInv, TypeOK
  <2>7. SameUser' /\ Friends'
    BY <1>4, <2>3, <2>4 DEF ServerAck, IInv, TypeOK
  <2> QED BY <2>5, <2>6, <2>7 DEF IInv
<1>5. CASE Forward
  <2>1. PICK printable \in BOOLEAN :
          inbox' = Append(inbox, [Reply("ONE_CHAT_MSG", 0) EXCEPT
                                    !.printable = printable])
    BY <1>5 DEF Forward
  <2> DEFINE m == [Reply("ONE_CHAT_MSG", 0) EXCEPT !.printable = printable]
  <2>2. m \in Replies
    <3>1. Reply("ONE_CHAT_MSG", 0) \in Replies
      BY DEF Reply, Replies
    <3> QED BY <3>1 DEF Replies
  <2>3. m.type = "ONE_CHAT_MSG"
    BY DEF Reply
  <2> HIDE DEF Answered
  <2>4. /\ inbox' \in Seq(Replies) /\ Len(inbox') = Len(inbox) + 1
        /\ \A i \in DOMAIN inbox : inbox'[i] = inbox[i]
        /\ Answered' = Answered
    BY <2>1, <2>2, <2>3, Written
  <2>5. Answered \subseteq DOMAIN inbox
    BY DEF Answered
  <2>6. TypeOK'
    BY <1>5, <2>4, ClientAssumption DEF Forward, IInv, TypeOK
  <2>7. Gone' /\ Wire' /\ Exclusive' /\ Room'
    BY <1>5, <2>4, <2>5, ClientAssumption DEF Forward, IInv, TypeOK
  <2>8. SameUser' /\ Friends'
    BY <1>5, <2>4, <2>5 DEF Forward, IInv, TypeOK
  <2> QED BY <2>6, <2>7, <2>8 DEF IInv
<1> QED BY <1>1, <1>2, <1>3, <1>4, <1>5
        DEF ServerStep, ServerThrows, ServerFails

\* The invariant is kept by every step, and so it always holds.
LEMMA NextInv == IInv /\ [Next]_vars => IInv'
<1> SUFFICES ASSUME IInv, [Next]_vars PROVE IInv'
  OBVIOUS
<1>1. CASE ReaderStep
  BY <1>1, ReaderInv
<1>2. CASE ServerStep \/ ServerFails \/ Forward
  BY <1>2, ServerInv
<1>3. CASE UNCHANGED vars
  BY <1>3 DEF vars, IInv, TypeOK, Gone, Wire, Exclusive, Room, SameUser,
              Friends, Leading, Doomed, Asked, Serving, Answered, Handling,
              Posted, Quiet, Mine
<1> QED BY <1>1, <1>2, <1>3, MainInv DEF Next

THEOREM Invariance == Spec => []IInv
  BY InitInv, NextInv, PTL DEF Spec

-----------------------------------------------------------------------------

\* The variables keep to their types; the semaphore stays 0 or 1, and an
\* answer finds room behind what others forward.
THEOREM TypeCorrect == Spec => []TypeOK
<1>1. IInv => TypeOK
  BY DEF IInv
<1> QED BY <1>1, Invariance, PTL

\* One request, one answer, one post: at most one of them is under way, and
\* only while the main thread waits.
THEOREM OneAtATime == Spec => []OneAnswer
<1>1. ASSUME IInv PROVE OneAnswer
  <2>1. Cardinality(Asked) = IF Asked = {} THEN 0 ELSE 1
    <3>1. \A i \in Asked : Asked = {i}
      BY <1>1 DEF IInv, Wire, Asked
    <3> QED BY <3>1, FS_EmptySet, FS_Singleton
  <2>2. Cardinality(Answered) = IF Answered = {} THEN 0 ELSE 1
    <3>1. \A i \in Answered : Answered = {i}
      BY <1>1 DEF IInv, Exclusive
    <3> QED BY <3>1, FS_EmptySet, FS_Singleton
  <2>3. rwsem \in 0 .. 1
    BY <1>1 DEF IInv, TypeOK
  <2>4. Outstanding = Cardinality(Asked) + (IF Serving THEN 1 ELSE 0)
                      + Cardinality(Answered) + (IF Handling THEN 1 ELSE 0)
                      + rwsem
    BY DEF Outstanding, Asked, Answered, Serving, Handling
  <2>5. Outstanding <= IF main \in Waiting THEN 1 ELSE 0
    <3> HIDE DEF Asked, Answered, Serving, Handling
    <3> QED BY <1>1, <2>1, <2>2, <2>3, <2>4 DEF IInv, Exclusive, Quiet, Posted
  <2> QED BY <2>5 DEF OneAnswer
<1> QED BY <1>1, Invariance, PTL

\* The chat menu opens for the user whose id was typed last.
THEOREM MenuOfTheUser == Spec => []MenuIsMine
<1>1. IInv => MenuIsMine
  BY DEF IInv, SameUser, Mine, MenuIsMine
<1> QED BY <1>1, Invariance, PTL

\* And it shows that user's friends, or none.
THEOREM FriendsOfTheUser == Spec => []FriendsAreMine
<1>1. IInv => FriendsAreMine
  BY DEF IInv, Friends, Leading, Doomed, FriendsAreMine
<1> QED BY <1>1, Invariance, PTL

\* A registration is never answered: the server fails on every REGISTE_MSG,
\* so that the main thread waits in vain until the reader ends the process.
THEOREM RegistrationUnanswered == Spec => [](main = "waitRegister" => rwsem = 0)
<1>1. IInv => (main = "waitRegister" => rwsem = 0)
  BY DEF IInv, TypeOK, Exclusive, Posted
<1> QED BY <1>1, Invariance, PTL
=============================================================================
