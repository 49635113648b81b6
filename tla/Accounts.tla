------------------------------ MODULE Accounts ------------------------------
(***************************************************************************)
(* Registration, friends and groups: ChatService::registe, addFriend and   *)
(* createGroup, and the query of login on the table friend, over the       *)
(* tables user, friend, allgroup and groupuser.                            *)
(*                                                                         *)
(* The handlers share nothing but the database, so it does not matter      *)
(* which server a connection was dealt to.  One step is one auto-committed *)
(* statement, on a database connection of its own.  A statement may fail,  *)
(* before or after it took effect.  Of a row only the columns that relate  *)
(* tables are kept: column state is module Session's.                      *)
(***************************************************************************)
CONSTANTS
  Conns,       \* client connections with a request at a time
  Ids,         \* AUTO_INCREMENT ids of users
  Names,       \* names of users
  GroupIds,    \* AUTO_INCREMENT ids of groups
  GroupNames,  \* names of groups
  None,        \* the id -1 of a User or Group without one; no name
  Strict,      \* sql_mode refuses a value that is not in an enum
  DbMayFail,   \* TRUE if MySQL::connect or a statement may fail
  MayCrash     \* TRUE if a server may end inside a handler

ASSUME AccountsAssumption ==
  /\ None \notin Ids \cup Names \cup GroupIds \cup GroupNames
  /\ Strict \in BOOLEAN /\ DbMayFail \in BOOLEAN /\ MayCrash \in BOOLEAN

VARIABLES
  user,       \* table user: id and name
  friend,     \* table friend: pairs userid, friendid
  allgroup,   \* table allgroup: id and name
  groupuser,  \* table groupuser
  pc,         \* where the handler of a connection stands
  name,       \* its local variable: the name to be inserted
  id,         \* the id of its User or Group object, None until it is set
  userid,     \* the member "id" of a CREATE_GROUP_MSG
  told,       \* the last REGISTE_MSG_ACK: the name asked for, and the id
  shown,      \* the friends in the last LOGIN_MSG_ACK
  founder,    \* history: who asked for a group
  abandoned   \* history: groups whose creator will not be inserted

tables  == <<user, friend, allgroup, groupuser>>
locals  == <<pc, name, id, userid>>
answers == <<told, shown>>
history == <<founder, abandoned>>
vars    == <<user, friend, allgroup, groupuser, pc, name, id, userid, told,
             shown, founder, abandoned>>

Untold == [name |-> None, id |-> None]

\* What the enum of column grouprole, which knows 'creator' and 'normal',
\* makes of the role that createGroup writes.
StoredRoles == IF Strict THEN {} ELSE {""}

TypeOK ==
  /\ user \subseteq [id : Ids, name : Names]
  /\ friend \subseteq Ids \X Ids
  /\ allgroup \subseteq [id : GroupIds, name : GroupNames]
  /\ groupuser \subseteq [groupid : GroupIds, userid : Ids, grouprole : {""}]
  /\ pc \in [Conns -> {"idle", "insertUser", "answer", "insertGroup", "addGroup"}]
  /\ name \in [Conns -> Names \cup GroupNames \cup {None}]
  /\ id \in [Conns -> Ids \cup GroupIds \cup {None}]
  /\ userid \in [Conns -> Ids \cup {None}]
  /\ told \in [Conns -> [name : Names \cup {None}, id : Ids \cup {None}]]
  /\ shown \in [Conns -> SUBSET (Ids \X Ids)]
  /\ founder \in [GroupIds -> Ids \cup {None}]
  /\ abandoned \subseteq GroupIds

Init ==
  /\ user = {} /\ friend = {} /\ allgroup = {} /\ groupuser = {}
  /\ pc = [c \in Conns |-> "idle"]
  /\ name = [c \in Conns |-> None]
  /\ id = [c \in Conns |-> None]
  /\ userid = [c \in Conns |-> None]
  /\ told = [c \in Conns |-> Untold]
  /\ shown = [c \in Conns |-> {}]
  /\ founder = [g \in GroupIds |-> None]
  /\ abandoned = {}

-----------------------------------------------------------------------------
(* Statements.                                                             *)

\* The table takes a row of its next id i and name n.
Accepts(rows, i, n) ==
  /\ i \notin {r.id : r \in rows}
  /\ n \notin {r.name : r \in rows}

\* The table refuses a row of name n, or the statement does not get through.
Refuses(rows, n) == n \in {r.name : r \in rows} \/ DbMayFail

\* The handler of c is over; its local variables are gone.
Return(c) ==
  /\ pc' = [pc EXCEPT ![c] = "idle"]
  /\ name' = [name EXCEPT ![c] = None]
  /\ id' = [id EXCEPT ![c] = None]
  /\ userid' = [userid EXCEPT ![c] = None]

\* A request comes in on c; what the client was told before is history.
Request(c, step) ==
  /\ pc[c] = "idle"
  /\ pc' = [pc EXCEPT ![c] = step]
  /\ told' = [told EXCEPT ![c] = Untold]
  /\ shown' = [shown EXCEPT ![c] = {}]

-----------------------------------------------------------------------------
(* ChatService::registe.                                                   *)

Registe(c, n) ==
  /\ Request(c, "insertUser")
  /\ name' = [name EXCEPT ![c] = n]
  /\ UNCHANGED <<tables, id, userid, history>>

\* UserModel::insert.  If the reply of a statement that was carried out is
\* lost, the handler sees a failure.
InsertUser(c) ==
  /\ pc[c] = "insertUser"
  /\ pc' = [pc EXCEPT ![c] = "answer"]
  /\ \/ \E i \in Ids :
          /\ Accepts(user, i, name[c])
          /\ user' = user \cup {[id |-> i, name |-> name[c]]}
          /\ \/ id' = [id EXCEPT ![c] = i]
             \/ DbMayFail /\ UNCHANGED id
     \/ Refuses(user, name[c]) /\ UNCHANGED <<user, id>>
  /\ UNCHANGED <<friend, allgroup, groupuser, name, userid, answers, history>>

\* Mutant: the id is read back from the table, without the name.
AnswerWithLastId(c) ==
  /\ pc[c] = "answer"
  /\ \E r \in user : told' = [told EXCEPT ![c] = [name |-> name[c], id |-> r.id]]
  /\ Return(c)
  /\ UNCHANGED <<tables, shown, history>>

\* errno 0 with the id, or errno 1 with the id -1, on which the client says
\* that the name exists.
Answer(c) ==
  /\ pc[c] = "answer"
  /\ told' = [told EXCEPT ![c] = [name |-> name[c], id |-> id[c]]]
  /\ Return(c)
  /\ UNCHANGED <<tables, shown, history>>

-----------------------------------------------------------------------------
(* ChatService::addFriend, and what login makes of it.                     *)

\* Neither id is looked up, and nobody is told how it went.  A second row
\* of the same pair repeats a line of the list and is left out.
AddFriend(c, u, v) ==
  /\ Request(c, "idle")
  /\ \/ friend' = friend \cup {<<u, v>>}
     \/ DbMayFail /\ UNCHANGED friend
  /\ UNCHANGED <<user, allgroup, groupuser, name, id, userid, history>>

\* The rows of table friend of u, joined with table user.
FriendRows(u) == {p \in friend : p[1] = u /\ \E r \in user : r.id = p[2]}

\* login of u answers with its friends.  mysql_use_result fetches row by
\* row: a connection that breaks looks like the end of the rows.
LoginFriends(c, u) ==
  /\ \E r \in user : r.id = u
  /\ pc[c] = "idle"
  /\ \E rows \in IF DbMayFail THEN SUBSET FriendRows(u) ELSE {FriendRows(u)} :
       shown' = [shown EXCEPT ![c] = rows]
  /\ told' = [told EXCEPT ![c] = Untold]
  /\ UNCHANGED <<tables, locals, history>>

-----------------------------------------------------------------------------
(* ChatService::createGroup.                                               *)

CreateGroup(c, u, n) ==
  /\ Request(c, "insertGroup")
  /\ name' = [name EXCEPT ![c] = n]
  /\ userid' = [userid EXCEPT ![c] = u]
  /\ UNCHANGED <<tables, id, history>>

\* Mutant: a group that exists is taken for the one that was created.
InsertGroupOrFind(c) ==
  /\ pc[c] = "insertGroup"
  /\ \E g \in GroupIds :
       /\ pc' = [pc EXCEPT ![c] = "addGroup"]
       /\ id' = [id EXCEPT ![c] = g]
       /\ \/ /\ Accepts(allgroup, g, name[c])
             /\ allgroup' = allgroup \cup {[id |-> g, name |-> name[c]]}
             /\ founder' = [founder EXCEPT ![g] = userid[c]]
          \/ /\ [id |-> g, name |-> name[c]] \in allgroup
             /\ UNCHANGED <<allgroup, founder>>
  /\ UNCHANGED <<user, friend, groupuser, name, userid, answers, abandoned>>

\* GroupModel::createGroup; the handler goes on only if it returns true.
InsertGroup(c) ==
  /\ pc[c] = "insertGroup"
  /\ \/ \E g \in GroupIds :
          /\ Accepts(allgroup, g, name[c])
          /\ allgroup' = allgroup \cup {[id |-> g, name |-> name[c]]}
          /\ founder' = [founder EXCEPT ![g] = userid[c]]
          /\ \/ /\ pc' = [pc EXCEPT ![c] = "addGroup"]
                /\ id' = [id EXCEPT ![c] = g]
                /\ UNCHANGED <<name, userid, abandoned>>
             \/ DbMayFail /\ Return(c) /\ abandoned' = abandoned \cup {g}
     \/ /\ Refuses(allgroup, name[c])
        /\ Return(c)
        /\ UNCHANGED <<allgroup, history>>
  /\ UNCHANGED <<user, friend, groupuser, answers>>

\* Mutant: the id of the new group was not set.
AddGroupWithoutId(c) ==
  /\ pc[c] = "addGroup"
  /\ Return(c)
  /\ groupuser' = groupuser \cup
       {[groupid |-> None, userid |-> userid[c], grouprole |-> ""]}
  /\ UNCHANGED <<user, friend, allgroup, answers, history>>

\* GroupModel::addGroup, with the role "creater".  Nothing is answered.
AddGroup(c) ==
  /\ pc[c] = "addGroup"
  /\ Return(c)
  /\ \/ /\ \E role \in StoredRoles :
             groupuser' = groupuser \cup
               {[groupid |-> id[c], userid |-> userid[c], grouprole |-> role]}
        /\ UNCHANGED abandoned
     \/ /\ StoredRoles = {} \/ DbMayFail
        /\ abandoned' = abandoned \cup {id[c]}
        /\ UNCHANGED groupuser
  /\ UNCHANGED <<user, friend, allgroup, answers, founder>>

-----------------------------------------------------------------------------

\* The server ends inside the handler of c; the client comes back later.
Crash(c) ==
  /\ MayCrash /\ pc[c] # "idle"
  /\ Return(c)
  /\ abandoned' = IF pc[c] = "addGroup" THEN abandoned \cup {id[c]} ELSE abandoned
  /\ UNCHANGED <<tables, answers, founder>>

Next ==
  \E c \in Conns :
    \/ \E n \in Names : Registe(c, n)
    \/ InsertUser(c) \/ Answer(c)
    \/ \E u, v \in Ids : AddFriend(c, u, v)
    \/ \E u \in Ids : LoginFriends(c, u)
    \/ \E u \in Ids, n \in GroupNames : CreateGroup(c, u, n)
    \/ InsertGroup(c) \/ AddGroup(c)
    \/ Crash(c)

Spec == Init /\ [][Next]_vars

-----------------------------------------------------------------------------
(* Safety.                                                                 *)

\* A client that was told an id owns the row of that id, which has the name
\* it asked for, and no other client was told the same id: registrations
\* that race for a name or an id never mix up their answers.
ToldIsMine ==
  \A c \in Conns : told[c].id # None =>
    /\ told[c] \in user
    /\ \A d \in Conns \ {c} : told[d].id # told[c].id

\* The member of a group is the user who asked for it: createGroups that
\* race for a name never put one user into the group of the other.
MemberIsFounder ==
  \A m \in groupuser : /\ m.userid = founder[m.groupid]
                       /\ \E g \in allgroup : g.id = m.groupid

\* A group without a member is one whose createGroup is between its two
\* inserts or was cut off between them.
MemberlessIsAbandoned ==
  \A g \in allgroup :
    \/ g.id \in abandoned
    \/ \E m \in groupuser : m.groupid = g.id
    \/ \E c \in Conns : pc[c] = "addGroup" /\ id[c] = g.id

\* A group that was cut off stays without a member: a retry of createGroup
\* is refused for its name, and nothing else in the code repairs it.
AbandonedForGood ==
  [][\A m \in groupuser' \ groupuser : m.groupid \notin abandoned']_vars
=============================================================================
