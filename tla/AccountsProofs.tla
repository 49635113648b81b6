--------------------------- MODULE AccountsProofs ---------------------------
(* Proofs about Accounts, for any number of connections, users and groups. *)
EXTENDS Accounts, TLAPS

\* The local variables of a handler fit the step it is at.
Local ==
  \A c \in Conns :
    /\ pc[c] = "idle" => name[c] = None /\ id[c] = None /\ userid[c] = None
    /\ pc[c] = "insertUser" => name[c] \in Names /\ id[c] = None
    /\ pc[c] = "answer" => name[c] \in Names /\ id[c] \in Ids \cup {None}
    /\ pc[c] = "insertGroup" =>
         name[c] \in GroupNames /\ id[c] = None /\ userid[c] \in Ids
    /\ pc[c] = "addGroup" =>
         name[c] \in GroupNames /\ id[c] \in GroupIds /\ userid[c] \in Ids

\* A handler that is about to answer with an id owns the row of it, nobody
\* was told that id, and no other handler is about to answer with it.
Mine ==
  \A c \in Conns : pc[c] = "answer" /\ id[c] # None =>
    /\ [id |-> id[c], name |-> name[c]] \in user
    /\ \A d \in Conns : told[d].id # id[c]
    /\ \A d \in Conns \ {c} : pc[d] = "answer" => id[d] # id[c]

\* The ids of the groups.
Created == {g.id : g \in allgroup}

\* A handler that is about to insert the creator has the group that was
\* created for its user, no other handler has that group, and it is not
\* given up.
Founded ==
  \A c \in Conns : pc[c] = "addGroup" =>
    /\ id[c] \in Created
    /\ founder[id[c]] = userid[c]
    /\ id[c] \notin abandoned
    /\ \A d \in Conns \ {c} : pc[d] = "addGroup" => id[d] # id[c]

\* Only a group that was created is given up.
AbandonedExists == abandoned \subseteq Created

UserInv  == TypeOK /\ Local /\ Mine /\ ToldIsMine
GroupInv == Founded /\ AbandonedExists /\ MemberIsFounder /\ MemberlessIsAbandoned

\* The inductive invariant: an id that a table gives out is one that no
\* answer, handler, member or abandoned group refers to.
IInv == UserInv /\ GroupInv

-----------------------------------------------------------------------------

\* The initial state has empty tables and no handler at work.
LEMMA InitIInv == Init => IInv
  BY AccountsAssumption
  DEF Init, IInv, UserInv, GroupInv, TypeOK, Local, Mine, ToldIsMine, Founded,
      AbandonedExists, MemberIsFounder, MemberlessIsAbandoned, Untold

\* Every step keeps the types and the local variables of the handlers.
LEMMA TypeStep == TypeOK /\ Local /\ [Next]_vars => TypeOK' /\ Local'
<1> SUFFICES ASSUME TypeOK, Local, [Next]_vars PROVE TypeOK' /\ Local'
  OBVIOUS
<1> USE AccountsAssumption DEF TypeOK, Local, tables, locals, answers, history,
                               Request, Return, Untold
<1>0. [name |-> None, id |-> None] \in
        [name : Names \cup {None}, id : Ids \cup {None}]
  OBVIOUS
<1>1. ASSUME NEW c \in Conns, NEW n \in Names, Registe(c, n)
      PROVE  TypeOK' /\ Local'
  BY <1>1 DEF Registe
<1>2. ASSUME NEW c \in Conns, InsertUser(c) PROVE TypeOK' /\ Local'
  <2>1. ASSUME NEW i \in Ids,
               user' = user \cup {[id |-> i, name |-> name[c]]},
               id' = [id EXCEPT ![c] = i] \/ UNCHANGED id
        PROVE  TypeOK' /\ Local'
    <3>1. [id |-> i, name |-> name[c]] \in [id : Ids, name : Names]
      BY <1>2 DEF InsertUser
    <3>2. user' \subseteq [id : Ids, name : Names]
      BY <2>1, <3>1
    <3> QED BY <1>2, <2>1, <3>2 DEF InsertUser
  <2>2. CASE UNCHANGED <<user, id>>
    BY <1>2, <2>2 DEF InsertUser
  <2> QED BY <1>2, <2>1, <2>2 DEF InsertUser
<1>3. ASSUME NEW c \in Conns, Answer(c) PROVE TypeOK' /\ Local'
  <2>1. [name |-> name[c], id |-> id[c]] \in
          [name : Names \cup {None}, id : Ids \cup {None}]
    BY <1>3 DEF Answer
  <2>2. told' \in [Conns -> [name : Names \cup {None}, id : Ids \cup {None}]]
    BY <1>3, <2>1 DEF Answer
  <2> QED BY <1>3, <2>2 DEF Answer
<1>4. ASSUME NEW c \in Conns, NEW u \in Ids, NEW v \in Ids, AddFriend(c, u, v)
      PROVE  TypeOK' /\ Local'
  <2>1. told' = [told EXCEPT ![c] = [name |-> None, id |-> None]]
    BY <1>4 DEF AddFriend
  <2>2. told' \in [Conns -> [name : Names \cup {None}, id : Ids \cup {None}]]
    BY <1>0, <2>1
  <2>3. friend' \subseteq Ids \X Ids
    <3>1. <<u, v>> \in Ids \X Ids
      OBVIOUS
    <3>2. friend' \subseteq friend \cup {<<u, v>>}
      BY <1>4 DEF AddFriend
    <3> QED BY <3>1, <3>2
  <2>4. pc' = [pc EXCEPT ![c] = "idle"] /\ shown' \in [Conns -> SUBSET (Ids \X Ids)]
    BY <1>4 DEF AddFriend
  <2> QED BY <1>4, <2>2, <2>3, <2>4 DEF AddFriend
<1>5. ASSUME NEW c \in Conns, NEW u \in Ids, LoginFriends(c, u)
      PROVE  TypeOK' /\ Local'
  <2>1. PICK rows \in SUBSET (Ids \X Ids) : shown' = [shown EXCEPT ![c] = rows]
    BY <1>5 DEF LoginFriends, FriendRows
  <2>2. told' \in [Conns -> [name : Names \cup {None}, id : Ids \cup {None}]]
    BY <1>0, <1>5 DEF LoginFriends
  <2> QED BY <1>5, <2>1, <2>2 DEF LoginFriends
<1>6. ASSUME NEW c \in Conns, NEW u \in Ids, NEW n \in GroupNames,
             CreateGroup(c, u, n)
      PROVE  TypeOK' /\ Local'
  BY <1>6 DEF CreateGroup
<1>7. ASSUME NEW c \in Conns, InsertGroup(c) PROVE TypeOK' /\ Local'
  <2>1. ASSUME NEW g \in GroupIds,
               allgroup' = allgroup \cup {[id |-> g, name |-> name[c]]},
               founder' = [founder EXCEPT ![g] = userid[c]],
               \/ /\ pc' = [pc EXCEPT ![c] = "addGroup"]
                  /\ id' = [id EXCEPT ![c] = g]
                  /\ UNCHANGED <<name, userid, abandoned>>
               \/ Return(c) /\ abandoned' = abandoned \cup {g}
        PROVE  TypeOK' /\ Local'
    <3>1. [id |-> g, name |-> name[c]] \in [id : GroupIds, name : GroupNames]
      BY <1>7 DEF InsertGroup
    <3>2. allgroup' \subseteq [id : GroupIds, name : GroupNames]
      BY <2>1, <3>1
    <3>3. founder' \in [GroupIds -> Ids \cup {None}]
      BY <2>1
    <3>4. CASE /\ pc' = [pc EXCEPT ![c] = "addGroup"]
               /\ id' = [id EXCEPT ![c] = g]
               /\ UNCHANGED <<name, userid, abandoned>>
      BY <1>7, <3>2, <3>3, <3>4 DEF InsertGroup
    <3>5. CASE Return(c) /\ abandoned' = abandoned \cup {g}
      BY <1>7, <3>2, <3>3, <3>5 DEF InsertGroup
    <3> QED BY <2>1, <3>4, <3>5
  <2>2. CASE Return(c) /\ UNCHANGED <<allgroup, history>>
    BY <1>7, <2>2 DEF InsertGroup
  <2> QED BY <1>7, <2>1, <2>2 DEF InsertGroup
<1>8. ASSUME NEW c \in Conns, AddGroup(c) PROVE TypeOK' /\ Local'
  <2>1. groupuser' \subseteq [groupid : GroupIds, userid : Ids, grouprole : {""}]
    <3>1. [groupid |-> id[c], userid |-> userid[c], grouprole |-> ""] \in
            [groupid : GroupIds, userid : Ids, grouprole : {""}]
      BY <1>8 DEF AddGroup
    <3>2. \A role \in StoredRoles : role = ""
      BY DEF StoredRoles
    <3>3. CASE UNCHANGED groupuser
      BY <3>3
    <3>4. ASSUME NEW role \in StoredRoles,
                 groupuser' = groupuser \cup
                   {[groupid |-> id[c], userid |-> userid[c], grouprole |-> role]}
          PROVE  groupuser' \subseteq [groupid : GroupIds, userid : Ids, grouprole : {""}]
      BY <3>1, <3>2, <3>4
    <3> QED BY <1>8, <3>3, <3>4 DEF AddGroup
  <2>2. abandoned' \subseteq GroupIds
    BY <1>8 DEF AddGroup
  <2> QED BY <1>8, <2>1, <2>2 DEF AddGroup
<1>9. ASSUME NEW c \in Conns, Crash(c) PROVE TypeOK' /\ Local'
  BY <1>9 DEF Crash
<1>10. CASE UNCHANGED vars
  BY <1>10 DEF vars
<1> QED BY <1>1, <1>2, <1>3, <1>4, <1>5, <1>6, <1>7, <1>8, <1>9, <1>10 DEF Next

-----------------------------------------------------------------------------

\* Steps that insert no user and answer nothing keep Mine and ToldIsMine.
LEMMA UserFrame ==
  ASSUME TypeOK, Mine, ToldIsMine, UNCHANGED user,
         \A d \in Conns : pc'[d] = "answer" =>
           pc[d] = "answer" /\ id'[d] = id[d] /\ name'[d] = name[d],
         \A d \in Conns : told'[d] = told[d] \/ told'[d].id = None
  PROVE  Mine' /\ ToldIsMine'
<1>1. Mine'
  BY DEF Mine
<1>2. ToldIsMine'
  BY DEF ToldIsMine
<1> QED BY <1>1, <1>2

\* No step of registe mixes up the ids that clients are told.
LEMMA UserStep ==
  TypeOK /\ Local /\ Mine /\ ToldIsMine /\ [Next]_vars => Mine' /\ ToldIsMine'
<1> SUFFICES ASSUME TypeOK, Local, Mine, ToldIsMine, [Next]_vars
             PROVE  Mine' /\ ToldIsMine'
  OBVIOUS
<1> USE AccountsAssumption DEF tables, locals, answers, history, Request, Return,
                               Untold
<1>1. ASSUME NEW c \in Conns, NEW n \in Names, Registe(c, n)
      PROVE  Mine' /\ ToldIsMine'
  BY <1>1, UserFrame DEF Registe, TypeOK
<1>2. ASSUME NEW c \in Conns, InsertUser(c) PROVE Mine' /\ ToldIsMine'
  <2>1. ASSUME NEW i \in Ids, Accepts(user, i, name[c]),
               user' = user \cup {[id |-> i, name |-> name[c]]},
               id' = [id EXCEPT ![c] = i] \/ UNCHANGED id
        PROVE  Mine' /\ ToldIsMine'
    <3>1. \A d \in Conns : told[d].id # i
      BY <2>1 DEF ToldIsMine, Accepts
    <3>2. \A d \in Conns : pc[d] = "answer" => id[d] # i
      <4> SUFFICES ASSUME NEW d \in Conns, pc[d] = "answer", id[d] = i PROVE FALSE
        OBVIOUS
      <4>1. i # None
        OBVIOUS
      <4>2. [id |-> id[d], name |-> name[d]] \in user
        BY <4>1 DEF Mine
      <4> QED BY <2>1, <4>2 DEF Accepts
    <3>3. id[c] = None
      BY <1>2 DEF InsertUser, Local
    <3>4. Mine'
      <4> SUFFICES ASSUME NEW d \in Conns, pc'[d] = "answer", id'[d] # None
                   PROVE  /\ [id |-> id'[d], name |-> name'[d]] \in user'
                          /\ \A e \in Conns : told'[e].id # id'[d]
                          /\ \A e \in Conns \ {d} : pc'[e] = "answer" => id'[e] # id'[d]
        BY DEF Mine
      <4>1. told' = told /\ name' = name /\ pc' = [pc EXCEPT ![c] = "answer"]
        BY <1>2 DEF InsertUser
      <4>2. CASE d = c
        <5>1. id' = [id EXCEPT ![c] = i] /\ id'[c] = i
          BY <2>1, <3>3, <4>2 DEF TypeOK
        <5>2. [id |-> i, name |-> name[c]] \in user'
          BY <2>1
        <5>3. \A e \in Conns \ {c} : pc'[e] = pc[e] /\ id'[e] = id[e]
          BY <4>1, <5>1 DEF TypeOK
        <5> QED BY <3>1, <3>2, <4>1, <4>2, <5>1, <5>2, <5>3
      <4>3. CASE d # c
        <5>1. pc[d] = "answer" /\ id'[d] = id[d]
          BY <2>1, <4>1, <4>3 DEF TypeOK
        <5>2. id'[c] # id[d]
          BY <2>1, <3>2, <3>3, <5>1 DEF TypeOK
        <5>3. [id |-> id[d], name |-> name[d]] \in user
          BY <5>1 DEF Mine
        <5>4. \A e \in Conns : told[e].id # id[d]
          BY <5>1 DEF Mine
        <5>5. \A e \in Conns \ {d} : pc'[e] = "answer" => id'[e] # id[d]
          BY <2>1, <4>1, <5>1, <5>2 DEF Mine, TypeOK
        <5> QED BY <2>1, <4>1, <5>1, <5>3, <5>4, <5>5
      <4> QED BY <4>2, <4>3
    <3>5. ToldIsMine'
      BY <1>2, <2>1 DEF ToldIsMine, InsertUser
    <3> QED BY <3>4, <3>5
  <2>2. CASE UNCHANGED <<user, id>>
    <3>1. id[c] = None
      BY <1>2 DEF InsertUser, Local
    <3>2. Mine'
      BY <1>2, <2>2, <3>1 DEF Mine, InsertUser, TypeOK
    <3>3. ToldIsMine'
      BY <1>2, <2>2 DEF ToldIsMine, InsertUser
    <3> QED BY <3>2, <3>3
  <2> QED BY <1>2, <2>1, <2>2 DEF InsertUser
<1>3. ASSUME NEW c \in Conns, Answer(c) PROVE Mine' /\ ToldIsMine'
  <2>1. Mine'
    BY <1>3 DEF Mine, Answer, TypeOK
  <2>2. ToldIsMine'
    <3>1. \A d \in Conns \ {c} : told'[d] = told[d]
      BY <1>3 DEF Answer, TypeOK
    <3>2. told'[c] = [name |-> name[c], id |-> id[c]]
      BY <1>3 DEF Answer, TypeOK
    <3>3. user' = user /\ pc[c] = "answer"
      BY <1>3 DEF Answer
    <3>4. id[c] # None => told'[c] \in user /\ \A d \in Conns : told[d].id # id[c]
      BY <3>2, <3>3 DEF Mine
    <3> QED BY <3>1, <3>2, <3>3, <3>4 DEF ToldIsMine
  <2> QED BY <2>1, <2>2
<1>4. ASSUME NEW c \in Conns, NEW u \in Ids, NEW v \in Ids, AddFriend(c, u, v)
      PROVE  Mine' /\ ToldIsMine'
  BY <1>4, UserFrame DEF AddFriend, TypeOK
<1>5. ASSUME NEW c \in Conns, NEW u \in Ids, LoginFriends(c, u)
      PROVE  Mine' /\ ToldIsMine'
  BY <1>5, UserFrame DEF LoginFriends, TypeOK
<1>6. ASSUME NEW c \in Conns, NEW u \in Ids, NEW n \in GroupNames,
             CreateGroup(c, u, n)
      PROVE  Mine' /\ ToldIsMine'
  BY <1>6, UserFrame DEF CreateGroup, TypeOK
<1>7. ASSUME NEW c \in Conns, InsertGroup(c) PROVE Mine' /\ ToldIsMine'
  BY <1>7, UserFrame DEF InsertGroup, TypeOK
<1>8. ASSUME NEW c \in Conns, AddGroup(c) PROVE Mine' /\ ToldIsMine'
  BY <1>8, UserFrame DEF AddGroup, TypeOK
<1>9. ASSUME NEW c \in Conns, Crash(c) PROVE Mine' /\ ToldIsMine'
  BY <1>9, UserFrame DEF Crash, TypeOK
<1>10. CASE UNCHANGED vars
  BY <1>10, UserFrame DEF vars
<1> QED BY <1>1, <1>2, <1>3, <1>4, <1>5, <1>6, <1>7, <1>8, <1>9, <1>10 DEF Next
-----------------------------------------------------------------------------

\* Steps that leave the groups alone, and the handlers that insert a
\* creator, keep what is said of groups.
LEMMA GroupFrame ==
  ASSUME GroupInv, UNCHANGED <<allgroup, groupuser, founder, abandoned>>,
         \A d \in Conns : pc'[d] = "addGroup" <=> pc[d] = "addGroup",
         \A d \in Conns : pc[d] = "addGroup" =>
           id'[d] = id[d] /\ userid'[d] = userid[d]
  PROVE  GroupInv'
<1>1. Founded'
  BY DEF GroupInv, Founded, Created
<1>2. AbandonedExists'
  BY DEF GroupInv, AbandonedExists, Created
<1>3. MemberIsFounder'
  BY DEF GroupInv, MemberIsFounder
<1>4. MemberlessIsAbandoned'
  BY DEF GroupInv, MemberlessIsAbandoned
<1> QED BY <1>1, <1>2, <1>3, <1>4 DEF GroupInv

\* A handler that leaves without a creator inserted gives its group up.
LEMMA GroupGivenUp ==
  ASSUME TypeOK, GroupInv, NEW c \in Conns, pc[c] = "addGroup", Return(c),
         abandoned' = abandoned \cup {id[c]},
         UNCHANGED <<allgroup, groupuser, founder>>
  PROVE  GroupInv'
<1>1. \A d \in Conns \ {c} :
        pc'[d] = pc[d] /\ id'[d] = id[d] /\ userid'[d] = userid[d]
  BY DEF TypeOK, Return
<1>2. pc'[c] = "idle"
  BY DEF TypeOK, Return
<1>3. Founded'
  BY <1>1, <1>2 DEF GroupInv, Founded, Created
<1>4. AbandonedExists'
  BY DEF GroupInv, Founded, AbandonedExists, Created
<1>5. MemberIsFounder'
  BY DEF GroupInv, MemberIsFounder
<1>6. MemberlessIsAbandoned'
  BY <1>1, <1>2 DEF GroupInv, MemberlessIsAbandoned
<1> QED BY <1>3, <1>4, <1>5, <1>6 DEF GroupInv

\* A new group has an id that no group, member or handler had before.
LEMMA GroupCreated ==
  ASSUME TypeOK, GroupInv, NEW c \in Conns, InsertGroup(c), NEW g \in GroupIds,
         Accepts(allgroup, g, name[c]),
         allgroup' = allgroup \cup {[id |-> g, name |-> name[c]]},
         founder' = [founder EXCEPT ![g] = userid[c]],
         \/ /\ pc' = [pc EXCEPT ![c] = "addGroup"]
            /\ id' = [id EXCEPT ![c] = g]
            /\ UNCHANGED <<name, userid, abandoned>>
         \/ Return(c) /\ abandoned' = abandoned \cup {g}
  PROVE  GroupInv'
<1>1. g \notin Created
  BY DEF Created, Accepts
<1>2. Created' = Created \cup {g} /\ Created \subseteq GroupIds
  <2> DEFINE new == [id |-> g, name |-> name[c]]
  <2>1. allgroup' = allgroup \cup {new} /\ new.id = g
    OBVIOUS
  <2> HIDE DEF new
  <2>2. Created' = Created \cup {g}
    BY <2>1 DEF Created
  <2>3. Created \subseteq GroupIds
    <3>1. \A r \in allgroup : r.id \in GroupIds
      BY DEF TypeOK
    <3> QED BY <3>1 DEF Created
  <2> QED BY <2>2, <2>3
<1>3. /\ pc[c] = "insertGroup" /\ UNCHANGED groupuser
      /\ founder'[g] = userid[c]
      /\ \A i \in GroupIds \ {g} : founder'[i] = founder[i]
  BY DEF InsertGroup, TypeOK
<1>4. \A d \in Conns \ {c} :
        pc'[d] = pc[d] /\ id'[d] = id[d] /\ userid'[d] = userid[d]
  BY DEF TypeOK, Return
<1>5. \/ pc'[c] = "addGroup" /\ id'[c] = g /\ userid'[c] = userid[c] /\ abandoned' = abandoned
      \/ pc'[c] = "idle" /\ abandoned' = abandoned \cup {g}
  BY DEF TypeOK, Return
<1>6. Founded'
  <2> SUFFICES ASSUME NEW d \in Conns, pc'[d] = "addGroup"
               PROVE  /\ id'[d] \in Created'
                      /\ founder'[id'[d]] = userid'[d]
                      /\ id'[d] \notin abandoned'
                      /\ \A e \in Conns \ {d} : pc'[e] = "addGroup" => id'[e] # id'[d]
    BY DEF Founded
  <2>1. CASE d = c
    <3>1. \A e \in Conns \ {c} : pc[e] = "addGroup" => id[e] # g
      BY <1>1 DEF GroupInv, Founded
    <3>2. g \notin abandoned
      BY <1>1 DEF GroupInv, AbandonedExists
    <3> QED BY <1>2, <1>3, <1>4, <1>5, <2>1, <3>1, <3>2
  <2>2. CASE d # c
    <3>1. id[d] \in Created /\ id[d] # g /\ id[d] \in GroupIds
      BY <1>1, <1>2, <1>4, <2>2 DEF GroupInv, Founded
    <3>2. /\ founder[id[d]] = userid[d] /\ id[d] \notin abandoned
          /\ \A e \in Conns \ {d} : pc[e] = "addGroup" => id[e] # id[d]
      BY <1>4, <2>2 DEF GroupInv, Founded
    <3> QED BY <1>2, <1>3, <1>4, <1>5, <2>2, <3>1, <3>2
  <2> QED BY <2>1, <2>2
<1>7. AbandonedExists'
  BY <1>2, <1>5 DEF GroupInv, AbandonedExists
<1>8. MemberIsFounder'
  <2> SUFFICES ASSUME NEW m \in groupuser
               PROVE  m.userid = founder'[m.groupid] /\ \E r \in allgroup' : r.id = m.groupid
    BY <1>3 DEF MemberIsFounder
  <2>1. m.groupid \in GroupIds /\ m.groupid # g
    BY <1>1 DEF GroupInv, MemberIsFounder, Created, TypeOK
  <2> QED BY <1>3, <2>1 DEF GroupInv, MemberIsFounder
<1>9. MemberlessIsAbandoned'
  <2> SUFFICES ASSUME NEW r \in allgroup'
               PROVE  \/ r.id \in abandoned'
                      \/ \E m \in groupuser' : m.groupid = r.id
                      \/ \E d \in Conns : pc'[d] = "addGroup" /\ id'[d] = r.id
    BY DEF MemberlessIsAbandoned
  <2>1. CASE r \in allgroup
    BY <1>3, <1>4, <1>5, <2>1 DEF GroupInv, MemberlessIsAbandoned
  <2>2. CASE r = [id |-> g, name |-> name[c]]
    BY <1>5, <2>2
  <2> QED BY <2>1, <2>2
<1> QED BY <1>6, <1>7, <1>8, <1>9 DEF GroupInv

\* No step of createGroup gives a group to another user, or loses sight of
\* one without a member.
LEMMA GroupStep == TypeOK /\ Local /\ GroupInv /\ [Next]_vars => GroupInv'
<1> SUFFICES ASSUME TypeOK, Local, GroupInv, [Next]_vars PROVE GroupInv'
  OBVIOUS
<1> USE DEF tables, locals, answers, history, Request
<1>1. ASSUME NEW c \in Conns, NEW n \in Names, Registe(c, n) PROVE GroupInv'
  BY <1>1, GroupFrame DEF Registe, TypeOK
<1>2. ASSUME NEW c \in Conns, InsertUser(c) PROVE GroupInv'
  BY <1>2, GroupFrame DEF InsertUser, TypeOK
<1>3. ASSUME NEW c \in Conns, Answer(c) PROVE GroupInv'
  BY <1>3, GroupFrame DEF Answer, Return, TypeOK
<1>4. ASSUME NEW c \in Conns, NEW u \in Ids, NEW v \in Ids, AddFriend(c, u, v)
      PROVE  GroupInv'
  BY <1>4, GroupFrame DEF AddFriend, TypeOK
<1>5. ASSUME NEW c \in Conns, NEW u \in Ids, LoginFriends(c, u) PROVE GroupInv'
  BY <1>5, GroupFrame DEF LoginFriends, TypeOK
<1>6. ASSUME NEW c \in Conns, NEW u \in Ids, NEW n \in GroupNames,
             CreateGroup(c, u, n)
      PROVE  GroupInv'
  BY <1>6, GroupFrame DEF CreateGroup, TypeOK
<1>7. ASSUME NEW c \in Conns, InsertGroup(c) PROVE GroupInv'
  <2>1. CASE Return(c) /\ UNCHANGED <<allgroup, history>>
    BY <1>7, <2>1, GroupFrame DEF InsertGroup, Return, TypeOK
  <2> QED BY <1>7, <2>1, GroupCreated DEF InsertGroup
<1>8. ASSUME NEW c \in Conns, AddGroup(c) PROVE GroupInv'
  <2>1. pc[c] = "addGroup" /\ Return(c) /\ UNCHANGED <<allgroup, founder>>
    BY <1>8 DEF AddGroup
  <2>2. CASE abandoned' = abandoned \cup {id[c]} /\ UNCHANGED groupuser
    BY <2>1, <2>2, GroupGivenUp
  <2>3. ASSUME NEW role, UNCHANGED abandoned,
               groupuser' = groupuser \cup
                 {[groupid |-> id[c], userid |-> userid[c], grouprole |-> role]}
        PROVE  GroupInv'
    <3>1. pc'[c] = "idle" /\ \A d \in Conns \ {c} :
            pc'[d] = pc[d] /\ id'[d] = id[d] /\ userid'[d] = userid[d]
      BY <2>1 DEF Return, TypeOK
    <3>2. Founded'
      BY <2>1, <2>3, <3>1 DEF GroupInv, Founded, Created
    <3>3. AbandonedExists'
      BY <2>1, <2>3 DEF GroupInv, AbandonedExists, Created
    <3>4. MemberIsFounder'
      BY <2>1, <2>3 DEF GroupInv, Founded, MemberIsFounder, Created
    <3>5. MemberlessIsAbandoned'
      <4> SUFFICES ASSUME NEW r \in allgroup
                   PROVE  \/ r.id \in abandoned
                          \/ \E m \in groupuser' : m.groupid = r.id
                          \/ \E d \in Conns : pc'[d] = "addGroup" /\ id'[d] = r.id
        BY <2>1, <2>3 DEF MemberlessIsAbandoned
      <4>1. CASE r.id = id[c]
        <5> DEFINE new == [groupid |-> id[c], userid |-> userid[c], grouprole |-> role]
        <5>1. new \in groupuser' /\ new.groupid = id[c]
          BY <2>3
        <5> QED BY <4>1, <5>1
      <4>2. CASE r.id # id[c]
        BY <2>1, <2>3, <3>1, <4>2 DEF GroupInv, MemberlessIsAbandoned
      <4> QED BY <4>1, <4>2
    <3> QED BY <3>2, <3>3, <3>4, <3>5 DEF GroupInv
  <2> QED BY <1>8, <2>2, <2>3 DEF AddGroup
<1>9. ASSUME NEW c \in Conns, Crash(c) PROVE GroupInv'
  <2>1. CASE pc[c] = "addGroup"
    BY <1>9, <2>1, GroupGivenUp DEF Crash
  <2>2. CASE pc[c] # "addGroup"
    BY <1>9, <2>2, GroupFrame DEF Crash, Return, TypeOK
  <2> QED BY <2>1, <2>2
<1>10. CASE UNCHANGED vars
  BY <1>10, GroupFrame DEF vars
<1> QED BY <1>1, <1>2, <1>3, <1>4, <1>5, <1>6, <1>7, <1>8, <1>9, <1>10 DEF Next

-----------------------------------------------------------------------------

\* The strengthening holds in every state.
THEOREM Invariance == Spec => []IInv
<1>1. IInv /\ [Next]_vars => IInv'
  BY TypeStep, UserStep, GroupStep DEF IInv, UserInv
<1> QED BY InitIInv, <1>1, PTL DEF Spec

\* Every variable of Accounts keeps to its type: no row is inserted with the
\* id -1 of an object whose id was not set.
THEOREM TypeCorrect == Spec => []TypeOK
<1>1. IInv => TypeOK
  BY DEF IInv, UserInv
<1> QED BY Invariance, <1>1, PTL

\* registe tells a client the id of the row it inserted, and nobody else
\* that id, for any number of registrations at a time.
THEOREM IdIsMine == Spec => []ToldIsMine
<1>1. IInv => ToldIsMine
  BY DEF IInv, UserInv
<1> QED BY Invariance, <1>1, PTL

\* createGroup makes nobody but the user who asked for a group its member.
THEOREM FounderIsMember == Spec => []MemberIsFounder
<1>1. IInv => MemberIsFounder
  BY DEF IInv, GroupInv
<1> QED BY Invariance, <1>1, PTL

\* createGroup leaves a group without a member only if it is cut off
\* between its two inserts.
THEOREM MemberlessIsCutOff == Spec => []MemberlessIsAbandoned
<1>1. IInv => MemberlessIsAbandoned
  BY DEF IInv, GroupInv
<1> QED BY Invariance, <1>1, PTL

\* A group that was cut off never gets a member.
THEOREM CutOffForGood == Spec => AbandonedForGood
<1>1. IInv /\ [Next]_vars =>
        [\A m \in groupuser' \ groupuser : m.groupid \notin abandoned']_vars
  <2> SUFFICES ASSUME IInv, [Next]_vars, NEW m \in groupuser' \ groupuser
               PROVE  m.groupid \notin abandoned'
    OBVIOUS
  <2>1. ASSUME NEW c \in Conns, AddGroup(c) PROVE m.groupid \notin abandoned'
    BY <2>1 DEF AddGroup, history, IInv, GroupInv, Founded
  <2>2. (\A c \in Conns : ~ AddGroup(c)) => groupuser' = groupuser
    BY DEF Next, vars, tables, Registe, InsertUser, Answer, AddFriend,
           LoginFriends, CreateGroup, InsertGroup, Crash
  <2> QED BY <2>1, <2>2
<1> QED BY Invariance, <1>1, PTL DEF Spec, AbandonedForGood
=============================================================================
