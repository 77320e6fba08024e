--------------------------- MODULE UserList_proofs ---------------------------
(***************************************************************************)
(* Theorems about the store of a local mesh server, for any groups, users, *)
(* profiles and passwords, and any timeout.                                *)
(***************************************************************************)
EXTENDS UserList, TLAPS

(* The three parts are proved together: a panic is ruled out by a group,   *)
(* and a removal is known to find one because the users of a server        *)
(* without a group are none.                                               *)
Inv == TypeOK /\ SnapShotCurrent /\ PanicsOnlyWithoutGroup

Ages == [Users -> 0..(UserTimeout + 1)]

USE TimeoutAssumption

(* A store as InitUserList leaves it satisfies the invariant.              *)
LEMMA InitInv == Init => Inv
<1> SUFFICES ASSUME Init PROVE Inv
  OBVIOUS
<1>1. Registered = {} /\ userStores \in [Registered -> Profiles]
  <2>1. userStores = [u \in {} |-> NoGroup]
    BY DEF Init
  <2>2. DOMAIN userStores = {}
    BY <2>1
  <2>3. userStores \in [{} -> Profiles]
    BY <2>1
  <2> QED BY <2>2, <2>3 DEF Registered
<1>2. age \in Ages
  BY DEF Init, Ages
<1>3. TypeOK
  BY <1>1, <1>2, PasswordAssumption DEF Init, TypeOK, Ages, Replies
<1>4. SnapShotCurrent
  BY DEF Init, SnapShotCurrent
<1>5. PanicsOnlyWithoutGroup
  BY <1>1 DEF Init, PanicsOnlyWithoutGroup
<1> QED BY <1>3, <1>4, <1>5 DEF Inv

(* A refused command keeps the invariant.                                  *)
LEMMA RefuseKeepsInv ==
  ASSUME Inv, NEW r \in Replies, Refuse(r)
  PROVE  Inv'
BY DEF Inv, Refuse, Answer, storeVars, TypeOK, SnapShotCurrent,
       PanicsOnlyWithoutGroup, Registered, Snapshot

(* A panic keeps the invariant where there is no group.                    *)
LEMMA PanicKeepsInv ==
  ASSUME Inv, groupData = NoGroup, Panic
  PROVE  Inv'
BY DEF Inv, Panic, storeVars, TypeOK, SnapShotCurrent,
       PanicsOnlyWithoutGroup, Registered, Snapshot

(* A command that changed the group or the users and published that.       *)
LEMMA PublishKeepsInv ==
  ASSUME Inv, ~dead, makeSnapShot, UNCHANGED dead,
         groupData' \in Abouts, password' \in Passwords,
         Registered' \in SUBSET Users,
         userStores' \in [Registered' -> Profiles],
         age' \in Ages, reply' \in Replies
  PROVE  Inv'
<1>1. groupData' # NoGroup
  BY GroupAssumption DEF Abouts
<1>2. version' = version + 1 /\ snapShot' = Snapshot(groupData', userStores', version')
  BY DEF makeSnapShot
<1>3. TypeOK'
  BY <1>2 DEF Inv, TypeOK, Ages
<1> QED
  BY <1>1, <1>2, <1>3 DEF Inv, SnapShotCurrent, PanicsOnlyWithoutGroup, Snapshot

(* Whatever a command made of the users, published or lost in a panic.     *)
LEMMA PublishUsersKeepsInv ==
  ASSUME Inv, ~dead, NEW S \in SUBSET Users, NEW stores \in [S -> Profiles],
         NEW ages \in Ages, NEW r \in Replies, PublishUsers(stores, ages, r)
  PROVE  Inv'
<1>1. CASE groupData = NoGroup /\ Panic
  BY <1>1, PanicKeepsInv
<1>2. CASE ~(groupData = NoGroup /\ Panic)
  <2>1. /\ groupData # NoGroup
        /\ userStores' = stores
        /\ age' = ages
        /\ UNCHANGED <<groupData, password, dead>>
        /\ makeSnapShot
        /\ reply' = r
    BY <1>2 DEF PublishUsers, Answer
  <2>2. groupData' \in Abouts /\ password' \in Passwords
    BY <2>1 DEF Inv, TypeOK
  <2>3. Registered' = S
    BY <2>1 DEF Registered
  <2> QED BY <2>1, <2>2, <2>3, PublishKeepsInv
<1> QED BY <1>1, <1>2
-----------------------------------------------------------------------------
(* The first client's group is published.                                  *)
LEMMA RegisterGroupKeepsInv ==
  ASSUME Inv, ~dead, NEW g \in Groups, NEW d \in Profiles, RegisterGroup(g, d)
  PROVE  Inv'
<1>1. CASE Refuse("group already exist")
  BY <1>1, RefuseKeepsInv DEF Replies
<1>2. CASE ~Refuse("group already exist")
  <2>1. /\ groupData' = [GroupId |-> g, about |-> d]
        /\ UNCHANGED <<password, userStores, age, dead>>
        /\ makeSnapShot
        /\ reply' = "ok"
    BY <1>2 DEF RegisterGroup, Answer
  <2>2. groupData' \in Abouts
    BY <2>1 DEF Abouts
  <2> QED
    BY <2>1, <2>2, PublishKeepsInv DEF Inv, TypeOK, Registered, Ages, Replies
<1> QED BY <1>1, <1>2

(* So is what is new about it.                                             *)
LEMMA UpdataGroupKeepsInv ==
  ASSUME Inv, ~dead, NEW g \in Groups, NEW d \in Profiles, UpdataGroup(g, d)
  PROVE  Inv'
<1>1. CASE groupData = NoGroup /\ Panic
  BY <1>1, PanicKeepsInv
<1>2. CASE Refuse("group not found")
  BY <1>2, RefuseKeepsInv DEF Replies
<1>3. CASE ~(groupData = NoGroup /\ Panic) /\ ~Refuse("group not found")
  <2>1. /\ groupData # NoGroup
        /\ groupData' = [groupData EXCEPT !.about = d]
        /\ UNCHANGED <<password, userStores, age, dead>>
        /\ makeSnapShot
        /\ reply' = "ok"
    BY <1>3 DEF UpdataGroup, Answer
  <2>2. groupData' \in Abouts
    BY <2>1 DEF Inv, TypeOK, Abouts
  <2> QED
    BY <2>1, <2>2, PublishKeepsInv DEF Inv, TypeOK, Registered, Ages, Replies
<1> QED BY <1>1, <1>2, <1>3

(* The password is not part of a snapshot.                                 *)
LEMMA ChangeGroupPasswordKeepsInv ==
  ASSUME Inv, ~dead, NEW g \in Groups, NEW old \in Passwords,
         NEW new \in Passwords, ChangeGroupPassword(g, old, new)
  PROVE  Inv'
<1>1. CASE groupData = NoGroup /\ Panic
  BY <1>1, PanicKeepsInv
<1>2. CASE Refuse("group not found") \/ Refuse("password is wrong")
  BY <1>2, RefuseKeepsInv DEF Replies
<1>3. CASE /\ ~(groupData = NoGroup /\ Panic)
           /\ ~Refuse("group not found") /\ ~Refuse("password is wrong")
  <2>1. /\ password' = new
        /\ UNCHANGED <<groupData, userStores, age, version, snapShot, dead>>
        /\ reply' = "ok"
    BY <1>3 DEF ChangeGroupPassword, Answer
  <2> QED
    BY <2>1 DEF Inv, TypeOK, SnapShotCurrent, PanicsOnlyWithoutGroup,
                Registered, Snapshot, Replies
<1> QED BY <1>1, <1>2, <1>3

(* A new user is added to a group that exists.                             *)
LEMMA RegisterUserKeepsInv ==
  ASSUME Inv, ~dead, NEW u \in Users, NEW d \in Profiles, RegisterUser(u, d)
  PROVE  Inv'
<1>1. CASE Refuse("group not found") \/ Refuse("user already exist!")
  BY <1>1, RefuseKeepsInv DEF Replies
<1>2. CASE ~(Refuse("group not found") \/ Refuse("user already exist!"))
  <2> DEFINE stores == [x \in Registered \cup {u} |->
                          IF x = u THEN d ELSE userStores[x]]
             ages   == [age EXCEPT ![u] = 0]
  <2>1. PublishUsers(stores, ages, "ok")
    BY <1>2 DEF RegisterUser
  <2>2. stores \in [Registered \cup {u} -> Profiles]
    BY DEF Inv, TypeOK
  <2>3. ages \in Ages
    BY DEF Inv, TypeOK, Ages
  <2>4. Registered \cup {u} \in SUBSET Users /\ "ok" \in Replies
    BY DEF Inv, TypeOK, Replies
  <2> QED
    BY <2>1, <2>2, <2>3, <2>4, PublishUsersKeepsInv
<1> QED BY <1>1, <1>2

(* What a user tells of itself is published, and its age starts again.     *)
LEMMA UpdataUserKeepsInv ==
  ASSUME Inv, ~dead, NEW u \in Users, NEW d \in Profiles, UpdataUser(u, d)
  PROVE  Inv'
<1>1. CASE Refuse("user not found")
  BY <1>1, RefuseKeepsInv DEF Replies
<1>2. CASE ~Refuse("user not found")
  <2> DEFINE stores == [userStores EXCEPT ![u] = d]
             ages   == [age EXCEPT ![u] = 0]
  <2>1. PublishUsers(stores, ages, "ok")
    BY <1>2 DEF UpdataUser
  <2>2. stores \in [Registered -> Profiles]
    BY DEF Inv, TypeOK
  <2>3. ages \in Ages
    BY DEF Inv, TypeOK, Ages
  <2>4. Registered \in SUBSET Users /\ "ok" \in Replies
    BY DEF Inv, TypeOK, Replies
  <2> QED
    BY <2>1, <2>2, <2>3, <2>4, PublishUsersKeepsInv
<1> QED BY <1>1, <1>2

(* Users leave, one by its own request or all that timed out.              *)
LEMMA RemoveUsersKeepsInv ==
  ASSUME Inv, ~dead, NEW gone, RemoveUsers(gone)
  PROVE  Inv'
<1> DEFINE stores == [u \in Registered \ gone |-> userStores[u]]
           ages   == [u \in Users |-> IF u \in gone THEN 0 ELSE age[u]]
<1>1. PublishUsers(stores, ages, "none")
  BY DEF RemoveUsers
<1>2. stores \in [Registered \ gone -> Profiles]
  BY DEF Inv, TypeOK
<1>3. ages \in Ages
  BY DEF Inv, TypeOK, Ages
<1>4. Registered \ gone \in SUBSET Users /\ "none" \in Replies
  BY DEF Inv, TypeOK, Replies
<1> QED
  BY <1>1, <1>2, <1>3, <1>4, PublishUsersKeepsInv

(* Every command that a request makes keeps the invariant.                 *)
LEMMA CommandKeepsInv ==
  ASSUME Inv, ~dead, Command
  PROVE  Inv'
<1>1. ASSUME NEW g \in Groups, NEW d \in Profiles, RegisterGroup(g, d)
      PROVE  Inv'
  BY <1>1, RegisterGroupKeepsInv
<1>2. ASSUME NEW g \in Groups, NEW d \in Profiles, UpdataGroup(g, d)
      PROVE  Inv'
  BY <1>2, UpdataGroupKeepsInv
<1>3. ASSUME NEW g \in Groups, NEW old \in Passwords, NEW new \in Passwords,
             ChangeGroupPassword(g, old, new)
      PROVE  Inv'
  BY <1>3, ChangeGroupPasswordKeepsInv
<1>4. ASSUME NEW u \in Users, NEW d \in Profiles, RegisterUser(u, d)
      PROVE  Inv'
  BY <1>4, RegisterUserKeepsInv
<1>5. ASSUME NEW u \in Users, NEW d \in Profiles, UpdataUser(u, d)
      PROVE  Inv'
  BY <1>5, UpdataUserKeepsInv
<1>6. ASSUME NEW u \in Users, DeleteUser(u)
      PROVE  Inv'
  BY <1>6, RefuseKeepsInv, RemoveUsersKeepsInv DEF DeleteUser, Replies
<1> QED BY <1>1, <1>2, <1>3, <1>4, <1>5, <1>6 DEF Command

(* A heartbeat changes an age and nothing that is published.               *)
LEMMA UserHeartbeatKeepsInv ==
  ASSUME Inv, ~dead, NEW u \in Users, UserHeartbeat(u)
  PROVE  Inv'
<1>1. age' \in Ages
  BY DEF UserHeartbeat, Inv, TypeOK, Ages
<1>2. /\ UNCHANGED <<groupData, password, userStores, version, snapShot, dead>>
      /\ reply' \in Replies
  BY DEF UserHeartbeat, Replies
<1> QED
  BY <1>1, <1>2 DEF Inv, TypeOK, Ages, SnapShotCurrent, PanicsOnlyWithoutGroup,
                    Registered, Snapshot

(* Time passes for the registered users, up to what is told apart.         *)
LEMMA TickKeepsInv ==
  ASSUME Inv, Tick
  PROVE  Inv'
<1>1. age \in Ages
  BY DEF Inv, TypeOK, Ages
<1>2. ASSUME NEW n \in 0..(UserTimeout + 1), n =< UserTimeout
      PROVE  n + 1 \in 0..(UserTimeout + 1)
  BY <1>2
<1>3. age' \in Ages
  <2>1. ASSUME NEW u \in Users
        PROVE  (IF u \in Registered /\ age[u] =< UserTimeout THEN age[u] + 1
                ELSE age[u]) \in 0..(UserTimeout + 1)
    <3>1. age[u] \in 0..(UserTimeout + 1)
      BY <1>1 DEF Ages
    <3> QED BY <3>1, <1>2
  <2> QED BY <2>1 DEF Tick, Ages
<1>4. UNCHANGED <<groupData, password, userStores, version, snapShot, reply, dead>>
  BY DEF Tick
<1> QED
  BY <1>3, <1>4 DEF Inv, TypeOK, Ages, SnapShotCurrent, PanicsOnlyWithoutGroup,
                    Registered, Snapshot

(* The invariant is inductive.                                             *)
LEMMA NextKeepsInv == Inv /\ [Next]_vars => Inv'
<1> SUFFICES ASSUME Inv, [Next]_vars PROVE Inv'
  OBVIOUS
<1>1. CASE ~dead /\ Command
  BY <1>1, CommandKeepsInv
<1>2. CASE ~dead /\ \E u \in Users : UserHeartbeat(u)
  BY <1>2, UserHeartbeatKeepsInv
<1>3. CASE ~dead /\ CheckTimeout
  BY <1>3, RefuseKeepsInv, RemoveUsersKeepsInv DEF CheckTimeout, Replies
<1>4. CASE Tick
  BY <1>4, TickKeepsInv
<1>5. CASE UNCHANGED vars
  BY <1>5 DEF vars, Inv, TypeOK, SnapShotCurrent, PanicsOnlyWithoutGroup,
              Registered, Snapshot
<1> QED BY <1>1, <1>2, <1>3, <1>4, <1>5 DEF Next
-----------------------------------------------------------------------------
(* The store of a local mesh server, whatever its clients ask.             *)
THEOREM StoreInv == Spec => []Inv
BY InitInv, NextKeepsInv, PTL DEF Spec

(* Every variable of the store keeps its type.                             *)
THEOREM StoreTypeCorrect == Spec => []TypeOK
BY StoreInv, PTL DEF Inv

(* What the other goroutines read is what the last command left, under its *)
(* version.                                                                *)
THEOREM StoreSnapShotCurrent == Spec => []SnapShotCurrent
BY StoreInv, PTL DEF Inv

(* The executor panics only while there is no group, and then there is no  *)
(* user either: once the first client registered, the server stays up.     *)
THEOREM StorePanicsOnlyWithoutGroup == Spec => []PanicsOnlyWithoutGroup
BY StoreInv, PTL DEF Inv
-----------------------------------------------------------------------------
(* What a command that ends in PublishUsers does: it panics, which leaves  *)
(* the store alone, or it publishes the users under the next version.      *)
LEMMA PublishUsersOutcome ==
  ASSUME NEW stores, NEW ages, NEW r, PublishUsers(stores, ages, r)
  PROVE  \/ UNCHANGED storeVars
         \/ /\ userStores' = stores /\ age' = ages
            /\ groupData' = groupData
            /\ version' = version + 1
            /\ snapShot' = Snapshot(groupData', userStores', version + 1)
BY DEF PublishUsers, Panic, makeSnapShot

(* What any step does to the published contents: nothing, or it publishes  *)
(* them under the next version.                                            *)
Publishes ==
  \/ UNCHANGED <<groupData, userStores, version, snapShot>>
  \/ /\ version' = version + 1
     /\ snapShot' = Snapshot(groupData', userStores', version + 1)

(* No step changes the list, or the version, and keeps it to itself.       *)
LEMMA NextPublishes ==
  ASSUME [Next]_vars
  PROVE  Publishes
<1>1. ASSUME Command PROVE Publishes
  <2>1. ASSUME NEW g \in Groups, NEW d \in Profiles,
               RegisterGroup(g, d) \/ UpdataGroup(g, d)
        PROVE  Publishes
    BY <2>1 DEF RegisterGroup, UpdataGroup, Refuse, Panic, makeSnapShot,
                storeVars, Publishes
  <2>2. ASSUME NEW g \in Groups, NEW old \in Passwords, NEW new \in Passwords,
               ChangeGroupPassword(g, old, new)
        PROVE  Publishes
    BY <2>2 DEF ChangeGroupPassword, Refuse, Panic, storeVars, Publishes
  <2>3. ASSUME NEW u \in Users, NEW d \in Profiles,
               RegisterUser(u, d) \/ UpdataUser(u, d)
        PROVE  Publishes
    BY <2>3, PublishUsersOutcome
       DEF RegisterUser, UpdataUser, Refuse, storeVars, Publishes
  <2>4. ASSUME NEW u \in Users, DeleteUser(u) PROVE Publishes
    BY <2>4, PublishUsersOutcome
       DEF DeleteUser, RemoveUsers, Refuse, storeVars, Publishes
  <2> QED BY <1>1, <2>1, <2>2, <2>3, <2>4 DEF Command
<1>2. ASSUME NEW u \in Users, UserHeartbeat(u) PROVE Publishes
  BY <1>2 DEF UserHeartbeat, Publishes
<1>3. ASSUME CheckTimeout PROVE Publishes
  BY <1>3, PublishUsersOutcome
     DEF CheckTimeout, RemoveUsers, Refuse, storeVars, Publishes
<1>4. ASSUME Tick PROVE Publishes
  BY <1>4 DEF Tick, Publishes
<1>5. ASSUME UNCHANGED vars PROVE Publishes
  BY <1>5 DEF vars, Publishes
<1> QED BY <1>1, <1>2, <1>3, <1>4, <1>5 DEF Next

(* The store of a local mesh server keeps the promise of VersionedList:    *)
(* the clients notice every change of the list by its version.             *)
THEOREM StoreImplementsVersionedList == Spec => ImplementsVersionedList
<1>1. ASSUME Inv PROVE Published!Current /\ version \in Nat
  BY <1>1 DEF Inv, TypeOK, SnapShotCurrent, Snapshot, Published!Current
<1>2. Init => Published!Init
  BY <1>1, InitInv DEF Published!Init
<1>3. ASSUME Inv', [Next]_vars PROVE [Published!Publish]_Published!vars
  <2>1. CASE UNCHANGED <<groupData, userStores, version, snapShot>>
    BY <2>1 DEF Published!vars
  <2>2. CASE /\ version' = version + 1
             /\ snapShot' = Snapshot(groupData', userStores', version + 1)
    BY <2>2 DEF Snapshot, Published!Publish, Published!Current
  <2> QED BY <1>3, <2>1, <2>2, NextPublishes DEF Publishes
<1> QED BY <1>2, <1>3, StoreInv, PTL DEF Spec, ImplementsVersionedList, Published!Spec
-----------------------------------------------------------------------------
(* What any step does to the group: a group that exists keeps its id.      *)
LEMMA NextKeepsGroup ==
  ASSUME Inv, [Next]_vars, groupData # NoGroup
  PROVE  groupData' # NoGroup /\ groupData'.GroupId = groupData.GroupId
<1> DEFINE Kept == groupData' # NoGroup /\ groupData'.GroupId = groupData.GroupId
<1>1. groupData \in Abouts
  BY DEF Inv, TypeOK
<1>2. ASSUME NEW g \in Groups, NEW d \in Profiles, RegisterGroup(g, d)
      PROVE  Kept
  BY <1>2 DEF RegisterGroup, Refuse, storeVars
<1>3. ASSUME NEW g \in Groups, NEW d \in Profiles, UpdataGroup(g, d)
      PROVE  Kept
  <2>1. CASE Refuse("group not found")
    BY <2>1 DEF Refuse, storeVars
  <2>2. CASE groupData' = [groupData EXCEPT !.about = d]
    <3>1. groupData' \in Abouts /\ groupData'.GroupId = groupData.GroupId
      BY <1>1, <2>2 DEF Abouts
    <3> QED BY <3>1, GroupAssumption DEF Abouts
  <2> QED BY <1>3, <2>1, <2>2 DEF UpdataGroup
<1>4. ASSUME NEW g \in Groups, NEW old \in Passwords, NEW new \in Passwords,
             ChangeGroupPassword(g, old, new)
      PROVE  Kept
  BY <1>4 DEF ChangeGroupPassword, Refuse, storeVars
<1>5. ASSUME NEW u \in Users, NEW d \in Profiles,
             RegisterUser(u, d) \/ UpdataUser(u, d)
      PROVE  Kept
  BY <1>5, PublishUsersOutcome DEF RegisterUser, UpdataUser, Refuse, storeVars
<1>6. ASSUME NEW u \in Users, DeleteUser(u) PROVE Kept
  BY <1>6, PublishUsersOutcome DEF DeleteUser, RemoveUsers, Refuse, storeVars
<1>7. ASSUME NEW u \in Users, UserHeartbeat(u) PROVE Kept
  BY <1>7 DEF UserHeartbeat
<1>8. ASSUME CheckTimeout PROVE Kept
  BY <1>8, PublishUsersOutcome DEF CheckTimeout, RemoveUsers, Refuse, storeVars
<1>9. ASSUME Tick \/ UNCHANGED vars PROVE Kept
  BY <1>9 DEF Tick, vars
<1> QED
  BY <1>2, <1>3, <1>4, <1>5, <1>6, <1>7, <1>8, <1>9 DEF Next, Command

(* The first client that registers decides the group for good.             *)
THEOREM StoreGroupStays == Spec => GroupStays
<1>1. ASSUME Inv, [Next]_vars
      PROVE  [groupData # NoGroup =>
                groupData' # NoGroup /\ groupData'.GroupId = groupData.GroupId]_vars
  BY <1>1, NextKeepsGroup
<1> QED BY <1>1, StoreInv, PTL DEF Spec, GroupStays
-----------------------------------------------------------------------------
(* Nobody but those whose removal it is leaves with a removal.             *)
LEMMA RemovalLeavesOthers ==
  ASSUME NEW gone, RemoveUsers(gone)
  PROVE  Registered \ Registered' \subseteq gone
BY PublishUsersOutcome DEF RemoveUsers, storeVars, Registered

(* Registrations, updates and heartbeats take nobody away.                 *)
LEMMA OthersTakeNobodyAway ==
  ASSUME \/ \E g \in Groups, d \in Profiles : RegisterGroup(g, d) \/ UpdataGroup(g, d)
         \/ \E g \in Groups, old, new \in Passwords : ChangeGroupPassword(g, old, new)
         \/ \E u \in Users, d \in Profiles : RegisterUser(u, d) \/ UpdataUser(u, d)
         \/ \E u \in Users : UserHeartbeat(u)
  PROVE  Registered \subseteq Registered'
<1>1. ASSUME NEW g \in Groups, NEW d \in Profiles,
             RegisterGroup(g, d) \/ UpdataGroup(g, d)
      PROVE  Registered \subseteq Registered'
  BY <1>1 DEF RegisterGroup, UpdataGroup, Refuse, Panic, storeVars, Registered
<1>2. ASSUME NEW g \in Groups, NEW old \in Passwords, NEW new \in Passwords,
             ChangeGroupPassword(g, old, new)
      PROVE  Registered \subseteq Registered'
  BY <1>2 DEF ChangeGroupPassword, Refuse, Panic, storeVars, Registered
<1>3. ASSUME NEW u \in Users, NEW d \in Profiles,
             RegisterUser(u, d) \/ UpdataUser(u, d)
      PROVE  Registered \subseteq Registered'
  <2>1. \/ userStores' = userStores
        \/ userStores' = [x \in Registered \cup {u} |->
                            IF x = u THEN d ELSE userStores[x]]
        \/ userStores' = [userStores EXCEPT ![u] = d]
    BY <1>3, PublishUsersOutcome DEF RegisterUser, UpdataUser, Refuse, storeVars
  <2> QED BY <2>1 DEF Registered
<1>4. ASSUME NEW u \in Users, UserHeartbeat(u)
      PROVE  Registered \subseteq Registered'
  BY <1>4 DEF UserHeartbeat, Registered
<1> QED BY <1>1, <1>2, <1>3, <1>4
=============================================================================
