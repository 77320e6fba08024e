------------------------------ MODULE UserList ------------------------------
(***************************************************************************)
(* The store of a local mesh server (LocalServer/UserList.go): the one     *)
(* group of a local network, which its first client registers, and the     *)
(* users in it.  The executor goroutine (LocalServer/main.go) changes it,  *)
(* one command at a time, so that a command is one action.                 *)
(*                                                                         *)
(* The server starts without a group.  Every snapshot copies the group, so *)
(* a command that publishes one before there is a group is a nil           *)
(* dereference, and so are those that compare the group's id.              *)
(***************************************************************************)
EXTENDS Integers, FiniteSets

CONSTANTS
  Groups,       \* ids of live groups
  NoGroup,      \* the nil groupData
  Users,        \* ids of users
  Profiles,     \* what a group or a user tells of itself
  Passwords,    \* group passwords
  NoPassword,   \* the empty password a server starts with
  UserTimeout,  \* g_user_timeout, in ticks
  MaxVersion    \* bound: only heartbeats and checks are taken at this version

ASSUME GroupAssumption    == NoGroup \notin [GroupId : Groups, about : Profiles]
ASSUME PasswordAssumption == NoPassword \in Passwords
ASSUME TimeoutAssumption  == UserTimeout \in Nat \ {0}
ASSUME VersionAssumption  == MaxVersion \in Nat

VARIABLES
  groupData,   \* g_store.groupData: what is known of the group, or nil
  password,    \* g_store.password
  userStores,  \* g_store.userStores: what each registered user told of itself
  age,         \* time since UserStore.timestamp, no further than is told apart
  version,     \* g_store.version
  snapShot,    \* the published Snapshot
  reply,       \* what the last command was answered
  dead         \* the executor panicked, which ends the process

storeVars == <<groupData, password, userStores, age, version, snapShot>>
vars == <<groupData, password, userStores, age, version, snapShot, reply, dead>>

Registered == DOMAIN userStores

Replies == {"none", "ok", "group already exist", "group not found",
            "password is wrong", "user already exist!", "user not found"}
-----------------------------------------------------------------------------
Snapshot(group, users, v) ==
  [Version |-> v, GroupData |-> group, UsersData |-> users]

makeSnapShot ==
  /\ version' = version + 1
  /\ snapShot' = Snapshot(groupData', userStores', version + 1)

Answer(r) == reply' = r /\ UNCHANGED dead

Refuse(r) == Answer(r) /\ UNCHANGED storeVars

(* What a command did before the nil dereference is lost with the process. *)
Panic == dead' = TRUE /\ UNCHANGED <<storeVars, reply>>

(* The end of a command that changed the users: makeSnapShot copies the    *)
(* group and so needs one.                                                 *)
PublishUsers(stores, ages, r) ==
  \/ groupData = NoGroup /\ Panic
  \/ /\ groupData # NoGroup
     /\ userStores' = stores
     /\ age' = ages
     /\ UNCHANGED <<groupData, password>>
     /\ makeSnapShot
     /\ Answer(r)
-----------------------------------------------------------------------------
(* Mutant: the last client to register wins.                               *)
RegisterGroupLastWins(g, data) ==
  /\ groupData' = [GroupId |-> g, about |-> data]
  /\ UNCHANGED <<password, userStores, age>>
  /\ makeSnapShot
  /\ Answer("ok")

(***************************************************************************)
(* The commands.                                                           *)
(***************************************************************************)
RegisterGroup(g, data) ==
  \/ groupData # NoGroup /\ Refuse("group already exist")
  \/ /\ groupData = NoGroup
     /\ groupData' = [GroupId |-> g, about |-> data]
     /\ UNCHANGED <<password, userStores, age>>
     /\ makeSnapShot
     /\ Answer("ok")

(* Mutant: an update of the group is not published.                        *)
UpdataGroupUnpublished(g, data) ==
  /\ groupData # NoGroup
  /\ groupData.GroupId = g
  /\ groupData' = [groupData EXCEPT !.about = data]
  /\ UNCHANGED <<password, userStores, age, version, snapShot>>
  /\ Answer("ok")

UpdataGroup(g, data) ==
  \/ groupData = NoGroup /\ Panic
  \/ /\ groupData # NoGroup
     /\ groupData.GroupId # g
     /\ Refuse("group not found")
  \/ /\ groupData # NoGroup
     /\ groupData.GroupId = g
     /\ groupData' = [groupData EXCEPT !.about = data]
     /\ UNCHANGED <<password, userStores, age>>
     /\ makeSnapShot
     /\ Answer("ok")

ChangeGroupPassword(g, old, new) ==
  \/ groupData = NoGroup /\ Panic
  \/ /\ groupData # NoGroup
     /\ groupData.GroupId # g
     /\ Refuse("group not found")
  \/ /\ groupData # NoGroup
     /\ groupData.GroupId = g /\ password # old
     /\ Refuse("password is wrong")
  \/ /\ groupData # NoGroup
     /\ groupData.GroupId = g /\ password = old
     /\ password' = new
     /\ UNCHANGED <<groupData, userStores, age, version, snapShot>>
     /\ Answer("ok")

RegisterUser(u, data) ==
  \/ groupData = NoGroup /\ Refuse("group not found")
  \/ groupData # NoGroup /\ u \in Registered /\ Refuse("user already exist!")
  \/ /\ groupData # NoGroup /\ u \notin Registered
     /\ PublishUsers([x \in Registered \cup {u} |->
                        IF x = u THEN data ELSE userStores[x]],
                     [age EXCEPT ![u] = 0], "ok")

UpdataUser(u, data) ==
  \/ u \notin Registered /\ Refuse("user not found")
  \/ /\ u \in Registered
     /\ PublishUsers([userStores EXCEPT ![u] = data],
                     [age EXCEPT ![u] = 0], "ok")

(* Nobody is answered whether the user exists.                             *)
UserHeartbeat(u) ==
  /\ age' = IF u \in Registered THEN [age EXCEPT ![u] = 0] ELSE age
  /\ reply' = "none"
  /\ UNCHANGED <<groupData, password, userStores, version, snapShot, dead>>

(* Mutant: the group ends when somebody leaves.                            *)
RemoveUsersAndGroup(gone) ==
  /\ userStores' = [u \in Registered \ gone |-> userStores[u]]
  /\ groupData' = NoGroup
  /\ UNCHANGED <<password, age>>
  /\ makeSnapShot
  /\ Answer("none")

RemoveUsers(gone) ==
  PublishUsers([u \in Registered \ gone |-> userStores[u]],
               [u \in Users |-> IF u \in gone THEN 0 ELSE age[u]], "none")

DeleteUser(u) ==
  \/ u \notin Registered /\ Refuse("none")
  \/ u \in Registered /\ RemoveUsers({u})

(* Mutant: at the end of the timeout instead of after it.                  *)
TimedOutAtLimit == {u \in Registered : age[u] >= UserTimeout}

TimedOut == {u \in Registered : age[u] > UserTimeout}

CheckTimeout ==
  \/ TimedOut = {} /\ Refuse("none")
  \/ TimedOut # {} /\ RemoveUsers(TimedOut)
-----------------------------------------------------------------------------
Init ==
  /\ groupData = NoGroup
  /\ password = NoPassword
  /\ userStores = [u \in {} |-> NoGroup]
  /\ age = [u \in Users |-> 0]
  /\ version = 0
  /\ snapShot = Snapshot(NoGroup, userStores, 0)
  /\ reply = "none"
  /\ dead = FALSE

Command ==
  \/ \E g \in Groups, d \in Profiles : RegisterGroup(g, d)
  \/ \E g \in Groups, d \in Profiles : UpdataGroup(g, d)
  \/ \E g \in Groups, old, new \in Passwords : ChangeGroupPassword(g, old, new)
  \/ \E u \in Users, d \in Profiles : RegisterUser(u, d)
  \/ \E u \in Users, d \in Profiles : UpdataUser(u, d)
  \/ \E u \in Users : DeleteUser(u)

Tick ==
  /\ ~dead
  /\ \E u \in Registered : age[u] =< UserTimeout
  /\ age' = [u \in Users |->
               IF u \in Registered /\ age[u] =< UserTimeout THEN age[u] + 1
               ELSE age[u]]
  /\ UNCHANGED <<groupData, password, userStores, version, snapShot, reply, dead>>

Next ==
  \/ ~dead /\ version < MaxVersion /\ Command
  \/ ~dead /\ \E u \in Users : UserHeartbeat(u)
  \/ ~dead /\ CheckTimeout
  \/ Tick

Spec == Init /\ [][Next]_vars
-----------------------------------------------------------------------------
(***************************************************************************)
(* Properties.                                                             *)
(***************************************************************************)
Abouts == [GroupId : Groups, about : Profiles]

TypeOK ==
  /\ groupData \in Abouts \cup {NoGroup}
  /\ password \in Passwords
  /\ Registered \in SUBSET Users
  /\ userStores \in [Registered -> Profiles]
  /\ age \in [Users -> 0..(UserTimeout + 1)]
  /\ version \in Nat
  /\ reply \in Replies
  /\ dead \in BOOLEAN

(* What is read by the other goroutines is what the last command left: a   *)
(* command that changes what a snapshot holds publishes one.               *)
SnapShotCurrent == snapShot = Snapshot(groupData, userStores, version)

(* The server can only be brought down before its first client registered  *)
(* the group: with a group it never dereferences nil again, and without    *)
(* one there is no user whose removal or update would publish a snapshot.  *)
PanicsOnlyWithoutGroup ==
  /\ dead => groupData = NoGroup
  /\ groupData = NoGroup => Registered = {}

(* The first client to register decides which group it is: nobody who was  *)
(* told "ok" or "group already exist" sees another group later.            *)
GroupStays ==
  [][groupData # NoGroup =>
       groupData' # NoGroup /\ groupData'.GroupId = groupData.GroupId]_vars

(* The clients fetch the list again only when the version they are told    *)
(* differs from theirs: every command that changes the group or its users  *)
(* publishes both under the next version.  A password is not shown.        *)
Published ==
  INSTANCE VersionedList
    WITH list <- <<groupData, userStores>>,
         published <- [Version |-> snapShot.Version,
                       List |-> <<snapShot.GroupData, snapShot.UsersData>>]
ImplementsVersionedList == Published!Spec
=============================================================================
