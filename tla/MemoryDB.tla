------------------------------- MODULE MemoryDB -------------------------------
(***************************************************************************)
(* The global mesher's in-memory database (RemoteServer/MemoryDB.go) as    *)
(* the executor goroutine drives it (RemoteServer/main.go): a forest of    *)
(* live groups below a root group, the users registered in them, the list  *)
(* that orders the users by their last heartbeat, and the snapshot that    *)
(* every other goroutine reads.                                            *)
(*                                                                         *)
(* Only the executor changes the database, one command at a time, so a     *)
(* command is one action.  A heartbeat is the exception: it first deletes  *)
(* the users that timed out, one per iteration of a loop, reads the clock  *)
(* again and publishes a snapshot in each iteration, so that an iteration  *)
(* is one action.                                                          *)
(*                                                                         *)
(* Nodes are named by their ids: every pointer the code follows from a     *)
(* command to a node goes through groupIndex or userIndex.  A node that    *)
(* left its index is garbage, and its fields are back at their initial     *)
(* values: registering the id again allocates a new node.                  *)
(***************************************************************************)
EXTENDS Integers, FiniteSets, SequencesExt

CONSTANTS
  Groups,        \* the ids of live groups (UUIDs made by the clients)
  Root,          \* the id "" of the root group, which is never removed
  Users,         \* the ids of users
  Profiles,      \* what a group or a user tells of itself (name, address ...)
  UserTimeout,   \* g_user_timeout, in ticks
  MaxVersion,    \* bound: no command but a heartbeat is taken at this version
  UnusedRequests \* whether requests are made that the Artsmesh app never makes

ASSUME RootAssumption      == Root \notin Groups
ASSUME TimeoutAssumption   == UserTimeout \in Nat \ {0}
ASSUME VersionAssumption   == MaxVersion \in Nat
ASSUME RequestsAssumption  == UnusedRequests \in BOOLEAN
ASSUME DistinctAssumption  == Users \cap Groups = {}

GroupIds == Groups \cup {Root}

VARIABLES
  groupIndex,      \* ids that gl.groupIndex holds
  superGroupId,    \* GroupNode.superGroupId
  subGroups,       \* GroupNode.subGroups
  userData,        \* GroupNode.userData: the members of a group
  userIndex,       \* ids that gl.userIndex holds
  userGroup,       \* UserNode.groupId
  age,             \* time since UserNode.timestamp, no further than UserTimeout
  timeSort,        \* gl.timeSort, front first
  profile,         \* GroupNode.groupData and UserNode.userData
  global_version,  \* gl.global_version
  snapShot,        \* the published DTOSnapShot
  exec,            \* the executor: at its pipe, in a heartbeat, or panicked
  reply            \* what the last command was answered

groupVars == <<groupIndex, superGroupId, subGroups, userData>>
userVars  == <<userIndex, userGroup, age, timeSort>>
dbVars    == <<groupVars, userVars, profile, global_version, snapShot>>
vars      == <<groupIndex, superGroupId, subGroups, userData, userIndex,
               userGroup, age, timeSort, profile, global_version, snapShot,
               exec, reply>>

Replies == {"none", "ok", "exists", "self", "user not found",
            "group not found"}
IdleExec == [pc |-> "idle", user |-> "none", group |-> Root, swept |-> FALSE]
-----------------------------------------------------------------------------
(* Mutant: only the groups right below the root are copied.                *)
ReachedOneLevel == {Root} \cup subGroups[Root]

(***************************************************************************)
(* Snapshots.  copyGroupToDTO copies what the root reaches by subGroups.   *)
(***************************************************************************)
Reached ==
  {g \in GroupIds :
     \A S \in SUBSET GroupIds :
        (Root \in S /\ \A p \in S : subGroups[p] \subseteq S) => g \in S}

copyGroupToDTO ==
  [subGroups |-> {e \in GroupIds \X Groups :
                    e[1] \in Reached /\ e[2] \in subGroups[e[1]]},
   users     |-> {m \in Groups \X Users :
                    m[1] \in Reached /\ m[2] \in userData[m[1]]},
   profiles  |-> [x \in {g \in Groups : g \in Reached} \cup
                        UNION {userData[g] : g \in Reached \ {Root}}
                    |-> profile[x]]]

(* Mutant: the snapshot gets the version before it is incremented.         *)
makeSnapShotLate ==
  /\ global_version' = global_version + 1
  /\ snapShot' = [Version |-> global_version, Data |-> copyGroupToDTO']

makeSnapShot ==
  /\ global_version' = global_version + 1
  /\ snapShot' = [Version |-> global_version', Data |-> copyGroupToDTO']

NoSnapShot == UNCHANGED <<global_version, snapShot>>
-----------------------------------------------------------------------------
(* Mutant: a group without users counts as empty whatever hangs below it.  *)
EmptiedFromWithSubGroups(start, super, members, subs) ==
  {g \in {start} : g \in groupIndex \ {Root} /\ members[g] = {}}

(* Mutant: the group above is not looked at.                               *)
EmptiedFromOneLevel(start, super, members, subs) ==
  {g \in {start} : g \in groupIndex \ {Root} /\ members[g] = {} /\ subs[g] = {}}

(***************************************************************************)
(* Empty groups.  tryRemoveEmptyGroup removes an empty group and then, as  *)
(* long as that empties the group above, the group above.  The root stops  *)
(* it; a group above that is not indexed any more is a nil dereference.    *)
(***************************************************************************)
EmptiedFrom(start, super, members, subs) ==
  LET Empty(g, left) == /\ g \in groupIndex \ {Root}
                        /\ members[g] = {}
                        /\ subs[g] = left
      Closed(S) == /\ Empty(start, {}) => start \in S
                   /\ \A g \in S : Empty(super[g], {g}) => super[g] \in S
  IN  {g \in Groups : \A S \in SUBSET Groups : Closed(S) => g \in S}

EmptyRemovalPanics(start, super, members, subs) ==
  \E g \in EmptiedFrom(start, super, members, subs) :
     super[g] \notin groupIndex \/ super[g] = start

tryRemoveEmptyGroup(start, super, members, subs) ==
  LET gone == EmptiedFrom(start, super, members, subs) IN
  /\ groupIndex'   = groupIndex \ gone
  /\ superGroupId' = [g \in Groups |-> IF g \in gone THEN Root ELSE super[g]]
  /\ subGroups'    = [p \in GroupIds |->
                        subs[p] \ {g \in gone : super[g] = p}]
  /\ userData'     = members
-----------------------------------------------------------------------------
(***************************************************************************)
(* The outcomes of a command.  A nil dereference or a write into the       *)
(* root's nil userData map panics in the executor goroutine, which ends    *)
(* the process.                                                            *)
(***************************************************************************)
Answer(r) == reply' = r /\ UNCHANGED exec

Refuse(r) == Answer(r) /\ UNCHANGED dbVars

Panic == /\ exec' = [IdleExec EXCEPT !.pc = "dead"]
         /\ UNCHANGED <<dbVars, reply>>

(* Mutant: the user keeps its place in the list.                           *)
updateUserTimestampInPlace(u) ==
  /\ age' = [age EXCEPT ![u] = 0]
  /\ timeSort' = IF u \in ToSet(timeSort) THEN timeSort ELSE Append(timeSort, u)

updateUserTimestamp(u) ==
  /\ age' = [age EXCEPT ![u] = 0]
  /\ timeSort' = Append(RemoveFirst(timeSort, u), u)
-----------------------------------------------------------------------------
(***************************************************************************)
(* The commands on groups.                                                 *)
(***************************************************************************)
AddNewGroup(g, to, data) ==
  \/ /\ g \in groupIndex \cup {to}
     /\ Refuse("exists")
  \/ /\ g \notin groupIndex \cup {to}
     /\ LET super == IF to \in groupIndex THEN to ELSE Root IN
        /\ superGroupId' = [superGroupId EXCEPT ![g] = super]
        /\ subGroups' = [subGroups EXCEPT ![super] = @ \cup {g}]
     /\ groupIndex' = groupIndex \cup {g}
     /\ profile' = [profile EXCEPT ![g] = data]
     /\ UNCHANGED <<userData, userVars>>
     /\ makeSnapShot
     /\ Answer("ok")

UpdataGroup(g, data) ==
  \/ g \notin groupIndex /\ Refuse("group not found")
  \/ /\ g \in groupIndex
     /\ profile' = [profile EXCEPT ![g] = data]
     /\ UNCHANGED <<groupVars, userVars>>
     /\ makeSnapShot
     /\ Answer("ok")

(* The group's links once it hangs below "to" instead of its super group. *)
MovedSuper(g, to) == [superGroupId EXCEPT ![g] = to]
(* Mutant: the old super group keeps the group in its list.                *)
MovedSubsKept(g, to) == [subGroups EXCEPT ![to] = @ \cup {g}]

(* Mutant: a move to the root leaves the group out of the root's list.     *)
MovedSubsNotToRoot(g, to) ==
  [p \in GroupIds |-> (subGroups[p] \ {x \in {g} : superGroupId[g] = p})
                        \cup {x \in {g} : p = to /\ to # Root}]

MovedSubs(g, to) ==
  [p \in GroupIds |-> (subGroups[p] \ {x \in {g} : superGroupId[g] = p})
                        \cup {x \in {g} : p = to}]

MovePanics(g, to) ==
  LET super == superGroupId[g] IN
  \/ super \notin groupIndex
  \/ EmptyRemovalPanics(super, MovedSuper(g, to), userData, MovedSubs(g, to))

(* Mutant: the group to move to is not looked up.                          *)
MoveGroupUnchecked(g, to) ==
  \/ g = to /\ Refuse("self")
  \/ g # to /\ g \notin groupIndex /\ Refuse("group not found")
  \/ g # to /\ g \in groupIndex /\ MovePanics(g, to) /\ Panic
  \/ /\ g # to /\ g \in groupIndex /\ ~MovePanics(g, to)
     /\ tryRemoveEmptyGroup(superGroupId[g], MovedSuper(g, to),
                            userData, MovedSubs(g, to))
     /\ UNCHANGED <<userVars, profile>>
     /\ makeSnapShot
     /\ Answer("ok")

(* Line 150 reads the group's own id where the super group's is meant, so  *)
(* the early return for a group that is already there is never taken.      *)
MoveGroup(g, to) ==
  LET oldSuperGroupId == g IN
  \/ g = to /\ Refuse("self")
  \/ g # to /\ ~({g, to} \subseteq groupIndex) /\ Refuse("group not found")
  \/ /\ g # to /\ {g, to} \subseteq groupIndex
     /\ MovePanics(g, to)
     /\ Panic
  \/ /\ g # to /\ {g, to} \subseteq groupIndex
     /\ ~MovePanics(g, to)
     /\ IF oldSuperGroupId = to
        THEN Refuse("ok")
        ELSE /\ tryRemoveEmptyGroup(superGroupId[g], MovedSuper(g, to),
                                    userData, MovedSubs(g, to))
             /\ UNCHANGED <<userVars, profile>>
             /\ makeSnapShot
             /\ Answer("ok")

(* The group is still indexed while the groups above it are emptied; its   *)
(* users and its subgroups stay where they are, below no indexed group.    *)
DeleteGroup(g) ==
  LET super == superGroupId[g]
      subs  == [subGroups EXCEPT ![super] = @ \ {g}]
      panics == \/ super \notin groupIndex
                \/ EmptyRemovalPanics(super, superGroupId, userData, subs)
      gone  == EmptiedFrom(super, superGroupId, userData, subs)
  IN
  \/ g \notin groupIndex /\ Refuse("group not found")
  \/ g \in groupIndex /\ panics /\ Panic
  \/ /\ g \in groupIndex /\ ~panics
     /\ groupIndex' = groupIndex \ (gone \cup {g})
     /\ superGroupId' = [x \in Groups |-> IF x \in gone \cup {g} THEN Root
                                          ELSE superGroupId[x]]
     /\ subGroups' = [p \in GroupIds |-> IF p = g THEN {}
                        ELSE subs[p] \ {x \in gone : superGroupId[x] = p}]
     /\ userData' = [userData EXCEPT ![g] = {}]
     /\ UNCHANGED <<userVars, profile>>
     /\ makeSnapShot
     /\ Answer("ok")
-----------------------------------------------------------------------------
(***************************************************************************)
(* The commands on users.                                                  *)
(***************************************************************************)
AddNewUser(u, g, data) ==
  \/ u \in userIndex /\ Refuse("exists")
  \/ u \notin userIndex /\ g \notin groupIndex /\ Refuse("group not found")
  \/ /\ u \notin userIndex /\ g \in groupIndex
     /\ userData' = [userData EXCEPT ![g] = @ \cup {u}]
     /\ userGroup' = [userGroup EXCEPT ![u] = g]
     /\ userIndex' = userIndex \cup {u}
     /\ updateUserTimestamp(u)
     /\ profile' = [profile EXCEPT ![u] = data]
     /\ UNCHANGED <<groupIndex, superGroupId, subGroups>>
     /\ makeSnapShot
     /\ Answer("ok")

(* The group is only looked up: the user stays in the group it is in.      *)
UpdataUser(u, g, data) ==
  \/ u \notin userIndex /\ Refuse("user not found")
  \/ u \in userIndex /\ g \notin groupIndex /\ Refuse("group not found")
  \/ /\ u \in userIndex /\ g \in groupIndex
     /\ profile' = [profile EXCEPT ![u] = data]
     /\ updateUserTimestamp(u)
     /\ UNCHANGED <<groupVars, userIndex, userGroup>>
     /\ makeSnapShot
     /\ Answer("ok")

(* Removing user u on behalf of group g: the user leaves the group it is   *)
(* in, and g is the group that is removed if it is empty now.              *)
LeftBy(u) == [userData EXCEPT ![userGroup[u]] = @ \ {u}]

RemovalPanics(u, g) ==
  \/ userGroup[u] \notin groupIndex
  \/ EmptyRemovalPanics(g, superGroupId, LeftBy(u), subGroups)

RemoveUser(u, g) ==
  /\ tryRemoveEmptyGroup(g, superGroupId, LeftBy(u), subGroups)
  /\ userIndex' = userIndex \ {u}
  /\ userGroup' = [userGroup EXCEPT ![u] = Root]
  /\ age' = [age EXCEPT ![u] = 0]
  /\ timeSort' = RemoveFirst(timeSort, u)
  /\ UNCHANGED profile
  /\ makeSnapShot

DeleteUser(u, g) ==
  \/ u \notin userIndex /\ Refuse("user not found")
  \/ u \in userIndex /\ g \notin groupIndex /\ Refuse("group not found")
  \/ u \in userIndex /\ g \in groupIndex /\ RemovalPanics(u, g) /\ Panic
  \/ /\ u \in userIndex /\ g \in groupIndex /\ ~RemovalPanics(u, g)
     /\ RemoveUser(u, g)
     /\ Answer("ok")

(* A heartbeat, which also stands for the request for the whole user list: *)
(* that one sends the same command and then reads the snapshot.            *)
UserHeartbeat(u, g) ==
  /\ exec' = [pc |-> "heartbeat", user |-> u, group |-> g, swept |-> FALSE]
  /\ UNCHANGED <<dbVars, reply>>

TimedOut(u) == age[u] = UserTimeout
(* Mutant: the last user in the list is never removed.                     *)
FrontTimedOutButLast == Len(timeSort) > 1 /\ TimedOut(Head(timeSort))

FrontTimedOut == timeSort # <<>> /\ TimedOut(Head(timeSort))

(* Mutant: the loop does not delete the user it found.                     *)
tryRemoveTimeoutUserKept ==
  /\ exec.pc = "heartbeat"
  /\ FrontTimedOut
  /\ exec' = [exec EXCEPT !.swept = TRUE]
  /\ UNCHANGED <<dbVars, reply>>

(* One iteration of the loop of tryRemoveTimeoutUser.  When DeleteUser     *)
(* refuses, the loop finds the same user in front again, without end.      *)
tryRemoveTimeoutUser ==
  LET u == Head(timeSort) IN
  /\ exec.pc = "heartbeat"
  /\ FrontTimedOut
  /\ UNCHANGED reply
  /\ \/ /\ userGroup[u] \notin groupIndex
        /\ exec' = [exec EXCEPT !.swept = TRUE]
        /\ UNCHANGED dbVars
     \/ /\ userGroup[u] \in groupIndex /\ ~RemovalPanics(u, userGroup[u])
        /\ RemoveUser(u, userGroup[u])
        /\ exec' = [exec EXCEPT !.swept = TRUE]
     \/ /\ userGroup[u] \in groupIndex /\ RemovalPanics(u, userGroup[u])
        /\ exec' = [IdleExec EXCEPT !.pc = "dead"]
        /\ UNCHANGED dbVars

FinishHeartbeat ==
  /\ exec.pc = "heartbeat"
  /\ ~FrontTimedOut
  /\ UNCHANGED <<groupVars, userIndex, userGroup, profile>>
  /\ IF exec.swept THEN makeSnapShot ELSE NoSnapShot
  /\ IF exec.group \in groupIndex /\ exec.user \in userIndex
     THEN updateUserTimestamp(exec.user) /\ reply' = "ok"
     ELSE UNCHANGED <<age, timeSort>> /\ reply' = "user not found"
  /\ exec' = IdleExec

(* The handler of /message/send sets no user in its command: the executor  *)
(* dereferences nil.  (The handler of /message/receive sends no command.)  *)
SendMsgToUser == Panic
-----------------------------------------------------------------------------
Init ==
  /\ groupIndex = {Root}
  /\ superGroupId = [g \in Groups |-> Root]
  /\ subGroups = [g \in GroupIds |-> {}]
  /\ userData = [g \in Groups |-> {}]
  /\ userIndex = {}
  /\ userGroup = [u \in Users |-> Root]
  /\ age = [u \in Users |-> 0]
  /\ timeSort = <<>>
  /\ profile \in {[x \in Groups \cup Users |-> d] : d \in Profiles}
  /\ global_version = 1
  /\ snapShot = [Version |-> 1, Data |-> copyGroupToDTO]
  /\ exec = IdleExec
  /\ reply = "none"

(* The commands of the app's requests.  /groups/add always asks for the    *)
(* root, /groups/unmerge is a move to the root, an update of a user names  *)
(* no group, which is the root's id, and a user is deleted on behalf of    *)
(* the group its client believes to be in.                                 *)
Command ==
  \/ \E g \in Groups, d \in Profiles : AddNewGroup(g, Root, d)
  \/ \E g \in Groups, d \in Profiles : UpdataGroup(g, d)
  \/ \E g \in Groups, to \in GroupIds : MoveGroup(g, to)
  \/ \E u \in Users, g \in Groups, d \in Profiles : AddNewUser(u, g, d)
  \/ \E u \in Users, d \in Profiles : UpdataUser(u, Root, d)
  \/ \E u \in Users, g \in Groups : DeleteUser(u, g)

(* Requests the server handles and the app never makes.                    *)
UnusedCommand ==
  /\ UnusedRequests
  /\ \/ \E g \in Groups : DeleteGroup(g)
     \/ \E u \in Users, g \in Groups, d \in Profiles : UpdataUser(u, g, d)
     \/ SendMsgToUser

Heartbeat == \E u \in Users, g \in Groups : UserHeartbeat(u, g)

Tick ==
  /\ exec.pc # "dead"
  /\ \E u \in userIndex : age[u] < UserTimeout
  /\ age' = [u \in Users |->
               IF u \in userIndex /\ age[u] < UserTimeout THEN age[u] + 1
               ELSE age[u]]
  /\ UNCHANGED <<groupVars, userIndex, userGroup, timeSort, profile,
                 global_version, snapShot, exec, reply>>

Accepts == exec.pc = "idle" /\ global_version < MaxVersion

Next ==
  \/ Accepts /\ Command
  \/ Accepts /\ UnusedCommand
  \/ exec.pc = "idle" /\ Heartbeat
  \/ tryRemoveTimeoutUser
  \/ FinishHeartbeat
  \/ Tick

(* The executor goroutine runs whenever it has something to do; nothing    *)
(* obliges a client to send a command or the clock to tick.                *)
Fairness == WF_vars(tryRemoveTimeoutUser) /\ WF_vars(FinishHeartbeat)

Spec == Init /\ [][Next]_vars

FairSpec == Spec /\ Fairness
-----------------------------------------------------------------------------
(***************************************************************************)
(* Properties.                                                             *)
(***************************************************************************)
TypeOK ==
  /\ groupIndex \in SUBSET GroupIds /\ Root \in groupIndex
  /\ superGroupId \in [Groups -> GroupIds]
  /\ subGroups \in [GroupIds -> SUBSET Groups]
  /\ userData \in [Groups -> SUBSET Users]
  /\ userIndex \in SUBSET Users
  /\ userGroup \in [Users -> GroupIds]
  /\ age \in [Users -> 0..UserTimeout]
  /\ timeSort \in Seq(Users)
  /\ profile \in [Groups \cup Users -> Profiles]
  /\ global_version \in Nat
  /\ snapShot.Version \in Nat
  /\ exec \in [pc : {"idle", "heartbeat", "dead"}, user : Users \cup {"none"},
               group : GroupIds, swept : BOOLEAN]
  /\ reply \in Replies

(* Whatever is asked of the server, the two directions of a link agree     *)
(* where the maps hold it: a group that another group lists is indexed and *)
(* names that group as its super group, so that no group is listed twice   *)
(* and copyGroupToDTO ends; a user that a group lists is indexed and names *)
(* that group.                                                             *)
ListedOnce ==
  /\ \A p \in GroupIds : \A g \in subGroups[p] :
        g \in groupIndex /\ superGroupId[g] = p /\ p \in groupIndex
  /\ \A g \in Groups : \A u \in userData[g] :
        u \in userIndex /\ userGroup[u] = g /\ g \in groupIndex

(* With the app's requests only, nothing is orphaned: the super group of   *)
(* an indexed group is indexed and lists it, and the group of a registered *)
(* user is indexed and lists it.  tryRemoveEmptyGroup must therefore never *)
(* remove a group that something still refers to.                          *)
NoOrphans ==
  /\ \A g \in groupIndex \ {Root} :
        superGroupId[g] \in groupIndex /\ g \in subGroups[superGroupId[g]]
  /\ \A u \in userIndex :
        userGroup[u] \in groupIndex \ {Root} /\ u \in userData[userGroup[u]]

(* With the app's requests only, the executor never dereferences nil, so   *)
(* that no client can take the server down for the others.                 *)
NoPanic == exec.pc # "dead"

(* timeSort lists every registered user exactly once, ordered by the age   *)
(* of its last heartbeat, oldest first: the sweep stops at the first user  *)
(* that is still alive and must not miss one behind it.                    *)
TimeSorted ==
  /\ ToSet(timeSort) = userIndex
  /\ \A i, j \in 1..Len(timeSort) :
        i < j => /\ timeSort[i] # timeSort[j]
                 /\ age[timeSort[i]] >= age[timeSort[j]]

(* What the other goroutines read is the database of the last command, or  *)
(* of the last iteration of a running sweep.                               *)
SnapShotCurrent ==
  snapShot = [Version |-> global_version, Data |-> copyGroupToDTO]

(* A client asks for the list again only when the version it is told       *)
(* differs from its own.  No command, and no iteration of a sweep, may     *)
(* change what lists show without publishing it under the next version;    *)
(* a heartbeat itself changes nothing that is published.                   *)
Published ==
  INSTANCE VersionedList
    WITH list <- copyGroupToDTO, version <- global_version,
         published <- [Version |-> snapShot.Version, List |-> snapShot.Data]
ImplementsVersionedList == Published!Spec

(* Once a heartbeat is answered nobody that timed out is listed any more.  *)
AnsweredHeartbeatSwept ==
  [][exec.pc = "heartbeat" /\ exec'.pc = "idle"
       => \A u \in userIndex : ~TimedOut(u)]_vars

(* A user that leaves on behalf of its own group, or times out, leaves no  *)
(* empty group behind, however many levels its leaving empties.            *)
Hollow(g) == g # Root /\ userData[g] = {} /\ subGroups[g] = {}
NoEmptyGroupLeft ==
  [][\A u \in Users :
       u \in userIndex /\ u \notin userIndex' /\
       (exec.pc = "heartbeat" \/ DeleteUser(u, userGroup[u]))
         => \A g \in groupIndex' \ {Root} : Hollow(g)' => Hollow(g)]_vars

(* Two groups that are merged into each other hang below one another and   *)
(* below nothing else, and the list shows neither.  Leaving the merged     *)
(* group, a move to the root, shows the group again unless nobody is in it.*)
Shown(g) == \E p \in GroupIds : <<p, g>> \in snapShot.Data.subGroups
UnmergeShows ==
  [][\A g \in Groups :
       MoveGroup(g, Root) /\ reply' = "ok" /\ UNCHANGED exec
         => Shown(g)' \/ g \notin groupIndex']_vars

(* A registered user is missing from the list only when its group hangs in *)
(* a cycle of merged groups: above it there is no way to the root.         *)
Above(g) ==
  {p \in GroupIds : \A S \in SUBSET GroupIds :
     (/\ g \in S
      /\ \A x \in S \ {Root} : superGroupId[x] \in S) => p \in S}
HiddenOnlyInCycle ==
  \A u \in userIndex :
     (<<userGroup[u], u>> \in snapShot.Data.users) <=> Root \in Above(userGroup[u])

(* A heartbeat is answered, however many users it has to remove first,     *)
(* unless the process ends or the loop meets a timed-out user whose group  *)
(* was deleted under it.                                                   *)
HeartbeatAnswered ==
  exec.pc = "heartbeat" ~>
     \/ exec.pc # "heartbeat"
     \/ FrontTimedOut /\ userGroup[Head(timeSort)] \notin groupIndex

(* What MemoryDB.go:150-154 says of a move to the group that is already    *)
(* the super group ("alread in"): it is answered and does nothing.         *)
MoveInPlaceDoesNothing ==
  [][\A g \in Groups, to \in GroupIds :
       MoveGroup(g, to) /\ g \in groupIndex /\ superGroupId[g] = to
         => UNCHANGED dbVars]_vars
=============================================================================
