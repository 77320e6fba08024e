--------------------------- MODULE AMRemoteMesher ---------------------------
(***************************************************************************)
(* Clients of the global mesher (AMRemoteMesher.m, with the requests of    *)
(* AMHttpAsyncRequest.m and the states of AMMesher.m) around its database. *)
(* In a client three threads work together: the main thread, which runs    *)
(* what the user asks for and the blocks that were dispatched to it; the   *)
(* thread of the request queue, which sends one request at a time and runs *)
(* its callback; and the heartbeat thread.  The network between a client   *)
(* and the server fails.                                                   *)
(*                                                                         *)
(* The database is the one of MemoryDB, whose goroutines change it one     *)
(* command at a time (RemoteServer).  A heartbeat that fails and the end   *)
(* of a heartbeat thread are modelled in AMHeartBeat, the local side of a  *)
(* client in AMLocalMesher: here it is up or down (cluster).               *)
(***************************************************************************)
EXTENDS Integers, Sequences, FiniteSets

CONSTANTS
  Users,          \* ids of users
  Clients,        \* the users whose client is modelled; the others are peers
  Groups,         \* ids of local groups
  OwnGroup,       \* the id each client makes for its group
  LeaderGroup,    \* the id of the group whose local server they all use
  Root, Profiles, UserTimeout, MaxVersion,   \* of MemoryDB
  AcceptVersion,  \* bound: users go online below this version only
  EditVersion,    \* bound: users change something below this version only
  PeerVersion,    \* bound: peers do something below this version only
  MaxTrouble,     \* bound: how many things go wrong in a behaviour
  MaxQueue        \* bound: no heartbeat while so many requests wait

ASSUME GroupAssumption ==
  OwnGroup \in [Clients -> Groups] /\ LeaderGroup \in Groups
ASSUME ClientAssumption == Clients \subseteq Users
(* What MemoryDB assumes of its constants.                                 *)
ASSUME DatabaseAssumption ==
  /\ Root \notin Groups /\ Users \cap Groups = {}
  /\ UserTimeout \in Nat \ {0} /\ MaxVersion \in Nat

VARIABLES
  \* the database, see MemoryDB
  groupIndex, superGroupId, subGroups, userData, userIndex, userGroup, age,
  timeSort, profile, global_version, snapShot, exec, reply,
  \* the clients
  cluster,      \* clusterState is kClusterStarted
  mesherState,  \* AMMesher.mesherState
  groupId,      \* myLocalLiveGroup.groupId
  main,         \* the main thread: ready, or where it is in stopRemoteClient
  blocks,       \* the blocks dispatched to the main queue
  queue,        \* _httpRequestQueue: the requests that were not started
  op,           \* the request that the queue's thread is running
  beat,         \* _heartbeatThread
  version,      \* _userlistVersion
  liveGroups,   \* remoteLiveGroups: the version of the list shown, 0 for none
  \* the network, and what went wrong
  serving,      \* whose heartbeat the executor is running
  late,         \* requests their sender gave up and the server still gets
  trouble       \* what went wrong for each client until now

dbVars == <<groupIndex, superGroupId, subGroups, userData, userIndex,
            userGroup, age, timeSort, profile, global_version, snapShot, exec,
            reply>>
clientVars == <<cluster, mesherState, groupId, main, blocks, queue, op, beat,
                version, liveGroups>>
vars == <<dbVars, clientVars, serving, late, trouble>>

GroupIds == Groups \cup {Root}

DB == INSTANCE MemoryDB WITH UnusedRequests <- FALSE

Troubles == {"lost", "late", "stopped", "regrouped", "swept", "peerLeft"}
NoRequest == [action |-> "none"]
NoOp == [req |-> NoRequest, stage |-> "none", cancelled |-> FALSE,
         reply |-> "none", got |-> 0, groups |-> FALSE]
NoServing == [user |-> "none", by |-> "none"]

(* The bound on what goes wrong leaves room for something more.            *)
TroubleLeft ==
  Cardinality({t \in Clients \X Troubles : t[2] \in trouble[t[1]]}) < MaxTrouble

Meets(c, what) == trouble' = [trouble EXCEPT ![c] = @ \cup {what}]
-----------------------------------------------------------------------------
(***************************************************************************)
(* Requests.  What a request says is put together when it is queued.       *)
(***************************************************************************)
registerGroup(c)   == [action |-> "group_new", group |-> groupId[c]]
registerSelf(c)    == [action |-> "user_new", group |-> groupId[c]]
updateMyself(c)    == [action |-> "user_update", group |-> Root]
updateGroupInfo(c) == [action |-> "group_update", group |-> groupId[c]]
mergeGroup(c, to)  == [action |-> "group_move", group |-> groupId[c], to |-> to]
requestUserList(c) == [action |-> "user_heartbeat", group |-> groupId[c]]
unregisterSelf(c)  == [action |-> "user_delete", group |-> groupId[c]]

addOperation(c, r) == queue' = [queue EXCEPT ![c] = Append(@, r)]
dispatch(c, b) == blocks' = [blocks EXCEPT ![c] = Append(@, b)]

(* The thread of the queue starts the next request when none is running.   *)
StartRequest(c) ==
  /\ op[c] = NoOp /\ queue[c] # <<>>
  /\ op' = [op EXCEPT ![c] = [NoOp EXCEPT !.req = Head(queue[c]),
                                          !.stage = "sent"]]
  /\ queue' = [queue EXCEPT ![c] = Tail(@)]
  /\ UNCHANGED <<dbVars, cluster, mesherState, groupId, main, blocks, beat,
                 version, liveGroups, serving, late, trouble>>

(* Mutant: a group that was there already is an error.                     *)
RegisteredOnlyNew(c, answer) ==
  /\ IF answer = "ok" THEN dispatch(c, [do |-> "registerSelf"])
     ELSE UNCHANGED blocks
  /\ UNCHANGED version

(* The end of a request.  A callback that finds its request cancelled does *)
(* nothing; the others go on in blocks on the main thread.  The server has *)
(* no other answer to a group than "ok" and "exists" (AddNewGroup), which  *)
(* leaves the client nothing to retry.                                     *)
Registered(c, answer) ==
  /\ IF answer \in {"ok", "exists"} THEN dispatch(c, [do |-> "registerSelf"])
     ELSE UNCHANGED blocks
  /\ UNCHANGED version

(* Mutant: whatever the server answers.                                    *)
SelfRegisteredWhatever(c, answer) ==
  /\ IF answer = "error" THEN UNCHANGED blocks ELSE dispatch(c, [do |-> "meshed"])
  /\ UNCHANGED version

SelfRegistered(c, answer) ==
  /\ CASE answer = "error" -> UNCHANGED blocks
       [] answer = "ok" -> dispatch(c, [do |-> "meshed"])
       [] OTHER -> dispatch(c, [do |-> "cannotMesh"])
  /\ UNCHANGED version

(* The version is stored at once, on this thread; the list is shown by a   *)
(* block, unless it holds no group.                                        *)
UserListArrived(c, answer, got, groups) ==
  IF answer = "error" THEN UNCHANGED <<blocks, version>>
  ELSE /\ version' = [version EXCEPT ![c] = got]
       /\ IF groups THEN dispatch(c, [do |-> "show", list |-> got])
          ELSE UNCHANGED blocks

requestCallback(c) ==
  LET o == op[c] IN
  /\ o.stage = "answered"
  /\ CASE o.cancelled -> UNCHANGED <<blocks, version>>
       [] ~o.cancelled /\ o.req.action = "group_new" -> Registered(c, o.reply)
       [] ~o.cancelled /\ o.req.action = "user_new" -> SelfRegistered(c, o.reply)
       [] ~o.cancelled /\ o.req.action = "user_heartbeat" ->
            UserListArrived(c, o.reply, o.got, o.groups)
       [] OTHER -> UNCHANGED <<blocks, version>>
  /\ op' = [op EXCEPT ![c] = NoOp]
  /\ UNCHANGED <<dbVars, cluster, mesherState, groupId, main, queue, beat,
                 liveGroups, serving, late, trouble>>
-----------------------------------------------------------------------------
(***************************************************************************)
(* The main thread.                                                        *)
(***************************************************************************)
(* A block that was dispatched runs, whatever happened since.              *)
RunBlock(c) ==
  LET b == Head(blocks[c]) IN
  /\ main[c] = "ready" /\ blocks[c] # <<>>
  /\ blocks' = [blocks EXCEPT ![c] = Tail(@)]
  /\ \/ /\ b.do = "registerSelf" /\ addOperation(c, registerSelf(c))
        /\ UNCHANGED <<mesherState, beat, liveGroups>>
     \/ /\ b.do = "meshed" /\ beat[c] \in {"off", "idle"}
        /\ beat' = [beat EXCEPT ![c] = "idle"]
        /\ mesherState' = [mesherState EXCEPT ![c] = "Meshed"]
        /\ addOperation(c, updateMyself(c))
        /\ UNCHANGED liveGroups
     \/ /\ b.do = "cannotMesh"
        /\ IF mesherState[c] = "Meshed" THEN addOperation(c, updateMyself(c))
           ELSE UNCHANGED queue
        /\ UNCHANGED <<mesherState, beat, liveGroups>>
     \/ /\ b.do = "show"
        /\ liveGroups' = [liveGroups EXCEPT ![c] = b.list]
        /\ UNCHANGED <<mesherState, beat, queue>>
  /\ UNCHANGED <<dbVars, cluster, groupId, main, op, version, serving, late,
                 trouble>>

(* The button of the main window: goOnline when unmeshed.                  *)
goOnline(c) ==
  /\ main[c] = "ready" /\ cluster[c] /\ mesherState[c] = "Unmeshed"
  /\ global_version < AcceptVersion
  /\ mesherState' = [mesherState EXCEPT ![c] = "Meshing"]
  /\ addOperation(c, registerGroup(c))
  /\ trouble' = [trouble EXCEPT ![c] = @ \ {"swept", "peerLeft"}]
  /\ UNCHANGED <<dbVars, cluster, groupId, main, blocks, op, beat, version,
                 liveGroups, serving, late>>

(* Mutant: no look at the state.                                           *)
goOfflineAnyTime(c) ==
  /\ main[c] = "ready" /\ cluster[c]
  /\ mesherState' = [mesherState EXCEPT ![c] = "Unmeshing"]
  /\ main' = [main EXCEPT ![c] = "cancel"]
  /\ UNCHANGED <<dbVars, cluster, groupId, blocks, queue, op, beat, version,
                 liveGroups, serving, late, trouble>>

goOffline(c) ==
  /\ main[c] = "ready" /\ cluster[c] /\ mesherState[c] = "Meshed"
  /\ mesherState' = [mesherState EXCEPT ![c] = "Unmeshing"]
  /\ main' = [main EXCEPT ![c] = "cancel"]
  /\ UNCHANGED <<dbVars, cluster, groupId, blocks, queue, op, beat, version,
                 liveGroups, serving, late, trouble>>

(* stopMesher takes the local side down and unmeshes in any state.         *)
stopMesher(c) ==
  /\ main[c] = "ready" /\ cluster[c]
  /\ cluster' = [cluster EXCEPT ![c] = FALSE]
  /\ mesherState' = [mesherState EXCEPT ![c] = "Unmeshing"]
  /\ main' = [main EXCEPT ![c] = "cancel"]
  /\ IF mesherState[c] = "Meshing" THEN TroubleLeft /\ Meets(c, "stopped")
     ELSE UNCHANGED trouble
  /\ UNCHANGED <<dbVars, groupId, blocks, queue, op, beat, version, liveGroups,
                 serving, late>>

startMesher(c) ==
  /\ main[c] = "ready" /\ ~cluster[c]
  /\ cluster' = [cluster EXCEPT ![c] = TRUE]
  /\ UNCHANGED <<dbVars, mesherState, groupId, main, blocks, queue, op, beat,
                 version, liveGroups, serving, late, trouble>>

(* stopRemoteClient first waits for the heartbeat thread to end.  The      *)
(* requests that were not started are as good as gone: cancelled requests  *)
(* are not sent.                                                           *)
CancelAll(c) ==
  /\ main[c] = "cancel" /\ beat[c] \in {"off", "idle"}
  /\ beat' = [beat EXCEPT ![c] = "off"]
  /\ queue' = [queue EXCEPT ![c] = <<>>]
  /\ op' = [op EXCEPT ![c].cancelled = @ \/ op[c] # NoOp]
  /\ main' = [main EXCEPT ![c] = "unregister"]
  /\ UNCHANGED <<dbVars, cluster, mesherState, groupId, blocks, version,
                 liveGroups, serving, late, trouble>>

(* ... and ends once the unregistration was answered or timed out.         *)
Stopped(c) ==
  /\ main' = [main EXCEPT ![c] = "ready"]
  /\ mesherState' = [mesherState EXCEPT ![c] = "Unmeshed"]
  /\ liveGroups' = [liveGroups EXCEPT ![c] = 0]
  /\ UNCHANGED <<cluster, groupId, blocks, queue, op, beat, version, serving>>

(* What a meshed user changes of itself or its group, or merges.           *)
Edit(c) ==
  /\ main[c] = "ready" /\ mesherState[c] = "Meshed"
  /\ global_version < EditVersion /\ Len(queue[c]) < MaxQueue
  /\ \/ addOperation(c, updateMyself(c))
     \/ addOperation(c, updateGroupInfo(c))
     \/ \E to \in GroupIds : addOperation(c, mergeGroup(c, to))
  /\ UNCHANGED <<dbVars, cluster, mesherState, groupId, main, blocks, op, beat,
                 version, liveGroups, serving, late, trouble>>

(* The first list of the local server replaces the id of the client's own  *)
(* group (AMLocalMesher.m) by that of the leader's.                        *)
JoinLocalGroup(c) ==
  /\ main[c] = "ready" /\ cluster[c] /\ groupId[c] # LeaderGroup
  /\ groupId' = [groupId EXCEPT ![c] = LeaderGroup]
  /\ IF mesherState[c] = "Unmeshed" /\ op[c] = NoOp /\ c \notin userIndex
     THEN UNCHANGED trouble
     ELSE TroubleLeft /\ Meets(c, "regrouped")
  /\ UNCHANGED <<dbVars, cluster, mesherState, main, blocks, queue, op, beat,
                 version, liveGroups, serving, late>>
-----------------------------------------------------------------------------
(***************************************************************************)
(* The server.  A peer whose last member leaves takes the group along.     *)
(***************************************************************************)
PeersNotice(c) ==
  trouble' = [d \in Clients |->
    IF d # c /\ mesherState[d] = "Meshing" /\ groupId[d] \in groupIndex \ groupIndex'
    THEN trouble[d] \cup {"peerLeft"} ELSE trouble[d]]

Command(c, r) ==
  /\ exec.pc = "idle"
  /\ \E d \in Profiles :
     \/ r.action = "group_new" /\ DB!AddNewGroup(r.group, Root, d)
     \/ r.action = "user_new" /\ DB!AddNewUser(c, r.group, d)
     \/ r.action = "user_update" /\ DB!UpdataUser(c, r.group, d)
     \/ r.action = "group_update" /\ DB!UpdataGroup(r.group, d)
     \/ r.action = "group_move" /\ DB!MoveGroup(r.group, r.to)
     \/ r.action = "user_delete" /\ DB!DeleteUser(c, r.group)

ServeRequest(c) ==
  /\ op[c].stage = "sent"
  /\ Command(c, op[c].req)
  /\ op' = [op EXCEPT ![c].stage = "answered", ![c].reply = reply']
  /\ PeersNotice(c)
  /\ UNCHANGED <<cluster, mesherState, groupId, main, blocks, queue, beat,
                 version, liveGroups, serving, late>>

ServeUnregistration(c) ==
  /\ main[c] = "unregister"
  /\ Command(c, unregisterSelf(c))
  /\ PeersNotice(c)
  /\ Stopped(c)
  /\ UNCHANGED late

(* Peers are clients too: whatever they ask for, they may ask at any time. *)
PeerRequests ==
  [action : {"group_new", "user_new", "user_delete"}, group : Groups]

PeerAsks ==
  /\ global_version < PeerVersion
  /\ \E p \in Users \ Clients, r \in PeerRequests :
        Command(p, r) /\ PeersNotice(p)
  /\ UNCHANGED <<clientVars, serving, late>>

ServeLate ==
  \E l \in late :
     /\ Command(l.user, l.req)
     /\ late' = late \ {l}
     /\ PeersNotice(l.user)
     /\ UNCHANGED <<clientVars, serving>>

(* A request for the list is a heartbeat first, as is a datagram of the    *)
(* heartbeat thread; the executor runs one at a time.                      *)
ServeListRequest(c) ==
  /\ op[c].stage = "sent" /\ op[c].req.action = "user_heartbeat"
  /\ exec.pc = "idle"
  /\ DB!UserHeartbeat(c, op[c].req.group)
  /\ serving' = [user |-> c, by |-> "list"]
  /\ op' = [op EXCEPT ![c].stage = "executing"]
  /\ UNCHANGED <<cluster, mesherState, groupId, main, blocks, queue, beat,
                 version, liveGroups, late, trouble>>

SendBeat(c) ==
  /\ beat[c] = "idle" /\ exec.pc = "idle" /\ Len(queue[c]) < MaxQueue
  /\ DB!UserHeartbeat(c, groupId[c])
  /\ serving' = [user |-> c, by |-> "beat"]
  /\ beat' = [beat EXCEPT ![c] = "executing"]
  /\ UNCHANGED <<cluster, mesherState, groupId, main, blocks, queue, op,
                 version, liveGroups, late, trouble>>

Sweep ==
  /\ DB!tryRemoveTimeoutUser
  /\ \E u \in Users :
        /\ timeSort[1] = u
        /\ trouble' = [d \in Clients |->
             IF d = u THEN trouble[d] \cup {"swept"}
             ELSE IF /\ mesherState[d] = "Meshing"
                     /\ groupId[d] \in groupIndex \ groupIndex'
                  THEN trouble[d] \cup {"peerLeft"}
             ELSE trouble[d]]
  /\ UNCHANGED <<clientVars, serving, late>>

FinishHeartbeat ==
  /\ DB!FinishHeartbeat
  /\ serving' = NoServing
  /\ IF serving.by = "list"
     THEN op' = [op EXCEPT ![serving.user].stage = "read"] /\ UNCHANGED beat
     ELSE beat' = [beat EXCEPT ![serving.user] = "read"] /\ UNCHANGED op
  /\ UNCHANGED <<cluster, mesherState, groupId, main, blocks, queue, version,
                 liveGroups, late, trouble>>

ReadList(c) ==
  /\ op[c].stage = "read"
  /\ op' = [op EXCEPT ![c].stage = "answered", ![c].reply = "ok",
               ![c].got = snapShot.Version,
               ![c].groups = \E e \in snapShot.Data.subGroups : e[1] = Root]
  /\ UNCHANGED <<dbVars, cluster, mesherState, groupId, main, blocks, queue,
                 beat, version, liveGroups, serving, late, trouble>>

(* Mutant: the version counts as known once the list is asked for.         *)
didReceiveDataRemembers(c) ==
  /\ beat[c] = "read"
  /\ beat' = [beat EXCEPT ![c] = "idle"]
  /\ version' = [version EXCEPT ![c] = snapShot.Version]
  /\ IF snapShot.Version # version[c] THEN addOperation(c, requestUserList(c))
     ELSE UNCHANGED queue
  /\ UNCHANGED <<dbVars, cluster, mesherState, groupId, main, blocks, op,
                 liveGroups, serving, late, trouble>>

(* The answer to a heartbeat; an older answer would only ask for the list  *)
(* once more.                                                              *)
didReceiveData(c) ==
  /\ beat[c] = "read"
  /\ beat' = [beat EXCEPT ![c] = "idle"]
  /\ IF snapShot.Version # version[c] THEN addOperation(c, requestUserList(c))
     ELSE UNCHANGED queue
  /\ UNCHANGED <<dbVars, cluster, mesherState, groupId, main, blocks, op,
                 version, liveGroups, serving, late, trouble>>

ClockTick ==
  TroubleLeft /\ DB!Tick /\ UNCHANGED <<clientVars, serving, late, trouble>>
-----------------------------------------------------------------------------
(***************************************************************************)
(* The network.  A request may be lost on the way there or back, and its   *)
(* sender may give it up while the server still gets it.                   *)
(***************************************************************************)
LoseRequest(c) ==
  /\ op[c].stage \in {"sent", "answered"} /\ op[c].reply # "error" /\ TroubleLeft
  /\ op' = [op EXCEPT ![c].stage = "answered", ![c].reply = "error"]
  /\ Meets(c, "lost")
  /\ UNCHANGED <<dbVars, cluster, mesherState, groupId, main, blocks, queue,
                 beat, version, liveGroups, serving, late>>

TimeOutRequest(c) ==
  /\ op[c].stage = "sent" /\ op[c].req.action # "user_heartbeat" /\ TroubleLeft
  /\ op' = [op EXCEPT ![c].stage = "answered", ![c].reply = "error"]
  /\ late' = late \cup {[user |-> c, req |-> op[c].req]}
  /\ Meets(c, "late")
  /\ UNCHANGED <<dbVars, cluster, mesherState, groupId, main, blocks, queue,
                 beat, version, liveGroups, serving>>

LoseUnregistration(c) ==
  /\ main[c] = "unregister" /\ TroubleLeft
  /\ Stopped(c)
  /\ \/ UNCHANGED late /\ Meets(c, "lost")
     \/ /\ late' = late \cup {[user |-> c, req |-> unregisterSelf(c)]}
        /\ Meets(c, "late")
  /\ UNCHANGED dbVars
-----------------------------------------------------------------------------
Init ==
  /\ DB!Init
  /\ cluster = [c \in Clients |-> TRUE]
  /\ mesherState = [c \in Clients |-> "Unmeshed"]
  /\ groupId = OwnGroup
  /\ main = [c \in Clients |-> "ready"]
  /\ blocks = [c \in Clients |-> <<>>]
  /\ queue = [c \in Clients |-> <<>>]
  /\ op = [c \in Clients |-> NoOp]
  /\ beat = [c \in Clients |-> "off"]
  /\ version = [c \in Clients |-> 0]
  /\ liveGroups = [c \in Clients |-> 0]
  /\ serving = NoServing
  /\ late = {}
  /\ trouble = [c \in Clients |-> {}]

User(c) ==
  goOnline(c) \/ goOffline(c) \/ stopMesher(c) \/ startMesher(c) \/ Edit(c)

Main(c) == RunBlock(c) \/ CancelAll(c)
Queue(c) == StartRequest(c) \/ requestCallback(c)
Server(c) ==
  \/ ServeRequest(c) \/ ServeUnregistration(c) \/ ServeListRequest(c)
  \/ ReadList(c)
Beat(c) == SendBeat(c) \/ didReceiveData(c)
Network(c) == LoseRequest(c) \/ TimeOutRequest(c) \/ LoseUnregistration(c)

Next ==
  \/ \E c \in Clients :
        \/ User(c) \/ JoinLocalGroup(c)
        \/ Main(c) \/ Queue(c) \/ Beat(c)
        \/ Server(c) \/ Network(c)
  \/ PeerAsks \/ ServeLate \/ Sweep \/ FinishHeartbeat \/ ClockTick

Spec == Init /\ [][Next]_vars
-----------------------------------------------------------------------------
(* Nothing is left of what the client was asked to do.                     *)
AtRest(c) ==
  /\ main[c] = "ready" /\ blocks[c] = <<>> /\ queue[c] = <<>> /\ op[c] = NoOp

(* A client that shows itself as meshed is registered, unless the server   *)
(* removed it as silent, executed one of its old requests late, or the     *)
(* client was stopped in the middle of an earlier registration.            *)
MeshedIsRegistered ==
  \A c \in Clients :
     mesherState[c] = "Meshed"
       => c \in userIndex \/ trouble[c] \cap {"swept", "late", "stopped"} # {}

(* stopRemoteClient and unregisterSelf: a client that went offline and has *)
(* nothing left to do is not registered any more, unless a request was     *)
(* lost or late, the client was stopped while it registered, or the id of  *)
(* its group changed under it.                                             *)
UnmeshedIsGone ==
  \A c \in Clients :
     mesherState[c] = "Unmeshed" /\ AtRest(c) /\ c \in userIndex
       => trouble[c] \cap {"lost", "late", "stopped", "regrouped"} # {}

(* registerGroup and registerSelf: a registration that came to its end     *)
(* without meshing the client was hindered by the network, by a stop, by   *)
(* another group id, or by peers who took the group away between the two   *)
(* requests.                                                               *)
CannotMesh ==
  \A c \in Clients :
     mesherState[c] = "Meshing" /\ AtRest(c)
       => trouble[c] \cap {"lost", "late", "stopped", "regrouped", "peerLeft"} # {}

(* What stopRemoteClient cancels does not come back: an unmeshed client    *)
(* does not mesh without being asked to, unless it was stopped while it    *)
(* registered: the block that registers it or starts its heartbeat may be  *)
(* dispatched already, and is not cancelled.                               *)
StaysOffline ==
  [][\A c \in Clients :
       mesherState[c] = "Unmeshed" /\ mesherState'[c] = "Meshed"
         => "stopped" \in trouble[c]]_vars

(* requestUserList: the version is stored on one thread and the list is    *)
(* shown by another.  A client asks for a list only when the server's      *)
(* version is not the one it stored; so a client that would not ask any    *)
(* more shows the server's list, unless that one holds no group: such a    *)
(* list is dropped, and its version stays.                                 *)
KnownListIsShown ==
  \A c \in Clients :
     mesherState[c] = "Meshed" /\ AtRest(c) /\ version[c] = snapShot.Version
       => \/ liveGroups[c] = version[c]
          \/ ~\E e \in snapShot.Data.subGroups : e[1] = Root
=============================================================================
