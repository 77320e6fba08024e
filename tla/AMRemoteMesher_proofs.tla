------------------------ MODULE AMRemoteMesher_proofs ------------------------
(***************************************************************************)
(* Theorems about the clients of the global mesher, for any number of      *)
(* clients, peers and groups and whatever goes wrong.  What the database   *)
(* does is taken from MemoryDB_proofs.                                     *)
(***************************************************************************)
EXTENDS AMRemoteMesher, SequenceTheorems, TLAPS

P == INSTANCE MemoryDB_proofs WITH UnusedRequests <- FALSE

(***************************************************************************)
(* The types of the client's variables.                                    *)
(***************************************************************************)
Request ==
  [action : {"group_new", "user_new", "group_update", "user_heartbeat"},
   group : Groups]
    \cup [action : {"user_update"}, group : {Root}]
    \cup [action : {"group_move"}, group : Groups, to : GroupIds]

LateRequest == Request \cup [action : {"user_delete"}, group : Groups]

Block ==
  [do : {"registerSelf", "meshed", "cannotMesh"}]
    \cup [do : {"show"}, list : Nat]

Op ==
  [req : Request \cup {NoRequest},
   stage : {"none", "sent", "executing", "read", "answered"},
   cancelled : BOOLEAN, reply : DB!Replies \cup {"error"}, got : Nat,
   groups : BOOLEAN]

TypeOK ==
  /\ cluster \in [Clients -> BOOLEAN]
  /\ mesherState \in [Clients -> {"Unmeshed", "Meshing", "Meshed", "Unmeshing"}]
  /\ groupId \in [Clients -> Groups]
  /\ main \in [Clients -> {"ready", "cancel", "unregister"}]
  /\ blocks \in [Clients -> Seq(Block)]
  /\ queue \in [Clients -> Seq(Request)]
  /\ op \in [Clients -> Op]
  /\ beat \in [Clients -> {"off", "idle", "executing", "read"}]
  /\ version \in [Clients -> Nat]
  /\ liveGroups \in [Clients -> Nat]
  /\ late \subseteq [user : Clients, req : LateRequest]
  /\ trouble \in [Clients -> SUBSET Troubles]

(* Whose heartbeat the executor runs.                                      *)
Serving ==
  /\ serving.by \in {"none", "list", "beat"}
  /\ serving.by = "none" => exec.pc # "heartbeat"
  /\ serving.by # "none" => serving.user \in Clients
  /\ serving.by = "list" => /\ op[serving.user].stage = "executing"
  /\ serving.by = "beat" => beat[serving.user] = "executing"

(* How far a request is.                                                   *)
OpStage(c) ==
  /\ op[c].stage = "none" <=> op[c] = NoOp
  /\ op[c].req = NoRequest <=> op[c] = NoOp
  /\ op[c].stage \in {"executing", "read"} => op[c].req.action = "user_heartbeat"

MainState(c) == main[c] # "ready" <=> mesherState[c] = "Unmeshing"

LateKnown == \A l \in late : "late" \in trouble[l.user]
-----------------------------------------------------------------------------
(***************************************************************************)
(* What a step of the server does to the users and groups.                 *)
(***************************************************************************)
DBInv == P!AppInv

(* The constants are those that the database's theorems are about.         *)
LEMMA DatabaseConstants ==
  /\ P!RootAssumption /\ P!TimeoutAssumption /\ P!VersionAssumption
  /\ P!RequestsAssumption /\ P!DistinctAssumption
BY DatabaseAssumption
   DEF P!RootAssumption, P!TimeoutAssumption, P!VersionAssumption,
       P!RequestsAssumption, P!DistinctAssumption

(* The database starts sound.                                              *)
LEMMA DatabaseInit == DB!Init => DBInv
<1>1. DB!Init => P!Init
  BY DEF DB!Init, P!Init, DB!GroupIds, P!GroupIds, DB!IdleExec, P!IdleExec,
         DB!copyGroupToDTO, P!copyGroupToDTO, DB!Reached, P!Reached
<1> QED BY <1>1, DatabaseConstants, P!AppInit DEF DBInv

(* What the sound database tells a client.                                 *)
LEMMA DatabaseFacts ==
  ASSUME DBInv
  PROVE  /\ snapShot.Version \in Nat
         /\ userGroup \in [Users -> GroupIds]
         /\ \A u \in userIndex : u \in Users /\ userGroup[u] \in groupIndex
         /\ reply \in DB!Replies
BY DEF DBInv, P!AppInv, P!Inv, P!TypeOK, P!NoOrphans, P!GroupIds, GroupIds,
       P!Replies, DB!Replies

(* Both name the same operator on lists.                                   *)
LEMMA SameRemoval == \A s, u : DB!RemoveFirst(s, u) = P!RemoveFirst(s, u)
BY DEF DB!RemoveFirst, P!RemoveFirst, DB!SelectInSeq, P!SelectInSeq,
       DB!RemoveAt, P!RemoveAt, DB!Min, P!Min

(* The commands are those of the theorems.                                 *)
LEMMA SameCommands ==
  ASSUME NEW u, NEW g, NEW to, NEW d
  PROVE  /\ DB!AddNewGroup(g, Root, d) => P!AddNewGroup(g, Root, d)
         /\ DB!AddNewUser(u, g, d) => P!AddNewUser(u, g, d)
         /\ DB!UpdataUser(u, g, d) => P!UpdataUser(u, g, d)
         /\ DB!UpdataGroup(g, d) => P!UpdataGroup(g, d)
         /\ DB!MoveGroup(g, to) => P!MoveGroup(g, to)
         /\ DB!DeleteUser(u, g) => P!DeleteUser(u, g)
<1> USE DEF DB!makeSnapShot, P!makeSnapShot, DB!copyGroupToDTO, P!copyGroupToDTO,
            DB!Reached, P!Reached, DB!GroupIds, P!GroupIds, DB!Answer, P!Answer,
            DB!Refuse, P!Refuse, DB!dbVars, P!dbVars, DB!groupVars, P!groupVars,
            DB!userVars, P!userVars
<1>1. DB!AddNewGroup(g, Root, d) => P!AddNewGroup(g, Root, d)
  BY DEF DB!AddNewGroup, P!AddNewGroup
<1>2. DB!AddNewUser(u, g, d) => P!AddNewUser(u, g, d)
  BY SameRemoval
     DEF DB!AddNewUser, P!AddNewUser, DB!updateUserTimestamp, P!updateUserTimestamp
<1>3. DB!UpdataUser(u, g, d) => P!UpdataUser(u, g, d)
  BY SameRemoval
     DEF DB!UpdataUser, P!UpdataUser, DB!updateUserTimestamp, P!updateUserTimestamp
<1>4. DB!UpdataGroup(g, d) => P!UpdataGroup(g, d)
  BY DEF DB!UpdataGroup, P!UpdataGroup
<1>5. DB!MoveGroup(g, to) => P!MoveGroup(g, to)
  BY DEF DB!MoveGroup, P!MoveGroup, DB!MovePanics, P!MovePanics, DB!Panic, P!Panic,
         DB!EmptyRemovalPanics, P!EmptyRemovalPanics, DB!EmptiedFrom, P!EmptiedFrom,
         DB!MovedSuper, P!MovedSuper, DB!MovedSubs, P!MovedSubs,
         DB!tryRemoveEmptyGroup, P!tryRemoveEmptyGroup, DB!IdleExec, P!IdleExec
<1>6. DB!DeleteUser(u, g) => P!DeleteUser(u, g)
  BY SameRemoval
     DEF DB!DeleteUser, P!DeleteUser, DB!RemovalPanics, P!RemovalPanics, DB!Panic,
         P!Panic, DB!EmptyRemovalPanics, P!EmptyRemovalPanics, DB!EmptiedFrom,
         P!EmptiedFrom, DB!RemoveUser, P!RemoveUser, DB!LeftBy, P!LeftBy,
         DB!tryRemoveEmptyGroup, P!tryRemoveEmptyGroup, DB!IdleExec, P!IdleExec
<1> QED BY <1>1, <1>2, <1>3, <1>4, <1>5, <1>6

(* So are the steps of a heartbeat and of the clock.                       *)
LEMMA SameSteps ==
  /\ DB!tryRemoveTimeoutUser => P!tryRemoveTimeoutUser
  /\ DB!FinishHeartbeat => P!FinishHeartbeat
  /\ DB!Tick => P!Tick
<1> USE DEF DB!makeSnapShot, P!makeSnapShot, DB!copyGroupToDTO, P!copyGroupToDTO,
            DB!Reached, P!Reached, DB!GroupIds, P!GroupIds,
            DB!dbVars, P!dbVars, DB!groupVars, P!groupVars,
            DB!userVars, P!userVars, DB!FrontTimedOut, P!FrontTimedOut,
            DB!TimedOut, P!TimedOut, DB!IdleExec, P!IdleExec
<1>1. DB!tryRemoveTimeoutUser => P!tryRemoveTimeoutUser
  BY SameRemoval
     DEF DB!tryRemoveTimeoutUser, P!tryRemoveTimeoutUser,
         DB!RemovalPanics, P!RemovalPanics,
         DB!EmptyRemovalPanics, P!EmptyRemovalPanics, DB!EmptiedFrom,
         P!EmptiedFrom, DB!RemoveUser, P!RemoveUser, DB!LeftBy, P!LeftBy,
         DB!tryRemoveEmptyGroup, P!tryRemoveEmptyGroup
<1>2. DB!FinishHeartbeat => P!FinishHeartbeat
  BY SameRemoval
     DEF DB!FinishHeartbeat, P!FinishHeartbeat, DB!NoSnapShot, P!NoSnapShot,
         DB!updateUserTimestamp, P!updateUserTimestamp
<1>3. DB!Tick => P!Tick
  BY DEF DB!Tick, P!Tick
<1> QED BY <1>1, <1>2, <1>3

(* What a request does, for its sender and for the others.                 *)
LEMMA CommandEffect ==
  ASSUME DBInv, NEW c \in Users, NEW r \in LateRequest, Command(c, r)
  PROVE  /\ DBInv' /\ exec' = exec /\ reply' \in DB!Replies
         /\ snapShot' = snapShot \/ snapShot'.Version > snapShot.Version
         /\ \A v \in Users \ {c} :
               /\ v \in userIndex' <=> v \in userIndex
               /\ userGroup'[v] = userGroup[v]
         /\ r.action \notin {"user_new", "user_delete"} =>
               UNCHANGED <<userIndex, userGroup>>
         /\ r.action = "group_new" =>
               r.group \in groupIndex' /\ reply' \in {"ok", "exists"}
         /\ r.action = "user_new" =>
               /\ groupIndex' = groupIndex
               /\ reply' = "ok" <=> c \notin userIndex /\ r.group \in groupIndex
               /\ reply' = "ok" => /\ c \in userIndex' /\ userGroup'[c] = r.group
                                   /\ snapShot'.Version > snapShot.Version
               /\ reply' # "ok" => UNCHANGED <<userIndex, userGroup>>
         /\ r.action = "user_delete" =>
               /\ r.group \in groupIndex => c \notin userIndex'
               /\ c \in userIndex' => UNCHANGED userGroup /\ c \in userIndex
<1> USE DEF DBInv
<1>1. PICK d \in Profiles :
         \/ r.action = "group_new" /\ P!AddNewGroup(r.group, Root, d)
         \/ r.action = "user_new" /\ P!AddNewUser(c, r.group, d)
         \/ r.action = "user_update" /\ P!UpdataUser(c, r.group, d)
         \/ r.action = "group_update" /\ P!UpdataGroup(r.group, d)
         \/ r.action = "group_move" /\ P!MoveGroup(r.group, r.to)
         \/ r.action = "user_delete" /\ P!DeleteUser(c, r.group)
  BY SameCommands DEF Command
<1>2. /\ r.action # "user_update" => r.group \in Groups
      /\ r.action = "user_update" => r.group = Root
      /\ r.action = "group_move" => r.to \in P!GroupIds
  BY DEF LateRequest, Request, P!GroupIds, GroupIds
<1>3. P!Command
  BY <1>1, <1>2 DEF P!Command
<1>4. P!AppInv' /\ exec' = exec
      /\ (snapShot' = snapShot \/ snapShot'.Version > snapShot.Version)
  BY <1>3, DatabaseConstants, P!StepKeepsApp, P!CommandOutcome DEF P!AppStep
<1>10. reply' \in DB!Replies
  BY <1>4 DEF P!AppInv, P!Inv, P!TypeOK, P!Replies, DB!Replies
<1>5. userIndex \in SUBSET Users /\ userGroup \in [Users -> GroupIds]
  BY DatabaseFacts
<1>6. CASE r.action \in {"user_update", "group_update", "group_move"}
  <2>1. UNCHANGED <<userIndex, userGroup>>
    BY <1>1, <1>6, DatabaseConstants, P!UpdateOutcome
  <2> QED BY <2>1, <1>4, <1>6, <1>10
<1>7. CASE r.action = "group_new"
  <2>1. /\ UNCHANGED <<userIndex, userGroup>>
        /\ reply' \in {"ok", "exists"} /\ r.group \in groupIndex'
    BY <1>1, <1>2, <1>7, DatabaseConstants, P!AddNewGroupOutcome
  <2> QED BY <2>1, <1>4, <1>7, <1>10
<1>8. CASE r.action = "user_new"
  <2>1. /\ groupIndex' = groupIndex
        /\ reply' = "ok" <=> c \notin userIndex /\ r.group \in groupIndex
        /\ reply' = "ok" => /\ userIndex' = userIndex \cup {c}
                            /\ userGroup' = [userGroup EXCEPT ![c] = r.group]
                            /\ snapShot'.Version > snapShot.Version
        /\ reply' # "ok" => UNCHANGED <<userIndex, userGroup>>
    BY <1>1, <1>2, <1>8, DatabaseConstants, P!AddNewUserOutcome
  <2> QED BY <2>1, <1>4, <1>5, <1>8, <1>10
<1>9. CASE r.action = "user_delete"
  <2>1. /\ userIndex' \subseteq userIndex /\ userIndex \ {c} \subseteq userIndex'
        /\ \A v \in Users \ {c} : userGroup'[v] = userGroup[v]
        /\ r.group \in groupIndex => c \notin userIndex'
        /\ c \in userIndex' => UNCHANGED userGroup
    BY <1>1, <1>2, <1>9, DatabaseConstants, P!DeleteUserOutcome
  <2> QED BY <2>1, <1>4, <1>5, <1>9, <1>10
<1> QED BY <1>1, <1>6, <1>7, <1>8, <1>9

(* An iteration of the sweep.                                              *)
LEMMA SweepEffect ==
  ASSUME DBInv, DB!tryRemoveTimeoutUser
  PROVE  /\ DBInv'
         /\ timeSort[1] \in userIndex
         /\ userIndex' = userIndex \ {timeSort[1]}
         /\ \A v \in Users \ {timeSort[1]} : userGroup'[v] = userGroup[v]
         /\ exec.pc = "heartbeat" /\ exec'.pc = "heartbeat"
         /\ snapShot'.Version > snapShot.Version
BY DatabaseConstants, SameSteps, P!StepKeepsApp, P!SweepOutcome
   DEF DBInv, P!AppStep, P!tryRemoveTimeoutUser

(* What does not concern users and groups.                                 *)
LEMMA QuietEffect ==
  ASSUME DBInv, DB!FinishHeartbeat \/ DB!Tick
  PROVE  /\ DBInv'
         /\ UNCHANGED <<groupIndex, userIndex, userGroup>>
         /\ snapShot' = snapShot \/ snapShot'.Version > snapShot.Version
BY DatabaseConstants, SameSteps, P!StepKeepsApp, P!QuietOutcome
   DEF DBInv, P!AppStep

(* A heartbeat of a client is taken, or the database is left alone.        *)
LEMMA IdleEffect ==
  ASSUME DBInv,
         UNCHANGED dbVars \/ \E u \in Users, g \in Groups : DB!UserHeartbeat(u, g)
  PROVE  /\ DBInv'
         /\ UNCHANGED <<groupIndex, userIndex, userGroup, snapShot>>
<1>1. CASE UNCHANGED dbVars
  <2>1. UNCHANGED P!vars
    BY <1>1 DEF dbVars, P!vars
  <2> QED BY <1>1, <2>1, DatabaseConstants, P!StepKeepsApp DEF DBInv, dbVars
<1>2. ASSUME NEW u \in Users, NEW g \in Groups, DB!UserHeartbeat(u, g)
      PROVE  P!Heartbeat /\ UNCHANGED <<groupIndex, userIndex, userGroup, snapShot>>
  BY <1>2 DEF DB!UserHeartbeat, P!Heartbeat, P!UserHeartbeat, DB!dbVars, P!dbVars,
              DB!groupVars, P!groupVars, DB!userVars, P!userVars
<1> QED BY <1>1, <1>2, DatabaseConstants, P!StepKeepsApp DEF DBInv, P!AppStep
-----------------------------------------------------------------------------
(***************************************************************************)
(* The client's requests and lists.                                        *)
(***************************************************************************)
(* The list that is published shows a group.                               *)
ShowsGroup == \E e \in snapShot.Data.subGroups : e[1] = Root

(* What a client asks for, and how to tell one request from another.       *)
LEMMA RequestFacts ==
  ASSUME TypeOK, NEW c \in Clients
  PROVE  /\ registerGroup(c) \in Request /\ registerGroup(c).action = "group_new"
         /\ registerSelf(c) \in Request /\ registerSelf(c).action = "user_new"
         /\ registerSelf(c).group = groupId[c]
         /\ updateMyself(c) \in Request /\ updateMyself(c).action = "user_update"
         /\ updateGroupInfo(c) \in Request
         /\ updateGroupInfo(c).action = "group_update"
         /\ \A to \in GroupIds : /\ mergeGroup(c, to) \in Request
                                 /\ mergeGroup(c, to).action = "group_move"
         /\ requestUserList(c) \in Request
         /\ requestUserList(c).action = "user_heartbeat"
         /\ unregisterSelf(c) \in LateRequest
         /\ unregisterSelf(c).action = "user_delete"
         /\ unregisterSelf(c).group = groupId[c]
<1>1. groupId[c] \in Groups
  BY DEF TypeOK
<1> QED BY <1>1 DEF registerGroup, registerSelf, updateMyself, updateGroupInfo,
                    mergeGroup, requestUserList, unregisterSelf, Request, LateRequest

(* No request of a client is missing an action, or removes a user.         *)
LEMMA RequestActions ==
  /\ \A r \in Request : /\ r.action \in {"group_new", "user_new", "group_update",
                              "user_heartbeat", "user_update", "group_move"}
                        /\ r # NoRequest /\ r \in LateRequest
  /\ NoRequest.action = "none"
BY DEF Request, LateRequest, NoRequest

(* What is said of no operation.                                           *)
LEMMA NoOpFacts ==
  /\ NoOp \in Op
  /\ NoOp.req = NoRequest /\ NoOp.stage = "none" /\ NoOp.reply = "none"
  /\ NoOp.got = 0 /\ ~NoOp.cancelled
BY DEF NoOp, Op, DB!Replies

(* The request of a client comes behind the others.                        *)
LEMMA Queued ==
  ASSUME TypeOK, NEW c \in Clients, NEW r \in Request, addOperation(c, r)
  PROVE  /\ queue' \in [Clients -> Seq(Request)]
         /\ Len(queue[c]) \in Nat /\ Len(queue'[c]) = Len(queue[c]) + 1
         /\ \A i \in 1..Len(queue[c]) : queue'[c][i] = queue[c][i]
         /\ queue'[c][Len(queue[c]) + 1] = r
         /\ \A d \in Clients \ {c} : queue'[d] = queue[d]
<1> DEFINE q == Append(queue[c], r)
<1>1. queue[c] \in Seq(Request) /\ queue' = [queue EXCEPT ![c] = q]
  BY DEF TypeOK, addOperation
<1>2. /\ q \in Seq(Request) /\ Len(q) = Len(queue[c]) + 1 /\ Len(queue[c]) \in Nat
      /\ \A i \in 1..Len(queue[c]) : q[i] = queue[c][i]
      /\ q[Len(queue[c]) + 1] = r
  BY <1>1, AppendProperties, LenProperties
<1> HIDE DEF q
<1> QED BY <1>1, <1>2 DEF TypeOK

(* So does a block that a callback dispatches.                             *)
LEMMA Dispatched ==
  ASSUME TypeOK, NEW c \in Clients, NEW b \in Block, dispatch(c, b)
  PROVE  /\ blocks' \in [Clients -> Seq(Block)]
         /\ Len(blocks[c]) \in Nat /\ Len(blocks'[c]) = Len(blocks[c]) + 1
         /\ \A i \in 1..Len(blocks[c]) : blocks'[c][i] = blocks[c][i]
         /\ blocks'[c][Len(blocks[c]) + 1] = b
         /\ \A d \in Clients \ {c} : blocks'[d] = blocks[d]
<1> DEFINE s == Append(blocks[c], b)
<1>1. blocks[c] \in Seq(Block) /\ blocks' = [blocks EXCEPT ![c] = s]
  BY DEF TypeOK, dispatch
<1>2. /\ s \in Seq(Block) /\ Len(s) = Len(blocks[c]) + 1 /\ Len(blocks[c]) \in Nat
      /\ \A i \in 1..Len(blocks[c]) : s[i] = blocks[c][i]
      /\ s[Len(blocks[c]) + 1] = b
  BY <1>1, AppendProperties, LenProperties
<1> HIDE DEF s
<1> QED BY <1>1, <1>2 DEF TypeOK

(* What is left when the main thread takes its first block.                *)
LEMMA BlockTaken ==
  ASSUME TypeOK, NEW c \in Clients, blocks[c] # <<>>,
         blocks' = [blocks EXCEPT ![c] = Tail(@)]
  PROVE  /\ blocks' \in [Clients -> Seq(Block)]
         /\ Head(blocks[c]) = blocks[c][1] /\ Head(blocks[c]) \in Block
         /\ Len(blocks'[c]) = Len(blocks[c]) - 1 /\ Len(blocks'[c]) \in Nat
         /\ \A i \in 1..Len(blocks'[c]) : blocks'[c][i] = blocks[c][i + 1]
         /\ \A d \in Clients \ {c} : blocks'[d] = blocks[d]
<1> DEFINE s == Tail(blocks[c])
<1>1. blocks[c] \in Seq(Block) /\ blocks' = [blocks EXCEPT ![c] = s]
  BY DEF TypeOK
<1>2. /\ s \in Seq(Block) /\ Len(s) = Len(blocks[c]) - 1 /\ Len(s) \in Nat
      /\ \A i \in 1..Len(s) : s[i] = blocks[c][i + 1]
      /\ Head(blocks[c]) = blocks[c][1] /\ Head(blocks[c]) \in Block
  BY <1>1, HeadTailProperties, LenProperties
<1> HIDE DEF s
<1> QED BY <1>1, <1>2 DEF TypeOK

(* What is left when the thread of the queue takes its first request.      *)
LEMMA RequestTaken ==
  ASSUME TypeOK, NEW c \in Clients, queue[c] # <<>>,
         queue' = [queue EXCEPT ![c] = Tail(@)]
  PROVE  /\ queue' \in [Clients -> Seq(Request)]
         /\ Head(queue[c]) = queue[c][1] /\ Head(queue[c]) \in Request
         /\ Len(queue'[c]) = Len(queue[c]) - 1 /\ Len(queue'[c]) \in Nat
         /\ \A i \in 1..Len(queue'[c]) : queue'[c][i] = queue[c][i + 1]
         /\ \A d \in Clients \ {c} : queue'[d] = queue[d]
<1> DEFINE q == Tail(queue[c])
<1>1. queue[c] \in Seq(Request) /\ queue' = [queue EXCEPT ![c] = q]
  BY DEF TypeOK
<1>2. /\ q \in Seq(Request) /\ Len(q) = Len(queue[c]) - 1 /\ Len(q) \in Nat
      /\ \A i \in 1..Len(q) : q[i] = queue[c][i + 1]
      /\ Head(queue[c]) = queue[c][1] /\ Head(queue[c]) \in Request
  BY <1>1, HeadTailProperties, LenProperties
<1> HIDE DEF q
<1> QED BY <1>1, <1>2 DEF TypeOK
-----------------------------------------------------------------------------
(***************************************************************************)
(* What the steps do to the request that a client is running.              *)
(***************************************************************************)
(* Nothing of a client but what the step is about.                         *)
Same(d) ==
  /\ mesherState'[d] = mesherState[d] /\ groupId'[d] = groupId[d]
  /\ main'[d] = main[d] /\ blocks'[d] = blocks[d] /\ queue'[d] = queue[d]
  /\ op'[d] = op[d] /\ beat'[d] = beat[d] /\ version'[d] = version[d]
  /\ liveGroups'[d] = liveGroups[d] /\ trouble[d] \subseteq trouble'[d]

OpIs(c, req, stage, cancelled, answer) ==
  /\ op' \in [Clients -> Op]
  /\ op'[c].req = req /\ op'[c].stage = stage
  /\ op'[c].cancelled = cancelled /\ op'[c].reply = answer
  /\ \A d \in Clients \ {c} : op'[d] = op[d]

(* One client's operation is replaced by another, and nobody else's.       *)
LEMMA OpChange ==
  ASSUME TypeOK, NEW c \in Clients, NEW o \in Op, op' = [op EXCEPT ![c] = o]
  PROVE  op' \in [Clients -> Op] /\ op'[c] = o /\ \A d \in Clients \ {c} : op'[d] = op[d]
BY DEF TypeOK

(* StartRequest: the first request of the queue is sent.                   *)
LEMMA OpStarted ==
  ASSUME TypeOK, NEW c \in Clients, StartRequest(c)
  PROVE  /\ OpIs(c, Head(queue[c]), "sent", FALSE, "none")
         /\ op'[c].got = 0
         /\ queue[c] # <<>> /\ queue' = [queue EXCEPT ![c] = Tail(@)]
<1> DEFINE o == [NoOp EXCEPT !.req = Head(queue[c]), !.stage = "sent"]
<1>1. queue[c] # <<>> /\ queue' = [queue EXCEPT ![c] = Tail(@)]
  BY DEF StartRequest
<1>2. Head(queue[c]) \in Request
  BY <1>1, RequestTaken
<1>3. /\ o \in Op /\ o.req = Head(queue[c]) /\ o.stage = "sent" /\ ~o.cancelled
      /\ o.reply = "none" /\ o.got = 0
  BY <1>2 DEF NoOp, Op, DB!Replies
<1>4. op' = [op EXCEPT ![c] = o]
  BY DEF StartRequest
<1> HIDE DEF o
<1> QED BY <1>1, <1>3, <1>4 DEF OpIs, TypeOK

(* An answer ends what is sent, and leaves all else of it.                 *)
LEMMA OpAnswered ==
  ASSUME TypeOK, NEW c \in Clients, NEW answer \in DB!Replies \cup {"error"},
         op' = [op EXCEPT ![c].stage = "answered", ![c].reply = answer]
  PROVE  /\ OpIs(c, op[c].req, "answered", op[c].cancelled, answer)
         /\ op'[c].got = op[c].got /\ op'[c].groups = op[c].groups
<1> DEFINE o == [op[c] EXCEPT !.stage = "answered", !.reply = answer]
<1>1. op[c] \in Op
  BY DEF TypeOK
<1>2. op' = [op EXCEPT ![c] = o]
  BY <1>1 DEF TypeOK
<1>3. /\ o \in Op /\ o.req = op[c].req /\ o.stage = "answered"
      /\ o.cancelled = op[c].cancelled /\ o.reply = answer
      /\ o.got = op[c].got /\ o.groups = op[c].groups
  BY <1>1 DEF Op
<1> HIDE DEF o
<1>4. op' \in [Clients -> Op] /\ op'[c] = o /\ \A d \in Clients \ {c} : op'[d] = op[d]
  BY <1>2, <1>3, OpChange, Zenon
<1> QED BY <1>3, <1>4, Zenon DEF OpIs

(* The executor begins a heartbeat, or ends it.                            *)
LEMMA OpMoved ==
  ASSUME TypeOK, NEW c \in Clients, NEW stage \in {"executing", "read"},
         op' = [op EXCEPT ![c].stage = stage]
  PROVE  /\ OpIs(c, op[c].req, stage, op[c].cancelled, op[c].reply)
         /\ op'[c].got = op[c].got
<1> DEFINE o == [op[c] EXCEPT !.stage = stage]
<1>1. op[c] \in Op
  BY DEF TypeOK
<1>2. op' = [op EXCEPT ![c] = o]
  BY <1>1 DEF TypeOK
<1>3. /\ o \in Op /\ o.req = op[c].req /\ o.stage = stage
      /\ o.cancelled = op[c].cancelled /\ o.reply = op[c].reply /\ o.got = op[c].got
  BY <1>1 DEF Op
<1> HIDE DEF o
<1>4. op' \in [Clients -> Op] /\ op'[c] = o /\ \A d \in Clients \ {c} : op'[d] = op[d]
  BY <1>2, <1>3, OpChange, Zenon
<1> QED BY <1>3, <1>4, Zenon DEF OpIs

(* ReadList: the answer is the snapshot of that moment.                    *)
LEMMA OpRead ==
  ASSUME TypeOK, snapShot.Version \in Nat, NEW c \in Clients, ReadList(c)
  PROVE  /\ OpIs(c, op[c].req, "answered", op[c].cancelled, "ok")
         /\ op'[c].got = snapShot.Version /\ op'[c].groups = ShowsGroup
<1> DEFINE o == [op[c] EXCEPT !.stage = "answered", !.reply = "ok",
                              !.got = snapShot.Version, !.groups = ShowsGroup]
<1>1. op[c] \in Op
  BY DEF TypeOK
<1>2. op' = [op EXCEPT ![c] = o]
  BY <1>1 DEF TypeOK, ReadList, ShowsGroup
<1>3. ShowsGroup \in BOOLEAN
  BY DEF ShowsGroup
<1>4. /\ o \in Op /\ o.req = op[c].req /\ o.stage = "answered"
      /\ o.cancelled = op[c].cancelled /\ o.reply = "ok"
      /\ o.got = snapShot.Version /\ o.groups = ShowsGroup
  BY <1>1, <1>3 DEF Op, DB!Replies
<1> HIDE DEF o
<1>5. op' \in [Clients -> Op] /\ op'[c] = o /\ \A d \in Clients \ {c} : op'[d] = op[d]
  BY <1>2, <1>4, OpChange, Zenon
<1>6. op'[c].groups = ShowsGroup
  BY <1>4, <1>5, Zenon
<1>7. OpIs(c, op[c].req, "answered", op[c].cancelled, "ok")
  BY <1>4, <1>5 DEF OpIs
<1> QED BY <1>4, <1>5, <1>6, <1>7

(* A record is not changed by a field that gets its own value.             *)
LEMMA SameField ==
  ASSUME NEW f, f = [x \in DOMAIN f |-> f[x]], NEW d \in DOMAIN f, NEW v, f[d] = v
  PROVE  [f EXCEPT ![d] = v] = f
OBVIOUS

(* No operation is not cancelled.                                          *)
LEMMA UncancelledNoOp == [NoOp EXCEPT !.cancelled = FALSE] = NoOp
<1>1. NoOp.cancelled = FALSE /\ "cancelled" \in DOMAIN NoOp
  BY DEF NoOp
<1>2. NoOp = [f \in DOMAIN NoOp |-> NoOp[f]]
  BY DEF NoOp
<1> QED BY <1>1, <1>2, SameField

(* CancelAll: what is sent stays so, and its callback will do nothing.     *)
LEMMA OpCancelled ==
  ASSUME TypeOK, NEW c \in Clients, CancelAll(c)
  PROVE  /\ OpIs(c, op[c].req, op[c].stage, op[c].cancelled \/ op[c] # NoOp, op[c].reply)
         /\ op'[c].got = op[c].got /\ op'[c].groups = op[c].groups
         /\ op[c] = NoOp => op'[c] = NoOp
<1> DEFINE o == [op[c] EXCEPT !.cancelled = op[c].cancelled \/ op[c] # NoOp]
<1>1. op[c] \in Op
  BY DEF TypeOK
<1>2. op' = [op EXCEPT ![c] = o]
  BY <1>1 DEF TypeOK, CancelAll
<1>3. /\ o \in Op /\ o.req = op[c].req /\ o.stage = op[c].stage
      /\ o.cancelled = (op[c].cancelled \/ op[c] # NoOp)
      /\ o.reply = op[c].reply /\ o.got = op[c].got /\ o.groups = op[c].groups
  BY <1>1 DEF Op
<1>9. ASSUME op[c] = NoOp PROVE o = NoOp
  <2>1. (op[c].cancelled \/ op[c] # NoOp) = FALSE
    BY <1>9, NoOpFacts
  <2>2. o = [NoOp EXCEPT !.cancelled = FALSE]
    BY <1>9, <2>1, Zenon
  <2> QED BY <2>2, UncancelledNoOp, Zenon
<1> HIDE DEF o
<1>4. op' \in [Clients -> Op] /\ op'[c] = o /\ \A d \in Clients \ {c} : op'[d] = op[d]
  BY <1>2, <1>3, OpChange, Zenon
<1>5. op'[c].cancelled = (op[c].cancelled \/ op[c] # NoOp)
  BY <1>3, <1>4, Zenon
<1> QED BY <1>3, <1>4, <1>5, <1>9, Zenon DEF OpIs
-----------------------------------------------------------------------------
(***************************************************************************)
(* A step of one client leaves the others as they are, and all types.      *)
(***************************************************************************)
OwnStep(c) ==
  \/ User(c) \/ JoinLocalGroup(c)
  \/ Main(c) \/ Queue(c) \/ Beat(c)
  \/ Server(c) \/ Network(c)

OthersSame(c) == \A d \in Clients \ {c} : Same(d)

(* What the model remembers of the peers that leave only grows.            *)
LEMMA NoticeFacts ==
  ASSUME TypeOK, NEW c, PeersNotice(c)
  PROVE  /\ trouble' \in [Clients -> SUBSET Troubles]
         /\ \A d \in Clients : trouble[d] \subseteq trouble'[d]
         /\ \A d \in Clients \ {c} :
               mesherState[d] = "Meshing" /\ groupId[d] \in groupIndex \ groupIndex'
                 => "peerLeft" \in trouble'[d]
BY DEF TypeOK, PeersNotice, Troubles

(* What goes wrong for one client is remembered, and nothing forgotten.    *)
LEMMA MeetsFacts ==
  ASSUME TypeOK, NEW c \in Clients, NEW what \in Troubles, Meets(c, what)
  PROVE  /\ trouble' \in [Clients -> SUBSET Troubles]
         /\ what \in trouble'[c]
         /\ \A d \in Clients : trouble[d] \subseteq trouble'[d]
BY DEF TypeOK, Meets

(* A request that is served is one of the client's.                        *)
LEMMA ServedRequest ==
  ASSUME TypeOK, NEW c \in Clients, ServeRequest(c)
  PROVE  /\ op[c].req \in Request /\ op[c].req \in LateRequest
         /\ op[c].req.action # "user_heartbeat"
         /\ op[c].req.action # "user_delete"
<1>1. op[c].req \in Request \cup {NoRequest}
  BY DEF TypeOK, Op
<1> QED BY <1>1, RequestActions DEF ServeRequest, Command

(* The thread of the queue.                                                *)
LEMMA QueueTypes ==
  ASSUME TypeOK, DBInv, NEW c \in Clients, Queue(c)
  PROVE  TypeOK' /\ DBInv' /\ OthersSame(c)
<1>1. CASE StartRequest(c)
  <2>1. /\ op' \in [Clients -> Op] /\ \A d \in Clients \ {c} : op'[d] = op[d]
        /\ queue[c] # <<>> /\ queue' = [queue EXCEPT ![c] = Tail(@)]
    BY <1>1, OpStarted DEF OpIs
  <2>2. /\ queue' \in [Clients -> Seq(Request)]
        /\ \A d \in Clients \ {c} : queue'[d] = queue[d]
    BY <2>1, RequestTaken
  <2>3. DBInv'
    BY <1>1, IdleEffect DEF StartRequest
  <2> QED BY <1>1, <2>1, <2>2, <2>3 DEF StartRequest, TypeOK, OthersSame, Same
<1>2. CASE requestCallback(c)
  <2> DEFINE registered == [do |-> "registerSelf"]
             meshed == [do |-> "meshed"]
             cannot == [do |-> "cannotMesh"]
             show == [do |-> "show", list |-> op[c].got]
  <2>1. registered \in Block /\ meshed \in Block /\ cannot \in Block
    BY DEF Block
  <2>2. op[c] \in Op /\ op[c].got \in Nat /\ show \in Block
    BY DEF TypeOK, Op, Block
  <2>3. /\ \/ UNCHANGED blocks \/ dispatch(c, registered) \/ dispatch(c, meshed)
           \/ dispatch(c, cannot) \/ dispatch(c, show)
        /\ UNCHANGED version \/ version' = [version EXCEPT ![c] = op[c].got]
        /\ op' = [op EXCEPT ![c] = NoOp]
    BY <1>2 DEF requestCallback, Registered, SelfRegistered, UserListArrived
  <2> HIDE DEF registered, meshed, cannot, show
  <2>4. /\ blocks' \in [Clients -> Seq(Block)]
        /\ \A d \in Clients \ {c} : blocks'[d] = blocks[d]
    <3>1. CASE UNCHANGED blocks
      BY <3>1 DEF TypeOK
    <3>2. ASSUME NEW b \in Block, dispatch(c, b)
          PROVE  /\ blocks' \in [Clients -> Seq(Block)]
                 /\ \A d \in Clients \ {c} : blocks'[d] = blocks[d]
      BY <3>2, Dispatched
    <3> QED BY <2>1, <2>2, <2>3, <3>1, <3>2
  <2>5. /\ version' \in [Clients -> Nat]
        /\ \A d \in Clients \ {c} : version'[d] = version[d]
    BY <2>2, <2>3 DEF TypeOK
  <2>6. /\ op' \in [Clients -> Op] /\ \A d \in Clients \ {c} : op'[d] = op[d]
    BY <2>3, OpChange, NoOpFacts
  <2>7. DBInv'
    BY <1>2, IdleEffect DEF requestCallback
  <2> QED BY <1>2, <2>4, <2>5, <2>6, <2>7 DEF requestCallback, TypeOK, OthersSame, Same
<1> QED BY <1>1, <1>2 DEF Queue

(* The main thread.                                                        *)
LEMMA MainTypes ==
  ASSUME TypeOK, DBInv, NEW c \in Clients, Main(c) \/ User(c) \/ JoinLocalGroup(c)
  PROVE  TypeOK' /\ DBInv' /\ OthersSame(c)
<1> USE DEF OthersSame, Same
<1>1. DBInv'
  BY IdleEffect DEF Main, User, JoinLocalGroup, RunBlock, CancelAll, goOnline,
                    goOffline, stopMesher, startMesher, Edit
<1>2. CASE RunBlock(c)
  <2>1. /\ blocks' \in [Clients -> Seq(Block)] /\ Head(blocks[c]) \in Block
        /\ \A d \in Clients \ {c} : blocks'[d] = blocks[d]
    BY <1>2, BlockTaken DEF RunBlock
  <2>2. /\ queue' \in [Clients -> Seq(Request)]
        /\ \A d \in Clients \ {c} : queue'[d] = queue[d]
    <3>1. CASE UNCHANGED queue
      BY <3>1 DEF TypeOK
    <3>2. CASE addOperation(c, registerSelf(c)) \/ addOperation(c, updateMyself(c))
      BY <3>2, RequestFacts, Queued
    <3> QED BY <1>2, <3>1, <3>2 DEF RunBlock
  <2>3. /\ beat' \in [Clients -> {"off", "idle", "executing", "read"}]
        /\ \A d \in Clients \ {c} : beat'[d] = beat[d]
    BY <1>2 DEF RunBlock, TypeOK
  <2>4. /\ mesherState' \in [Clients -> {"Unmeshed", "Meshing", "Meshed", "Unmeshing"}]
        /\ \A d \in Clients \ {c} : mesherState'[d] = mesherState[d]
    BY <1>2 DEF RunBlock, TypeOK
  <2>5. /\ liveGroups' \in [Clients -> Nat]
        /\ \A d \in Clients \ {c} : liveGroups'[d] = liveGroups[d]
    <3>1. CASE UNCHANGED liveGroups
      BY <3>1 DEF TypeOK
    <3>2. CASE /\ Head(blocks[c]).do = "show"
               /\ liveGroups' = [liveGroups EXCEPT ![c] = Head(blocks[c]).list]
      <4>1. Head(blocks[c]).list \in Nat
        BY <2>1, <3>2 DEF Block
      <4> QED BY <3>2, <4>1 DEF TypeOK
    <3> QED BY <1>2, <3>1, <3>2 DEF RunBlock
  <2> QED BY <1>1, <1>2, <2>1, <2>2, <2>3, <2>4, <2>5 DEF RunBlock, TypeOK
<1>3. CASE CancelAll(c)
  <2>1. op' \in [Clients -> Op] /\ \A d \in Clients \ {c} : op'[d] = op[d]
    BY <1>3, OpCancelled DEF OpIs
  <2>2. /\ queue' \in [Clients -> Seq(Request)]
        /\ \A d \in Clients \ {c} : queue'[d] = queue[d]
    BY <1>3 DEF CancelAll, TypeOK
  <2>3. /\ beat' \in [Clients -> {"off", "idle", "executing", "read"}]
        /\ main' \in [Clients -> {"ready", "cancel", "unregister"}]
        /\ \A d \in Clients \ {c} : beat'[d] = beat[d] /\ main'[d] = main[d]
    BY <1>3 DEF CancelAll, TypeOK
  <2> QED BY <1>1, <1>3, <2>1, <2>2, <2>3 DEF CancelAll, TypeOK
<1>4. CASE goOnline(c)
  <2>1. /\ queue' \in [Clients -> Seq(Request)]
        /\ \A d \in Clients \ {c} : queue'[d] = queue[d]
    BY <1>4, RequestFacts, Queued DEF goOnline
  <2>2. /\ mesherState' \in [Clients -> {"Unmeshed", "Meshing", "Meshed", "Unmeshing"}]
        /\ trouble' \in [Clients -> SUBSET Troubles]
        /\ \A d \in Clients \ {c} :
              mesherState'[d] = mesherState[d] /\ trouble'[d] = trouble[d]
    BY <1>4 DEF goOnline, TypeOK
  <2> QED BY <1>1, <1>4, <2>1, <2>2 DEF goOnline, TypeOK
<1>5. CASE goOffline(c) \/ startMesher(c)
  BY <1>1, <1>5 DEF goOffline, startMesher, TypeOK
<1>6. CASE stopMesher(c)
  <2>1. /\ trouble' \in [Clients -> SUBSET Troubles]
        /\ \A d \in Clients : trouble[d] \subseteq trouble'[d]
    <3>1. CASE UNCHANGED trouble
      BY <3>1 DEF TypeOK
    <3>2. CASE Meets(c, "stopped")
      BY <3>2, MeetsFacts DEF Troubles
    <3> QED BY <1>6, <3>1, <3>2 DEF stopMesher
  <2> QED BY <1>1, <1>6, <2>1 DEF stopMesher, TypeOK
<1>7. CASE Edit(c)
  <2>1. /\ queue' \in [Clients -> Seq(Request)]
        /\ \A d \in Clients \ {c} : queue'[d] = queue[d]
    BY <1>7, RequestFacts, Queued DEF Edit
  <2> QED BY <1>1, <1>7, <2>1 DEF Edit, TypeOK
<1>8. CASE JoinLocalGroup(c)
  <2>1. /\ trouble' \in [Clients -> SUBSET Troubles]
        /\ \A d \in Clients : trouble[d] \subseteq trouble'[d]
    <3>1. CASE UNCHANGED trouble
      BY <3>1 DEF TypeOK
    <3>2. CASE Meets(c, "regrouped")
      BY <3>2, MeetsFacts DEF Troubles
    <3> QED BY <1>8, <3>1, <3>2 DEF JoinLocalGroup
  <2> QED BY <1>1, <1>8, <2>1, GroupAssumption DEF JoinLocalGroup, TypeOK
<1> QED BY <1>2, <1>3, <1>4, <1>5, <1>6, <1>7, <1>8 DEF Main, User

(* The end of an unregistration.                                           *)
LEMMA StoppedTypes ==
  ASSUME TypeOK, NEW c \in Clients, Stopped(c)
  PROVE  /\ main' \in [Clients -> {"ready", "cancel", "unregister"}]
         /\ mesherState' \in [Clients -> {"Unmeshed", "Meshing", "Meshed", "Unmeshing"}]
         /\ liveGroups' \in [Clients -> Nat]
         /\ main'[c] = "ready" /\ mesherState'[c] = "Unmeshed" /\ liveGroups'[c] = 0
         /\ \A d \in Clients \ {c} : /\ main'[d] = main[d]
                                     /\ mesherState'[d] = mesherState[d]
                                     /\ liveGroups'[d] = liveGroups[d]
BY DEF TypeOK, Stopped

(* The server and the heartbeats.                                          *)
LEMMA ServerTypes ==
  ASSUME TypeOK, DBInv, NEW c \in Clients, Server(c) \/ Beat(c)
  PROVE  TypeOK' /\ DBInv' /\ OthersSame(c)
<1> USE DEF OthersSame, Same
<1>0. c \in Users /\ groupId[c] \in Groups
  BY ClientAssumption DEF TypeOK
<1>1. CASE ServeRequest(c)
  <2>1. DBInv' /\ reply' \in DB!Replies \cup {"error"}
    BY <1>0, <1>1, ServedRequest, CommandEffect DEF ServeRequest
  <2>2. op' \in [Clients -> Op] /\ \A d \in Clients \ {c} : op'[d] = op[d]
    BY <1>1, <2>1, OpAnswered DEF ServeRequest, OpIs
  <2>3. /\ trouble' \in [Clients -> SUBSET Troubles]
        /\ \A d \in Clients : trouble[d] \subseteq trouble'[d]
    BY <1>1, NoticeFacts DEF ServeRequest
  <2> QED BY <1>1, <2>1, <2>2, <2>3 DEF ServeRequest, TypeOK
<1>2. CASE ServeUnregistration(c)
  <2>1. DBInv'
    BY <1>0, <1>2, RequestFacts, CommandEffect DEF ServeUnregistration
  <2>3. /\ trouble' \in [Clients -> SUBSET Troubles]
        /\ \A d \in Clients : trouble[d] \subseteq trouble'[d]
    BY <1>2, NoticeFacts DEF ServeUnregistration
  <2> QED BY <1>2, <2>1, <2>3, StoppedTypes DEF ServeUnregistration, Stopped, TypeOK
<1>3. CASE ServeListRequest(c)
  <2>1. op[c].req \in Request /\ op[c].req.group \in Groups
    <3>1. op[c].req \in Request \cup {NoRequest}
      BY DEF TypeOK, Op
    <3>2. op[c].req \in Request
      BY <1>3, <3>1, RequestActions DEF ServeListRequest
    <3> QED BY <1>3, <3>2 DEF ServeListRequest, Request
  <2>2. DBInv'
    BY <1>0, <1>3, <2>1, IdleEffect DEF ServeListRequest
  <2>3. op' \in [Clients -> Op] /\ \A d \in Clients \ {c} : op'[d] = op[d]
    BY <1>3, OpMoved DEF ServeListRequest, OpIs
  <2> QED BY <1>3, <2>2, <2>3 DEF ServeListRequest, TypeOK
<1>4. CASE ReadList(c)
  <2>1. DBInv' /\ snapShot.Version \in Nat
    BY <1>4, IdleEffect, DatabaseFacts DEF ReadList
  <2>2. op' \in [Clients -> Op] /\ \A d \in Clients \ {c} : op'[d] = op[d]
    BY <1>4, <2>1, OpRead DEF OpIs
  <2> QED BY <1>4, <2>1, <2>2 DEF ReadList, TypeOK
<1>5. CASE SendBeat(c)
  <2>1. DBInv'
    BY <1>0, <1>5, IdleEffect DEF SendBeat
  <2> QED BY <1>5, <2>1 DEF SendBeat, TypeOK
<1>6. CASE didReceiveData(c)
  <2>1. DBInv'
    BY <1>6, IdleEffect DEF didReceiveData
  <2>2. /\ queue' \in [Clients -> Seq(Request)]
        /\ \A d \in Clients \ {c} : queue'[d] = queue[d]
    <3>1. CASE UNCHANGED queue
      BY <3>1 DEF TypeOK
    <3>2. CASE addOperation(c, requestUserList(c))
      BY <3>2, RequestFacts, Queued
    <3> QED BY <1>6, <3>1, <3>2 DEF didReceiveData
  <2> QED BY <1>6, <2>1, <2>2 DEF didReceiveData, TypeOK
<1> QED BY <1>1, <1>2, <1>3, <1>4, <1>5, <1>6 DEF Server, Beat

(* The network.                                                            *)
LEMMA NetworkTypes ==
  ASSUME TypeOK, DBInv, NEW c \in Clients, OpStage(c), Network(c)
  PROVE  TypeOK' /\ DBInv' /\ OthersSame(c)
<1> USE DEF OthersSame, Same
<1>1. DBInv'
  BY IdleEffect DEF Network, LoseRequest, TimeOutRequest, LoseUnregistration
<1>2. CASE LoseRequest(c)
  <2>1. op' \in [Clients -> Op] /\ \A d \in Clients \ {c} : op'[d] = op[d]
    BY <1>2, OpAnswered DEF LoseRequest, OpIs
  <2>2. /\ trouble' \in [Clients -> SUBSET Troubles]
        /\ \A d \in Clients : trouble[d] \subseteq trouble'[d]
    BY <1>2, MeetsFacts DEF LoseRequest, Troubles
  <2> QED BY <1>1, <1>2, <2>1, <2>2 DEF LoseRequest, TypeOK
<1>3. CASE TimeOutRequest(c)
  <2>1. op' \in [Clients -> Op] /\ \A d \in Clients \ {c} : op'[d] = op[d]
    BY <1>3, OpAnswered DEF TimeOutRequest, OpIs
  <2>2. /\ trouble' \in [Clients -> SUBSET Troubles]
        /\ \A d \in Clients : trouble[d] \subseteq trouble'[d]
    BY <1>3, MeetsFacts DEF TimeOutRequest, Troubles
  <2>3. op[c].req \in Request /\ op[c].req \in LateRequest
    <3>1. op[c].req \in Request \cup {NoRequest}
      BY DEF TypeOK, Op
    <3>2. op[c].req # NoRequest
      BY <1>3, NoOpFacts DEF TimeOutRequest, OpStage
    <3> QED BY <3>1, <3>2, RequestActions
  <2>4. late' \subseteq [user : Clients, req : LateRequest]
    BY <1>3, <2>3 DEF TimeOutRequest, TypeOK
  <2> QED BY <1>1, <1>3, <2>1, <2>2, <2>4 DEF TimeOutRequest, TypeOK
<1>4. CASE LoseUnregistration(c)
  <2>1. /\ trouble' \in [Clients -> SUBSET Troubles]
        /\ \A d \in Clients : trouble[d] \subseteq trouble'[d]
    BY <1>4, MeetsFacts DEF LoseUnregistration, Troubles
  <2>2. late' \subseteq [user : Clients, req : LateRequest]
    BY <1>4, RequestFacts DEF LoseUnregistration, TypeOK
  <2> QED BY <1>1, <1>4, <2>1, <2>2, StoppedTypes DEF LoseUnregistration, Stopped, TypeOK
<1> QED BY <1>2, <1>3, <1>4 DEF Network

(* A step of a client, together.                                           *)
LEMMA OwnTypes ==
  ASSUME TypeOK, DBInv, NEW c \in Clients, OpStage(c), OwnStep(c)
  PROVE  TypeOK' /\ DBInv' /\ OthersSame(c)
BY QueueTypes, MainTypes, ServerTypes, NetworkTypes DEF OwnStep

(* What is removed from the database by others' requests and by the sweep. *)
Removed(u) ==
  /\ \A v \in Users \ {u} : /\ v \in userIndex' <=> v \in userIndex
                            /\ userGroup'[v] = userGroup[v]
  /\ snapShot' = snapShot \/ snapShot'.Version > snapShot.Version

(* Whoever registers notices that the group it needs is gone.              *)
Noticed(d) ==
  mesherState[d] = "Meshing" /\ groupId[d] \in groupIndex \ groupIndex'
    => "peerLeft" \in trouble'[d]

(* The steps of the server that are no client's.                           *)
LEMMA PeerEffect ==
  ASSUME TypeOK, DBInv, PeerAsks
  PROVE  /\ TypeOK' /\ DBInv' /\ exec' = exec
         /\ UNCHANGED <<clientVars, serving, late>>
         /\ \A d \in Clients : Same(d) /\ Noticed(d)
         /\ \E p \in Users \ Clients : Removed(p)
<1>1. PICK p \in Users \ Clients, r \in PeerRequests :
         Command(p, r) /\ PeersNotice(p)
  BY DEF PeerAsks
<1>2. r \in LateRequest
  BY DEF PeerRequests, LateRequest, Request
<1>3. DBInv' /\ Removed(p) /\ exec' = exec
  BY <1>1, <1>2, CommandEffect DEF Removed
<1>4. /\ trouble' \in [Clients -> SUBSET Troubles]
      /\ \A d \in Clients : trouble[d] \subseteq trouble'[d] /\ Noticed(d)
  BY <1>1, NoticeFacts DEF Noticed
<1>5. UNCHANGED <<clientVars, serving, late>>
  BY DEF PeerAsks
<1>6. TypeOK' /\ \A d \in Clients : Same(d)
  BY <1>4, <1>5 DEF clientVars, Same, TypeOK
<1> QED BY <1>3, <1>4, <1>5, <1>6

(* A late request removes at most its sender, who gave it up.              *)
LEMMA LateEffect ==
  ASSUME TypeOK, DBInv, LateKnown, ServeLate
  PROVE  /\ TypeOK' /\ DBInv' /\ exec' = exec
         /\ UNCHANGED <<clientVars, serving>> /\ late' \subseteq late
         /\ \A d \in Clients : Same(d)
         /\ \E u \in Clients : /\ Removed(u) /\ "late" \in trouble[u]
                               /\ \A d \in Clients \ {u} : Noticed(d)
<1>1. PICK l \in late : /\ Command(l.user, l.req) /\ PeersNotice(l.user)
                        /\ late' = late \ {l}
                        /\ UNCHANGED <<clientVars, serving>>
  BY DEF ServeLate
<1>2. l.user \in Clients /\ l.user \in Users /\ l.req \in LateRequest
  BY ClientAssumption DEF TypeOK
<1>3. DBInv' /\ Removed(l.user) /\ exec' = exec
  BY <1>1, <1>2, CommandEffect DEF Removed
<1>4. /\ trouble' \in [Clients -> SUBSET Troubles]
      /\ \A d \in Clients : trouble[d] \subseteq trouble'[d]
      /\ \A d \in Clients \ {l.user} : Noticed(d)
  BY <1>1, NoticeFacts DEF Noticed
<1>5. "late" \in trouble[l.user]
  BY DEF LateKnown
<1>6. TypeOK' /\ \A d \in Clients : Same(d)
  BY <1>1, <1>4 DEF clientVars, Same, TypeOK
<1> QED BY <1>1, <1>2, <1>3, <1>4, <1>5, <1>6

(* An iteration of the sweep removes one user, and remembers it.           *)
LEMMA SweptEffect ==
  ASSUME TypeOK, DBInv, Sweep
  PROVE  /\ TypeOK' /\ DBInv' /\ exec.pc = "heartbeat" /\ exec'.pc = "heartbeat"
         /\ UNCHANGED <<clientVars, serving, late>>
         /\ \A d \in Clients : Same(d)
         /\ \E u \in userIndex :
              /\ Removed(u) /\ u \notin userIndex'
              /\ \A d \in Clients \ {u} : Noticed(d)
              /\ u \in Clients => "swept" \in trouble'[u]
<1> DEFINE u == timeSort[1]
<1>1. /\ DBInv' /\ u \in userIndex /\ Removed(u) /\ u \notin userIndex'
      /\ exec.pc = "heartbeat" /\ exec'.pc = "heartbeat"
  BY SweepEffect DEF Sweep, Removed
<1>2. /\ trouble' = [d \in Clients |->
             IF d = u THEN trouble[d] \cup {"swept"}
             ELSE IF /\ mesherState[d] = "Meshing"
                     /\ groupId[d] \in groupIndex \ groupIndex'
                  THEN trouble[d] \cup {"peerLeft"}
             ELSE trouble[d]]
      /\ UNCHANGED <<clientVars, serving, late>>
  BY DEF Sweep
<1> HIDE DEF u
<1>3. /\ trouble' \in [Clients -> SUBSET Troubles]
      /\ \A d \in Clients : trouble[d] \subseteq trouble'[d]
      /\ \A d \in Clients \ {u} : Noticed(d)
      /\ u \in Clients => "swept" \in trouble'[u]
  BY <1>2 DEF TypeOK, Troubles, Noticed
<1>4. TypeOK' /\ \A d \in Clients : Same(d)
  BY <1>2, <1>3 DEF clientVars, Same, TypeOK
<1> QED BY <1>1, <1>2, <1>3, <1>4

(* The end of a heartbeat, with a new list or without, goes to who waits   *)
(* for it.                                                                 *)
LEMMA FinishEffect ==
  ASSUME TypeOK, DBInv, Serving, FinishHeartbeat
  PROVE  /\ TypeOK' /\ DBInv' /\ UNCHANGED <<groupIndex, userIndex, userGroup>>
         /\ snapShot' = snapShot \/ snapShot'.Version > snapShot.Version
         /\ serving' = NoServing /\ exec'.pc = "idle"
         /\ UNCHANGED <<mesherState, groupId, main, blocks, queue, version,
                        liveGroups, late, trouble>>
         /\ \A d \in Clients :
              \/ Same(d)
              \/ /\ op[d].stage = "executing"
                 /\ OpIs(d, op[d].req, "read", op[d].cancelled, op[d].reply)
                 /\ op'[d].got = op[d].got /\ beat'[d] = beat[d]
              \/ /\ beat[d] = "executing" /\ beat'[d] = "read" /\ op'[d] = op[d]
<1> DEFINE u == serving.user
<1>1. /\ DBInv' /\ UNCHANGED <<groupIndex, userIndex, userGroup>>
      /\ snapShot' = snapShot \/ snapShot'.Version > snapShot.Version
  BY QuietEffect DEF FinishHeartbeat
<1>2. exec'.pc = "idle" /\ exec.pc = "heartbeat"
  BY DEF FinishHeartbeat, DB!FinishHeartbeat, DB!IdleExec
<1>3. u \in Clients /\ serving.by \in {"list", "beat"}
  BY <1>2 DEF Serving
<1>4. /\ serving' = NoServing
      /\ UNCHANGED <<cluster, mesherState, groupId, main, blocks, queue, version,
                     liveGroups, late, trouble>>
  BY DEF FinishHeartbeat
<1>5. CASE serving.by = "list"
  <2>1. op' = [op EXCEPT ![u].stage = "read"] /\ UNCHANGED beat
    BY <1>5 DEF FinishHeartbeat
  <2>2. op[u].stage = "executing"
    BY <1>5 DEF Serving
  <2> HIDE DEF u
  <2>3. /\ OpIs(u, op[u].req, "read", op[u].cancelled, op[u].reply)
        /\ op'[u].got = op[u].got
    BY <1>3, <2>1, OpMoved
  <2>4. op' \in [Clients -> Op] /\ \A d \in Clients \ {u} : Same(d)
    BY <1>4, <2>1, <2>3 DEF OpIs, Same
  <2>5. TypeOK'
    BY <1>4, <2>1, <2>4 DEF TypeOK
  <2> QED BY <1>1, <1>2, <1>3, <1>4, <2>1, <2>2, <2>3, <2>4, <2>5
<1>6. CASE serving.by = "beat"
  <2>1. beat' = [beat EXCEPT ![u] = "read"] /\ UNCHANGED op
    BY <1>6 DEF FinishHeartbeat
  <2>2. beat[u] = "executing"
    BY <1>6 DEF Serving
  <2> HIDE DEF u
  <2>3. /\ beat' \in [Clients -> {"off", "idle", "executing", "read"}]
        /\ beat'[u] = "read" /\ \A d \in Clients \ {u} : Same(d)
    BY <1>3, <1>4, <2>1 DEF Same, TypeOK
  <2>4. TypeOK'
    BY <1>4, <2>1, <2>3 DEF TypeOK
  <2> QED BY <1>1, <1>2, <1>3, <1>4, <2>1, <2>2, <2>3, <2>4
<1> QED BY <1>3, <1>5, <1>6

(* The clock changes nothing for the clients.                              *)
LEMMA TickEffect ==
  ASSUME TypeOK, DBInv, ClockTick
  PROVE  /\ TypeOK' /\ DBInv' /\ exec' = exec
         /\ UNCHANGED <<groupIndex, userIndex, userGroup, snapShot>>
         /\ UNCHANGED <<clientVars, serving, late, trouble>>
         /\ \A d \in Clients : Same(d)
<1>1. DBInv' /\ UNCHANGED <<groupIndex, userIndex, userGroup, snapShot, exec>>
  BY QuietEffect DEF ClockTick, DB!Tick
<1>2. UNCHANGED <<clientVars, serving, late, trouble>>
  BY DEF ClockTick
<1>3. TypeOK' /\ \A d \in Clients : Same(d)
  BY <1>2 DEF clientVars, Same, TypeOK
<1> QED BY <1>1, <1>2, <1>3
-----------------------------------------------------------------------------
(***************************************************************************)
(* Where the threads of a client and the executor are.                     *)
(***************************************************************************)
(* A running request is at the stage its step left it.                     *)
LEMMA OpStageFrom ==
  ASSUME TypeOK, NEW c \in Clients, OpStage(c), NEW stage, NEW cancelled, NEW answer,
         OpIs(c, op[c].req, stage, cancelled, answer),
         op[c] # NoOp, stage # "none",
         stage \in {"executing", "read"} => op[c].req.action = "user_heartbeat"
  PROVE  OpStage(c)'
BY NoOpFacts DEF OpStage, OpIs

(* Every step of a client keeps the order of its request's stages.         *)
LEMMA OwnStage ==
  ASSUME TypeOK, DBInv, NEW c \in Clients, OpStage(c), OwnStep(c)
  PROVE  OpStage(c)'
<1>1. CASE StartRequest(c)
  <2>1. /\ queue[c] # <<>> /\ queue' = [queue EXCEPT ![c] = Tail(@)]
        /\ op'[c].req = Head(queue[c]) /\ op'[c].stage = "sent"
    BY <1>1, OpStarted DEF OpIs
  <2>2. Head(queue[c]) # NoRequest
    BY <2>1, RequestTaken, RequestActions
  <2> QED BY <2>1, <2>2, NoOpFacts DEF OpStage
<1>2. CASE requestCallback(c)
  <2>1. op'[c] = NoOp
    BY <1>2 DEF requestCallback, TypeOK
  <2> QED BY <2>1, NoOpFacts DEF OpStage
<1>3. CASE CancelAll(c)
  <2>1. CASE op[c] = NoOp
    <3>1. op'[c] = NoOp
      BY <1>3, <2>1, OpCancelled
    <3> QED BY <3>1, NoOpFacts DEF OpStage
  <2>2. CASE op[c] # NoOp
    BY <1>3, <2>2, OpCancelled, OpStageFrom DEF OpStage
  <2> QED BY <2>1, <2>2
<1>4. CASE ServeRequest(c)
  <2>1. reply' \in DB!Replies
    BY <1>4, ServedRequest, CommandEffect, ClientAssumption DEF ServeRequest
  <2>2. op[c] # NoOp
    BY <1>4, NoOpFacts DEF ServeRequest
  <2> QED BY <1>4, <2>1, <2>2, OpAnswered, OpStageFrom DEF ServeRequest
<1>5. CASE ServeListRequest(c)
  BY <1>5, OpMoved, OpStageFrom, NoOpFacts DEF ServeListRequest
<1>6. CASE ReadList(c)
  <2>1. snapShot.Version \in Nat
    BY DatabaseFacts
  <2> QED BY <1>6, <2>1, OpRead, OpStageFrom, NoOpFacts DEF ReadList, OpStage
<1>7. CASE LoseRequest(c)
  BY <1>7, OpAnswered, OpStageFrom, NoOpFacts DEF LoseRequest, OpStage
<1>8. CASE TimeOutRequest(c)
  BY <1>8, OpAnswered, OpStageFrom, NoOpFacts DEF TimeOutRequest, OpStage
<1>9. CASE UNCHANGED op
  BY <1>9 DEF OpStage
<1> QED BY <1>1, <1>2, <1>3, <1>4, <1>5, <1>6, <1>7, <1>8, <1>9
        DEF OwnStep, User, Main, Queue, Beat, Server, Network, JoinLocalGroup,
            RunBlock, goOnline, goOffline, stopMesher, startMesher, Edit, SendBeat,
            didReceiveData, ServeUnregistration, LoseUnregistration, Stopped

(* stopRemoteClient and the state agree.                                   *)
LEMMA OwnMainState ==
  ASSUME TypeOK, NEW c \in Clients, MainState(c), OwnStep(c)
  PROVE  MainState(c)'
<1> USE DEF MainState, TypeOK
<1>1. CASE RunBlock(c)
  BY <1>1 DEF RunBlock
<1>2. CASE goOnline(c) \/ goOffline(c) \/ stopMesher(c) \/ CancelAll(c)
  BY <1>2 DEF goOnline, goOffline, stopMesher, CancelAll
<1>3. CASE ServeUnregistration(c) \/ LoseUnregistration(c)
  BY <1>3 DEF ServeUnregistration, LoseUnregistration, Stopped
<1>4. CASE UNCHANGED <<mesherState, main>>
  BY <1>4
<1> QED BY <1>1, <1>2, <1>3, <1>4
        DEF OwnStep, User, Main, Queue, Beat, Server, Network, JoinLocalGroup,
            startMesher, Edit, SendBeat, didReceiveData, StartRequest,
            requestCallback, ServeRequest, ServeListRequest, ReadList, LoseRequest,
            TimeOutRequest

(* Only a new attempt to go online clears what went wrong before, and only *)
(* what the server did.                                                    *)
LEMMA OwnTrouble ==
  ASSUME TypeOK, NEW c \in Clients, OwnStep(c)
  PROVE  /\ trouble[c] \subseteq trouble'[c] \/ goOnline(c)
         /\ trouble[c] \ {"swept", "peerLeft"} \subseteq trouble'[c]
<1>1. CASE goOnline(c)
  BY <1>1 DEF goOnline, TypeOK
<1>2. ASSUME \E what \in Troubles : Meets(c, what)
      PROVE  trouble[c] \subseteq trouble'[c]
  BY <1>2, MeetsFacts
<1>3. ASSUME PeersNotice(c) PROVE trouble[c] \subseteq trouble'[c]
  BY <1>3, NoticeFacts
<1>4. \/ goOnline(c) \/ PeersNotice(c) \/ UNCHANGED trouble
      \/ \E what \in Troubles : Meets(c, what)
  BY DEF OwnStep, User, Main, Queue, Beat, Server, Network, JoinLocalGroup,
         RunBlock, CancelAll, goOnline, goOffline, stopMesher, startMesher, Edit,
         SendBeat, didReceiveData, StartRequest, requestCallback, ServeRequest,
         ServeUnregistration, ServeListRequest, ReadList, LoseRequest,
         TimeOutRequest, LoseUnregistration, Troubles
<1> QED BY <1>1, <1>2, <1>3, <1>4

(* Only goOnline forgets something of what went wrong.                     *)
LEMMA TroubleStays ==
  ASSUME TypeOK, DBInv, NEW c \in Clients, OpStage(c), OwnStep(c)
  PROVE  \A d \in Clients : trouble[d] \ {"swept", "peerLeft"} \subseteq trouble'[d]
BY OwnTypes, OwnTrouble DEF OthersSame, Same

(* What the server still gets is remembered.                               *)
LEMMA OwnLateKnown ==
  ASSUME TypeOK, DBInv, LateKnown, NEW c \in Clients, OpStage(c), OwnStep(c)
  PROVE  LateKnown'
<1>1. \A l \in late : l.user \in Clients
  BY DEF TypeOK
<1>2. \A d \in Clients : trouble[d] \ {"swept", "peerLeft"} \subseteq trouble'[d]
  BY TroubleStays
<1>3. ASSUME NEW l \in late' \ late
      PROVE  l.user = c /\ "late" \in trouble'[c]
  <2>1. CASE TimeOutRequest(c)
    <3>1. Meets(c, "late") /\ l \in {[user |-> c, req |-> op[c].req]}
      BY <2>1 DEF TimeOutRequest
    <3>2. l.user = c
      BY <3>1
    <3> QED BY <3>1, <3>2, MeetsFacts DEF Troubles
  <2>2. CASE LoseUnregistration(c)
    <3>1. Meets(c, "late") /\ l \in {[user |-> c, req |-> unregisterSelf(c)]}
      BY <2>2 DEF LoseUnregistration
    <3>2. l.user = c
      BY <3>1
    <3> QED BY <3>1, <3>2, MeetsFacts DEF Troubles
  <2>3. late' = late \/ TimeOutRequest(c) \/ LoseUnregistration(c)
    BY DEF OwnStep, User, Main, Queue, Beat, Server, Network, JoinLocalGroup,
           RunBlock, CancelAll, goOnline, goOffline, stopMesher, startMesher, Edit,
           SendBeat, didReceiveData, StartRequest, requestCallback, ServeRequest,
           ServeUnregistration, ServeListRequest, ReadList, LoseRequest
  <2> QED BY <1>3, <2>1, <2>2, <2>3
<1> QED BY <1>1, <1>2, <1>3 DEF LateKnown

(* The heartbeat that the executor runs is still waited for.               *)
LEMMA OwnServing ==
  ASSUME TypeOK, DBInv, Serving, NEW c \in Clients, OpStage(c), OwnStep(c)
  PROVE  Serving'
<1>1. OthersSame(c)
  BY OwnTypes
<1>2. CASE ServeListRequest(c)
  <2>1. op'[c].stage = "executing"
    BY <1>2, OpMoved DEF ServeListRequest, OpIs
  <2> QED BY <1>2, <2>1 DEF ServeListRequest, Serving
<1>3. CASE SendBeat(c)
  BY <1>3 DEF SendBeat, Serving, TypeOK
<1>4. ASSUME exec' = exec, serving' = serving,
             op[c].stage = "executing" => op'[c].stage = "executing",
             beat[c] = "executing" => beat'[c] = "executing"
      PROVE  Serving'
  <2>1. \A d \in Clients : /\ op[d].stage = "executing" => op'[d].stage = "executing"
                           /\ beat[d] = "executing" => beat'[d] = "executing"
    BY <1>1, <1>4 DEF OthersSame, Same
  <2> QED BY <1>4, <2>1 DEF Serving
<1>5. CASE Queue(c)
  BY <1>4, <1>5, OpStarted, NoOpFacts DEF Queue, StartRequest, requestCallback, dbVars, OpIs
<1>6. CASE CancelAll(c)
  <2>1. op'[c].stage = op[c].stage
    BY <1>6, OpCancelled DEF OpIs
  <2> QED BY <1>4, <1>6, <2>1 DEF CancelAll, dbVars
<1>7. CASE RunBlock(c)
  BY <1>4, <1>7 DEF RunBlock, dbVars
<1>8. CASE User(c) \/ JoinLocalGroup(c)
  BY <1>4, <1>8 DEF User, JoinLocalGroup, goOnline, goOffline, stopMesher,
                    startMesher, Edit, dbVars
<1>9. CASE ServeRequest(c)
  <2>1. exec' = exec /\ op[c].stage = "sent"
    BY <1>9, ServedRequest, CommandEffect, ClientAssumption DEF ServeRequest
  <2> QED BY <1>4, <1>9, <2>1 DEF ServeRequest
<1>10. CASE ServeUnregistration(c)
  <2>1. exec' = exec
    BY <1>10, RequestFacts, CommandEffect, ClientAssumption DEF ServeUnregistration
  <2> QED BY <1>4, <1>10, <2>1 DEF ServeUnregistration, Stopped
<1>11. CASE ReadList(c) \/ didReceiveData(c)
  BY <1>4, <1>11 DEF ReadList, didReceiveData, dbVars
<1>12. CASE Network(c)
  BY <1>4, <1>12 DEF Network, LoseRequest, TimeOutRequest, LoseUnregistration,
                     Stopped, dbVars
<1> QED BY <1>2, <1>3, <1>5, <1>6, <1>7, <1>8, <1>9, <1>10, <1>11, <1>12
        DEF OwnStep, Main, Server, Beat
-----------------------------------------------------------------------------
(***************************************************************************)
(* A registration is one thing at a time.                                  *)
(***************************************************************************)
Registers == {"group_new", "user_new"}
Continues == {"registerSelf", "meshed", "cannotMesh"}

NoneWaits(c) == \A i \in 1..Len(queue[c]) : queue[c][i].action \notin Registers
NoneRuns(c) == op[c].req.action \notin Registers
NoneGoesOn(c) == \A i \in 1..Len(blocks[c]) : blocks[c][i].do \notin Continues

NoRegistration(c) == NoneWaits(c) /\ NoneRuns(c) /\ NoneGoesOn(c)

OneWaits(c) ==
  \A i, j \in 1..Len(queue[c]) :
     queue[c][i].action \in Registers /\ queue[c][j].action \in Registers => i = j
OneGoesOn(c) ==
  \A i, j \in 1..Len(blocks[c]) :
     blocks[c][i].do \in Continues /\ blocks[c][j].do \in Continues => i = j

OneRegistration(c) ==
  /\ NoneWaits(c) \/ NoneRuns(c)
  /\ NoneWaits(c) \/ NoneGoesOn(c)
  /\ NoneRuns(c) \/ NoneGoesOn(c)
  /\ OneWaits(c)
  /\ OneGoesOn(c)

Orderly(c) ==
  "stopped" \notin trouble[c] =>
     /\ OneRegistration(c)
     /\ mesherState[c] # "Meshing" => NoRegistration(c)

(* A request that is added counts for what it is.                          *)
LEMMA QueuedRegistration ==
  ASSUME TypeOK, NEW c \in Clients, NEW r \in Request, addOperation(c, r)
  PROVE  /\ NoneWaits(c)' <=> NoneWaits(c) /\ r.action \notin Registers
         /\ r.action \notin Registers /\ OneWaits(c) => OneWaits(c)'
         /\ NoneWaits(c) => OneWaits(c)'
<1> DEFINE n == Len(queue[c])
           Has(i) == queue'[c][i].action \in Registers
<1>1. /\ n \in Nat /\ Len(queue'[c]) = n + 1
      /\ \A i \in 1..n : queue'[c][i] = queue[c][i]
      /\ Has(n + 1) <=> r.action \in Registers
  BY Queued
<1>2. NoneWaits(c) <=> \A i \in 1..n : ~Has(i)
  BY <1>1 DEF NoneWaits
<1>3. OneWaits(c) <=> \A i, j \in 1..n : Has(i) /\ Has(j) => i = j
  BY <1>1 DEF OneWaits
<1>4. NoneWaits(c)' <=> \A i \in 1..(n + 1) : ~Has(i)
  BY <1>1 DEF NoneWaits
<1>5. OneWaits(c)' <=> \A i, j \in 1..(n + 1) : Has(i) /\ Has(j) => i = j
  BY <1>1 DEF OneWaits
<1> HIDE DEF n, Has
<1>6. 1..(n + 1) = (1..n) \cup {n + 1} /\ n + 1 \notin 1..n
  BY <1>1
<1> QED BY <1>1, <1>2, <1>3, <1>4, <1>5, <1>6

(* So does a block.                                                        *)
LEMMA DispatchedRegistration ==
  ASSUME TypeOK, NEW c \in Clients, NEW b \in Block, dispatch(c, b)
  PROVE  /\ NoneGoesOn(c)' <=> NoneGoesOn(c) /\ b.do \notin Continues
         /\ b.do \notin Continues /\ OneGoesOn(c) => OneGoesOn(c)'
         /\ NoneGoesOn(c) => OneGoesOn(c)'
<1> DEFINE n == Len(blocks[c])
           Has(i) == blocks'[c][i].do \in Continues
<1>1. /\ n \in Nat /\ Len(blocks'[c]) = n + 1
      /\ \A i \in 1..n : blocks'[c][i] = blocks[c][i]
      /\ Has(n + 1) <=> b.do \in Continues
  BY Dispatched
<1>2. NoneGoesOn(c) <=> \A i \in 1..n : ~Has(i)
  BY <1>1 DEF NoneGoesOn
<1>3. OneGoesOn(c) <=> \A i, j \in 1..n : Has(i) /\ Has(j) => i = j
  BY <1>1 DEF OneGoesOn
<1>4. NoneGoesOn(c)' <=> \A i \in 1..(n + 1) : ~Has(i)
  BY <1>1 DEF NoneGoesOn
<1>5. OneGoesOn(c)' <=> \A i, j \in 1..(n + 1) : Has(i) /\ Has(j) => i = j
  BY <1>1 DEF OneGoesOn
<1> HIDE DEF n, Has
<1>6. 1..(n + 1) = (1..n) \cup {n + 1} /\ n + 1 \notin 1..n
  BY <1>1
<1> QED BY <1>1, <1>2, <1>3, <1>4, <1>5, <1>6

(* The request that is taken may be the only one that registers.           *)
LEMMA TakenRequest ==
  ASSUME TypeOK, NEW c \in Clients, OneWaits(c), queue[c] # <<>>,
         queue' = [queue EXCEPT ![c] = Tail(@)]
  PROVE  /\ NoneWaits(c) => NoneWaits(c)' /\ Head(queue[c]).action \notin Registers
         /\ Head(queue[c]).action \in Registers => NoneWaits(c)' /\ ~NoneWaits(c)
         /\ OneWaits(c)'
<1> DEFINE n == Len(queue'[c])
<1>1. /\ n \in Nat /\ Len(queue[c]) = n + 1
      /\ \A i \in 1..n : queue'[c][i] = queue[c][i + 1]
      /\ Head(queue[c]) = queue[c][1]
  <2> HIDE DEF n
  <2>1. /\ Len(queue'[c]) = Len(queue[c]) - 1 /\ Len(queue'[c]) \in Nat
        /\ \A i \in 1..Len(queue'[c]) : queue'[c][i] = queue[c][i + 1]
        /\ Head(queue[c]) = queue[c][1]
    BY RequestTaken, Zenon
  <2>2. Len(queue[c]) \in Nat
    BY LenProperties DEF TypeOK
  <2> QED BY <2>1, <2>2 DEF n
<1> HIDE DEF n
<1>2. 1 \in 1..(n + 1) /\ \A i \in 1..n : i + 1 \in 1..(n + 1) /\ i + 1 # 1
  BY <1>1
<1>3. \A i, j \in 1..n : i + 1 = j + 1 => i = j
  BY <1>1
<1>4. \A i, j \in 1..(n + 1) :
        queue[c][i].action \in Registers /\ queue[c][j].action \in Registers => i = j
  BY <1>1 DEF OneWaits
<1>5. /\ NoneWaits(c) <=> \A i \in 1..(n + 1) : queue[c][i].action \notin Registers
      /\ NoneWaits(c)' <=> \A i \in 1..n : queue[c][i + 1].action \notin Registers
  BY <1>1 DEF NoneWaits, n
<1>6. OneWaits(c)'
  BY <1>1, <1>2, <1>3, <1>4 DEF OneWaits, n
<1>7. NoneWaits(c) => NoneWaits(c)' /\ Head(queue[c]).action \notin Registers
  BY <1>1, <1>2, <1>5
<1>8. ASSUME Head(queue[c]).action \in Registers PROVE NoneWaits(c)' /\ ~NoneWaits(c)
  <2>1. \A i \in 1..n : queue[c][i + 1].action \notin Registers
    BY <1>1, <1>2, <1>4, <1>8
  <2> QED BY <1>1, <1>2, <1>5, <1>8, <2>1
<1> QED BY <1>6, <1>7, <1>8

(* So may the block.                                                       *)
LEMMA TakenBlock ==
  ASSUME TypeOK, NEW c \in Clients, OneGoesOn(c), blocks[c] # <<>>,
         blocks' = [blocks EXCEPT ![c] = Tail(@)]
  PROVE  /\ NoneGoesOn(c) => NoneGoesOn(c)' /\ Head(blocks[c]).do \notin Continues
         /\ Head(blocks[c]).do \in Continues => NoneGoesOn(c)' /\ ~NoneGoesOn(c)
         /\ OneGoesOn(c)'
<1> DEFINE n == Len(blocks'[c])
<1>1. /\ n \in Nat /\ Len(blocks[c]) = n + 1
      /\ \A i \in 1..n : blocks'[c][i] = blocks[c][i + 1]
      /\ Head(blocks[c]) = blocks[c][1]
  <2> HIDE DEF n
  <2>1. /\ Len(blocks'[c]) = Len(blocks[c]) - 1 /\ Len(blocks'[c]) \in Nat
        /\ \A i \in 1..Len(blocks'[c]) : blocks'[c][i] = blocks[c][i + 1]
        /\ Head(blocks[c]) = blocks[c][1]
    BY BlockTaken, Zenon
  <2>2. Len(blocks[c]) \in Nat
    BY LenProperties DEF TypeOK
  <2> QED BY <2>1, <2>2 DEF n
<1> HIDE DEF n
<1>2. 1 \in 1..(n + 1) /\ \A i \in 1..n : i + 1 \in 1..(n + 1) /\ i + 1 # 1
  BY <1>1
<1>3. \A i, j \in 1..n : i + 1 = j + 1 => i = j
  BY <1>1
<1>4. \A i, j \in 1..(n + 1) :
        blocks[c][i].do \in Continues /\ blocks[c][j].do \in Continues => i = j
  BY <1>1 DEF OneGoesOn
<1>5. /\ NoneGoesOn(c) <=> \A i \in 1..(n + 1) : blocks[c][i].do \notin Continues
      /\ NoneGoesOn(c)' <=> \A i \in 1..n : blocks[c][i + 1].do \notin Continues
  BY <1>1 DEF NoneGoesOn, n
<1>6. OneGoesOn(c)'
  BY <1>1, <1>2, <1>3, <1>4 DEF OneGoesOn, n
<1>7. NoneGoesOn(c) => NoneGoesOn(c)' /\ Head(blocks[c]).do \notin Continues
  BY <1>1, <1>2, <1>5
<1>8. ASSUME Head(blocks[c]).do \in Continues PROVE NoneGoesOn(c)' /\ ~NoneGoesOn(c)
  <2>1. \A i \in 1..n : blocks[c][i + 1].do \notin Continues
    BY <1>1, <1>2, <1>4, <1>8
  <2> QED BY <1>1, <1>2, <1>5, <1>8, <2>1
<1> QED BY <1>6, <1>7, <1>8

(* What the callback of a request hands to the main thread.                *)
LEMMA CallbackOutcome ==
  ASSUME TypeOK, NEW c \in Clients, requestCallback(c)
  PROVE  /\ op[c].stage = "answered" /\ op'[c] = NoOp
         /\ \A d \in Clients \ {c} : op'[d] = op[d]
         /\ \/ UNCHANGED blocks
            \/ \E b \in Block :
                 /\ dispatch(c, b) /\ ~op[c].cancelled /\ op[c].reply # "error"
                 /\ b.do = "registerSelf" => op[c].req.action = "group_new"
                 /\ b.do = "meshed" => op[c].req.action = "user_new" /\ op[c].reply = "ok"
                 /\ b.do = "cannotMesh" => op[c].req.action = "user_new" /\ op[c].reply # "ok"
                 /\ b.do = "show" => /\ op[c].req.action = "user_heartbeat"
                                     /\ b.list = op[c].got /\ op[c].groups
<1>1. op[c].stage = "answered" /\ op' = [op EXCEPT ![c] = NoOp]
  BY DEF requestCallback
<1>2. op[c].got \in Nat /\ [do |-> "show", list |-> op[c].got] \in Block
  BY DEF TypeOK, Op, Block
<1>3. /\ [do |-> "registerSelf"] \in Block /\ [do |-> "meshed"] \in Block
      /\ [do |-> "cannotMesh"] \in Block
  BY DEF Block
<1>4. \/ UNCHANGED blocks
      \/ /\ ~op[c].cancelled /\ op[c].req.action = "group_new" /\ op[c].reply # "error"
         /\ dispatch(c, [do |-> "registerSelf"])
      \/ /\ ~op[c].cancelled /\ op[c].req.action = "user_new" /\ op[c].reply = "ok"
         /\ dispatch(c, [do |-> "meshed"])
      \/ /\ ~op[c].cancelled /\ op[c].req.action = "user_new"
         /\ op[c].reply \notin {"error", "ok"}
         /\ dispatch(c, [do |-> "cannotMesh"])
      \/ /\ ~op[c].cancelled /\ op[c].req.action = "user_heartbeat"
         /\ op[c].reply # "error" /\ op[c].groups
         /\ dispatch(c, [do |-> "show", list |-> op[c].got])
  BY DEF requestCallback, Registered, SelfRegistered, UserListArrived
<1>5. op'[c] = NoOp /\ \A d \in Clients \ {c} : op'[d] = op[d]
  BY <1>1, OpChange, NoOpFacts
<1> QED BY <1>1, <1>2, <1>3, <1>4, <1>5

(* The order stays where nothing of the registration is touched.           *)
LEMMA OrderKept ==
  ASSUME NEW c \in Clients, Orderly(c),
         queue'[c] = queue[c], blocks'[c] = blocks[c], op'[c].req = op[c].req,
         "stopped" \in trouble[c] => "stopped" \in trouble'[c],
         mesherState[c] = "Meshing" =>
            mesherState'[c] = "Meshing" \/ "stopped" \in trouble'[c]
  PROVE  Orderly(c)'
<1>1. /\ NoneWaits(c)' <=> NoneWaits(c)
      /\ NoneRuns(c)' <=> NoneRuns(c)
      /\ NoneGoesOn(c)' <=> NoneGoesOn(c)
      /\ OneWaits(c)' <=> OneWaits(c)
      /\ OneGoesOn(c)' <=> OneGoesOn(c)
  BY DEF NoneWaits, NoneRuns, NoneGoesOn, OneWaits, OneGoesOn
<1> QED BY <1>1 DEF Orderly, OneRegistration, NoRegistration

(* The order of the registration in a step of the client.                  *)
LEMMA OwnOrder ==
  ASSUME TypeOK, DBInv, NEW c \in Clients, OpStage(c), MainState(c), Orderly(c),
         OwnStep(c)
  PROVE  Orderly(c)'
<1> USE DEF Orderly, OneRegistration, NoRegistration
<1>1. /\ TypeOK'
      /\ "stopped" \in trouble[c] => "stopped" \in trouble'[c]
  BY OwnTypes, TroubleStays
<1>2. CASE StartRequest(c)
  <2>0. op'[c].req = Head(queue[c])
    BY <1>2, OpStarted DEF OpIs
  <2>1. /\ op[c] = NoOp /\ queue[c] # <<>> /\ queue' = [queue EXCEPT ![c] = Tail(@)]
        /\ op'[c].req = Head(queue[c])
        /\ UNCHANGED <<blocks, mesherState, trouble>>
    BY <1>2, <2>0 DEF StartRequest
  <2>2. /\ NoneRuns(c)' <=> Head(queue[c]).action \notin Registers
        /\ NoneGoesOn(c)' <=> NoneGoesOn(c)
        /\ OneGoesOn(c)' <=> OneGoesOn(c)
    BY <2>1 DEF NoneRuns, NoneGoesOn, OneGoesOn
  <2>3. OneWaits(c) => /\ NoneWaits(c) => NoneWaits(c)' /\ Head(queue[c]).action \notin Registers
                       /\ Head(queue[c]).action \in Registers => NoneWaits(c)' /\ ~NoneWaits(c)
                       /\ OneWaits(c)'
    BY <2>1, TakenRequest
  <2> QED BY <2>1, <2>2, <2>3
<1>3. CASE requestCallback(c)
  <2>1. op'[c] = NoOp /\ UNCHANGED <<queue, mesherState, trouble>>
    BY <1>3, CallbackOutcome DEF requestCallback
  <2>2. /\ NoneRuns(c)'
        /\ NoneWaits(c)' <=> NoneWaits(c)
        /\ OneWaits(c)' <=> OneWaits(c)
    BY <2>1, NoOpFacts, RequestActions DEF NoneRuns, NoneWaits, OneWaits, Registers
  <2>3. CASE UNCHANGED blocks
    <3>1. (NoneGoesOn(c)' <=> NoneGoesOn(c)) /\ (OneGoesOn(c)' <=> OneGoesOn(c))
      BY <2>3 DEF NoneGoesOn, OneGoesOn
    <3> QED BY <2>1, <2>2, <3>1
  <2>4. ASSUME NEW b \in Block, dispatch(c, b),
               b.do \in Continues => op[c].req.action \in Registers
        PROVE  Orderly(c)'
    <3>1. /\ NoneGoesOn(c)' <=> NoneGoesOn(c) /\ b.do \notin Continues
          /\ b.do \notin Continues /\ OneGoesOn(c) => OneGoesOn(c)'
          /\ NoneGoesOn(c) => OneGoesOn(c)'
      BY <2>4, DispatchedRegistration
    <3>2. b.do \in Continues => ~NoneRuns(c)
      BY <2>4 DEF NoneRuns
    <3> QED BY <2>1, <2>2, <3>1, <3>2
  <2> QED BY <1>3, <2>3, <2>4, CallbackOutcome DEF Registers, Continues
<1>4. CASE CancelAll(c)
  <2>1. /\ op'[c].req = op[c].req /\ queue'[c] = <<>>
        /\ UNCHANGED <<blocks, mesherState, trouble>>
    BY <1>4, OpCancelled DEF CancelAll, OpIs, TypeOK
  <2>2. /\ NoneRuns(c)' <=> NoneRuns(c)
        /\ NoneGoesOn(c)' <=> NoneGoesOn(c)
        /\ OneGoesOn(c)' <=> OneGoesOn(c)
        /\ NoneWaits(c)' /\ OneWaits(c)'
    BY <2>1 DEF NoneRuns, NoneGoesOn, OneGoesOn, NoneWaits, OneWaits
  <2> QED BY <2>1, <2>2
<1>5. CASE RunBlock(c)
  <2> DEFINE b == Head(blocks[c])
  <2>1. /\ blocks[c] # <<>> /\ blocks' = [blocks EXCEPT ![c] = Tail(@)]
        /\ UNCHANGED <<op, trouble>> /\ mesherState[c] # "Unmeshing"
        /\ \/ b.do = "registerSelf" /\ addOperation(c, registerSelf(c))
              /\ UNCHANGED mesherState
           \/ b.do = "meshed" /\ addOperation(c, updateMyself(c))
              /\ mesherState'[c] = "Meshed"
           \/ /\ b.do = "cannotMesh"
              /\ UNCHANGED queue \/ addOperation(c, updateMyself(c))
              /\ UNCHANGED mesherState
           \/ b.do = "show" /\ UNCHANGED <<queue, mesherState>>
    BY <1>5 DEF RunBlock, TypeOK, MainState
  <2>2. OneGoesOn(c) => /\ NoneGoesOn(c) => NoneGoesOn(c)' /\ b.do \notin Continues
                        /\ b.do \in Continues => NoneGoesOn(c)' /\ ~NoneGoesOn(c)
                        /\ OneGoesOn(c)'
    BY <2>1, TakenBlock
  <2> HIDE DEF b
  <2>3. NoneRuns(c)' <=> NoneRuns(c)
    BY <2>1 DEF NoneRuns
  <2>4. ASSUME UNCHANGED queue
        PROVE  (NoneWaits(c)' <=> NoneWaits(c)) /\ (OneWaits(c)' <=> OneWaits(c))
    BY <2>4 DEF NoneWaits, OneWaits
  <2>5. ASSUME addOperation(c, updateMyself(c))
        PROVE  (NoneWaits(c)' <=> NoneWaits(c)) /\ (OneWaits(c) => OneWaits(c)')
    <3>1. updateMyself(c) \in Request /\ updateMyself(c).action \notin Registers
      BY RequestFacts DEF Registers
    <3> QED BY <2>5, <3>1, QueuedRegistration
  <2>6. ASSUME addOperation(c, registerSelf(c))
        PROVE  NoneWaits(c) => OneWaits(c)'
    BY <2>6, RequestFacts, QueuedRegistration
  <2>7. CASE b.do = "show"
    BY <2>1, <2>2, <2>3, <2>4, <2>7
  <2>8. CASE b.do = "cannotMesh"
    BY <2>1, <2>2, <2>3, <2>4, <2>5, <2>8 DEF Continues
  <2>9. CASE b.do = "meshed"
    BY <2>1, <2>2, <2>3, <2>4, <2>5, <2>9 DEF Continues
  <2>10. CASE b.do = "registerSelf"
    BY <2>1, <2>2, <2>3, <2>6, <2>10 DEF Continues
  <2> QED BY <2>1, <2>7, <2>8, <2>9, <2>10
<1>6. CASE goOnline(c)
  <2>1. /\ mesherState[c] = "Unmeshed" /\ mesherState'[c] = "Meshing"
        /\ addOperation(c, registerGroup(c)) /\ UNCHANGED <<op, blocks>>
        /\ "stopped" \in trouble'[c] <=> "stopped" \in trouble[c]
    BY <1>6 DEF goOnline, TypeOK
  <2>2. NoneWaits(c) => OneWaits(c)'
    BY <2>1, RequestFacts, QueuedRegistration
  <2>3. /\ NoneRuns(c)' <=> NoneRuns(c)
        /\ NoneGoesOn(c)' <=> NoneGoesOn(c)
        /\ OneGoesOn(c)' <=> OneGoesOn(c)
    BY <2>1 DEF NoneRuns, NoneGoesOn, OneGoesOn
  <2> QED BY <2>1, <2>2, <2>3
<1>7. ASSUME NEW r \in Request, r.action \notin Registers, addOperation(c, r),
             UNCHANGED <<op, blocks, mesherState, trouble>>
      PROVE  Orderly(c)'
  <2>1. (NoneWaits(c)' <=> NoneWaits(c)) /\ (OneWaits(c) => OneWaits(c)')
    BY <1>7, QueuedRegistration
  <2>2. /\ NoneRuns(c)' <=> NoneRuns(c)
        /\ NoneGoesOn(c)' <=> NoneGoesOn(c)
        /\ OneGoesOn(c)' <=> OneGoesOn(c)
    BY <1>7 DEF NoneRuns, NoneGoesOn, OneGoesOn
  <2> QED BY <1>7, <2>1, <2>2
<1>8. CASE Edit(c)
  BY <1>7, <1>8, RequestFacts DEF Edit, Registers
<1>9. CASE didReceiveData(c)
  BY <1>7, <1>9, OrderKept, RequestFacts DEF didReceiveData, Registers
<1> HIDE DEF Orderly
<1>10. CASE stopMesher(c)
  <2>1. /\ UNCHANGED <<queue, blocks, op>>
        /\ mesherState[c] = "Meshing" => "stopped" \in trouble'[c]
    BY <1>10, MeetsFacts DEF stopMesher, Troubles
  <2> QED BY <1>1, <2>1, OrderKept
<1>11. CASE goOffline(c) \/ startMesher(c) \/ JoinLocalGroup(c) \/ SendBeat(c)
  BY <1>1, <1>11, OrderKept
     DEF goOffline, startMesher, JoinLocalGroup, SendBeat, TypeOK
<1>12. CASE ServeUnregistration(c) \/ LoseUnregistration(c)
  <2>1. mesherState[c] # "Meshing" /\ UNCHANGED <<queue, blocks, op>>
    BY <1>12 DEF ServeUnregistration, LoseUnregistration, Stopped, MainState
  <2> QED BY <1>1, <2>1, OrderKept
<1>13. ASSUME op'[c].req = op[c].req, UNCHANGED <<queue, blocks, mesherState>>
       PROVE  Orderly(c)'
  BY <1>1, <1>13, OrderKept
<1>14. CASE ServeRequest(c)
  <2>1. reply' \in DB!Replies
    BY <1>14, ServedRequest, CommandEffect, ClientAssumption DEF ServeRequest
  <2> QED BY <1>13, <1>14, <2>1, OpAnswered DEF ServeRequest, OpIs
<1>15. CASE ServeListRequest(c)
  BY <1>13, <1>15, OpMoved DEF ServeListRequest, OpIs
<1>16. CASE ReadList(c)
  <2>1. op'[c].req = op[c].req
    BY <1>16, OpRead, DatabaseFacts DEF OpIs
  <2>2. UNCHANGED <<queue, blocks, mesherState>>
    BY <1>16 DEF ReadList
  <2> QED BY <1>13, <2>1, <2>2
<1>17. CASE LoseRequest(c)
  BY <1>13, <1>17, OpAnswered DEF LoseRequest, OpIs
<1>18. CASE TimeOutRequest(c)
  BY <1>13, <1>18, OpAnswered DEF TimeOutRequest, OpIs
<1> QED BY <1>2, <1>3, <1>4, <1>5, <1>6, <1>8, <1>9, <1>10, <1>11, <1>12, <1>14,
           <1>15, <1>16, <1>17, <1>18
        DEF OwnStep, User, Main, Queue, Beat, Server, Network

(***************************************************************************)
(* The invariant of the clients and its steps.                             *)
(***************************************************************************)
Regular(c) == OpStage(c) /\ MainState(c) /\ Orderly(c)

ClientInv ==
  /\ TypeOK /\ DBInv /\ Serving /\ LateKnown
  /\ \A c \in Clients : Regular(c)

(* Every step is one of a client, or one of the server that is not.        *)
LEMMA StepCases ==
  ASSUME [Next]_vars
  PROVE  \/ \E c \in Clients : OwnStep(c)
         \/ PeerAsks \/ ServeLate \/ Sweep \/ FinishHeartbeat \/ ClockTick
         \/ UNCHANGED vars
BY DEF Next, OwnStep

(* A client that a step leaves as it is stays regular.                     *)
LEMMA RegularKept ==
  ASSUME NEW d \in Clients, Regular(d), Same(d)
  PROVE  Regular(d)'
<1>1. OpStage(d)' /\ MainState(d)'
  BY DEF Regular, Same, OpStage, MainState
<1>2. Orderly(d)'
  BY OrderKept DEF Regular, Same
<1> QED BY <1>1, <1>2 DEF Regular

(* The end of a heartbeat leaves every client regular.                     *)
LEMMA FinishKeepsRegular ==
  ASSUME ClientInv, FinishHeartbeat, NEW d \in Clients
  PROVE  Regular(d)'
<1>1. /\ Regular(d) /\ TypeOK
      /\ UNCHANGED <<mesherState, groupId, main, blocks, queue, trouble>>
      /\ \/ Same(d)
         \/ op[d].stage = "executing" /\ OpIs(d, op[d].req, "read", op[d].cancelled, op[d].reply)
         \/ op'[d] = op[d]
  BY FinishEffect DEF ClientInv
<1>2. CASE Same(d)
  BY <1>1, <1>2, RegularKept
<1>3. CASE op'[d] = op[d]
  <2>1. OpStage(d)' /\ MainState(d)'
    BY <1>1, <1>3 DEF Regular, OpStage, MainState
  <2> QED BY <1>1, <1>3, <2>1, OrderKept DEF Regular
<1>4. CASE op[d].stage = "executing" /\ OpIs(d, op[d].req, "read", op[d].cancelled, op[d].reply)
  <2>1. OpStage(d)'
    BY <1>1, <1>4, OpStageFrom, NoOpFacts DEF Regular, OpStage
  <2>2. MainState(d)' /\ op'[d].req = op[d].req
    BY <1>1, <1>4 DEF Regular, MainState, OpIs
  <2> QED BY <1>1, <2>1, <2>2, OrderKept DEF Regular
<1> QED BY <1>1, <1>2, <1>3, <1>4

(* The clients start regular.                                              *)
LEMMA ClientInit == Init => ClientInv
<1> SUFFICES ASSUME Init PROVE ClientInv
  OBVIOUS
<1>1. DBInv
  BY DatabaseInit DEF Init
<1>2. TypeOK
  BY NoOpFacts, GroupAssumption DEF Init, TypeOK
<1>3. Serving /\ LateKnown
  BY DEF Init, Serving, LateKnown, NoServing, DB!Init, DB!IdleExec
<1>4. ASSUME NEW c \in Clients PROVE Regular(c)
  <2>1. /\ op[c] = NoOp /\ main[c] = "ready" /\ mesherState[c] = "Unmeshed"
        /\ queue[c] = <<>> /\ blocks[c] = <<>>
    BY DEF Init
  <2>2. NoneWaits(c) /\ NoneGoesOn(c) /\ OneWaits(c) /\ OneGoesOn(c)
    BY <2>1 DEF NoneWaits, NoneGoesOn, OneWaits, OneGoesOn
  <2>3. NoneRuns(c)
    BY <2>1, NoOpFacts, RequestActions DEF NoneRuns, Registers
  <2> QED BY <2>1, <2>2, <2>3, NoOpFacts
          DEF Regular, OpStage, MainState, Orderly, OneRegistration, NoRegistration
<1> QED BY <1>1, <1>2, <1>3, <1>4 DEF ClientInv

(* Every step keeps the clients regular.                                   *)
LEMMA ClientStep == ClientInv /\ [Next]_vars => ClientInv'
<1> SUFFICES ASSUME ClientInv, [Next]_vars PROVE ClientInv'
  OBVIOUS
<1>0. TypeOK /\ DBInv /\ Serving /\ LateKnown /\ \A d \in Clients : Regular(d)
  BY DEF ClientInv
<1>1. ASSUME NEW c \in Clients, OwnStep(c) PROVE ClientInv'
  <2>1. OpStage(c) /\ MainState(c) /\ Orderly(c)
    BY <1>0 DEF Regular
  <2>2. TypeOK' /\ DBInv' /\ \A d \in Clients \ {c} : Same(d)
    BY <1>0, <1>1, <2>1, OwnTypes DEF OthersSame
  <2>3. Serving' /\ LateKnown'
    BY <1>0, <1>1, <2>1, OwnServing, OwnLateKnown
  <2>4. OpStage(c)' /\ MainState(c)' /\ Orderly(c)'
    BY <1>0, <1>1, <2>1, OwnStage, OwnMainState, OwnOrder
  <2>5. ASSUME NEW d \in Clients PROVE Regular(d)'
    <3>1. CASE d = c
      BY <2>4, <3>1 DEF Regular
    <3>2. CASE d # c
      BY <1>0, <2>2, <3>2, RegularKept
    <3> QED BY <3>1, <3>2
  <2> QED BY <2>2, <2>3, <2>5 DEF ClientInv
<1>2. ASSUME TypeOK', DBInv', \A d \in Clients : Same(d),
             serving' = serving, exec'.pc = exec.pc, late' \subseteq late
      PROVE  ClientInv'
  <2>1. Serving'
    BY <1>0, <1>2 DEF Serving, Same
  <2>2. LateKnown'
    BY <1>0, <1>2 DEF LateKnown, Same, TypeOK
  <2>3. \A d \in Clients : Regular(d)'
    BY <1>0, <1>2, RegularKept
  <2> QED BY <1>2, <2>1, <2>2, <2>3 DEF ClientInv
<1>3. CASE PeerAsks
  BY <1>0, <1>2, <1>3, PeerEffect
<1>4. CASE ServeLate
  BY <1>0, <1>2, <1>4, LateEffect
<1>5. CASE Sweep
  BY <1>0, <1>2, <1>5, SweptEffect
<1>6. CASE ClockTick
  BY <1>0, <1>2, <1>6, TickEffect
<1>7. CASE FinishHeartbeat
  <2>1. TypeOK' /\ DBInv' /\ serving' = NoServing /\ exec'.pc = "idle"
        /\ UNCHANGED <<late, trouble>>
    BY <1>0, <1>7, FinishEffect
  <2>2. Serving' /\ LateKnown'
    BY <1>0, <2>1 DEF Serving, NoServing, LateKnown
  <2>3. \A d \in Clients : Regular(d)'
    BY <1>7, FinishKeepsRegular
  <2> QED BY <2>1, <2>2, <2>3 DEF ClientInv
<1>8. CASE UNCHANGED vars
  <2>1. DBInv'
    BY <1>0, <1>8, IdleEffect DEF vars
  <2>2. TypeOK' /\ \A d \in Clients : Same(d)
    BY <1>0, <1>8 DEF vars, clientVars, TypeOK, Same
  <2> QED BY <1>2, <1>8, <2>1, <2>2 DEF vars, dbVars
<1> QED BY <1>1, <1>3, <1>4, <1>5, <1>6, <1>7, <1>8, StepCases

(* The threads of a client keep the types of what they share, the database *)
(* stays sound, and a client registers one step at a time: a request that  *)
(* waits, one that is sent, or a block that goes on with it, never two.    *)
THEOREM ClientsRegular == Spec => []ClientInv
BY ClientInit, ClientStep, PTL DEF Spec

(* What stopRemoteClient cancels does not come back: with the requests     *)
(* gone and the running one cancelled, an unmeshed client has no block     *)
(* that would mesh it, unless it was stopped while it registered.          *)
THEOREM OfflineStays == Spec => StaysOffline
<1>1. ASSUME ClientInv, [Next]_vars, NEW c \in Clients,
             mesherState[c] = "Unmeshed", mesherState'[c] = "Meshed"
      PROVE  "stopped" \in trouble[c]
  <2>1. TypeOK /\ DBInv /\ Serving /\ LateKnown /\ Regular(c)
    BY <1>1 DEF ClientInv
  <2>2. PICK d \in Clients : OwnStep(d) /\ Regular(d)
    <3>1. ~Same(c) /\ ~UNCHANGED mesherState
      BY <1>1 DEF Same
    <3>2. ~PeerAsks /\ ~ServeLate /\ ~Sweep /\ ~ClockTick /\ ~FinishHeartbeat
      BY <2>1, <3>1, PeerEffect, LateEffect, SweptEffect, TickEffect, FinishEffect
    <3> QED BY <1>1, <3>1, <3>2, StepCases DEF vars, clientVars, ClientInv
  <2>3. d = c
    BY <1>1, <2>1, <2>2, OwnTypes DEF Regular, OthersSame, Same
  <2>4. /\ RunBlock(c) /\ Head(blocks[c]).do = "meshed"
    BY <1>1, <2>1, <2>2, <2>3
       DEF OwnStep, User, Main, Queue, Beat, Server, Network, JoinLocalGroup,
           RunBlock, CancelAll, goOnline, goOffline, stopMesher, startMesher, Edit,
           SendBeat, didReceiveData, StartRequest, requestCallback, ServeRequest,
           ServeUnregistration, ServeListRequest, ReadList, LoseRequest,
           TimeOutRequest, LoseUnregistration, Stopped, TypeOK
  <2>5. blocks[c] # <<>> /\ blocks' = [blocks EXCEPT ![c] = Tail(@)]
    BY <2>4 DEF RunBlock
  <2>6. OneGoesOn(c) => ~NoneGoesOn(c)
    BY <2>1, <2>4, <2>5, TakenBlock DEF Continues
  <2> QED BY <1>1, <2>1, <2>6 DEF Regular, Orderly, OneRegistration, NoRegistration
<1>2. ClientInv /\ [Next]_vars =>
        [\A c \in Clients : mesherState[c] = "Unmeshed" /\ mesherState'[c] = "Meshed"
            => "stopped" \in trouble[c]]_vars
  BY <1>1
<1> QED BY <1>2, ClientsRegular, ClientInit, ClientStep, PTL DEF Spec, StaysOffline
-----------------------------------------------------------------------------
(***************************************************************************)
(* A client that says it is registered is.                                 *)
(***************************************************************************)
Answered(c) ==
  op[c].req.action = "user_new" /\ op[c].stage = "answered" /\ op[c].reply = "ok"

HasBlock(c, what) == \E i \in 1..Len(blocks[c]) : blocks[c][i].do = what

(* The state, the answer that was not looked at yet, or the block that     *)
(* will say so.                                                            *)
Claims(c) ==
  mesherState[c] = "Meshed" \/ Answered(c) \/ HasBlock(c, "meshed")

Known(c) ==
  Claims(c) => c \in userIndex \/ trouble[c] \cap {"swept", "late", "stopped"} # {}

KnownInv == ClientInv /\ \A c \in Clients : Known(c)

(* What a step of a client does to the users: nothing to the others, and   *)
(* nothing at all but when a request is served.                            *)
LEMMA OwnIndex ==
  ASSUME TypeOK, DBInv, NEW c \in Clients, OpStage(c), OwnStep(c)
  PROVE  /\ Removed(c)
         /\ \/ ServeRequest(c) \/ ServeUnregistration(c)
            \/ UNCHANGED <<groupIndex, userIndex, userGroup, snapShot>>
<1>0. c \in Users /\ groupId[c] \in Groups
  BY ClientAssumption DEF TypeOK
<1>1. CASE ServeRequest(c)
  BY <1>0, <1>1, ServedRequest, CommandEffect DEF ServeRequest, Removed
<1>2. CASE ServeUnregistration(c)
  BY <1>0, <1>2, RequestFacts, CommandEffect DEF ServeUnregistration, Removed
<1>3. CASE UNCHANGED dbVars
  BY <1>3, IdleEffect DEF Removed
<1>4. CASE ServeListRequest(c)
  <2>1. op[c].req.group \in Groups
    <3>1. op[c].req \in Request \cup {NoRequest}
      BY DEF TypeOK, Op
    <3>2. op[c].req \in Request
      BY <1>4, <3>1, RequestActions DEF ServeListRequest
    <3> QED BY <1>4, <3>2 DEF ServeListRequest, Request
  <2> QED BY <1>0, <1>4, <2>1, IdleEffect DEF ServeListRequest, Removed
<1>5. CASE SendBeat(c)
  BY <1>0, <1>5, IdleEffect DEF SendBeat, Removed
<1> QED BY <1>1, <1>2, <1>3, <1>4, <1>5
        DEF OwnStep, User, Main, Queue, Beat, Server, Network, JoinLocalGroup,
            RunBlock, CancelAll, goOnline, goOffline, stopMesher, startMesher, Edit,
            didReceiveData, StartRequest, requestCallback, ReadList, LoseRequest,
            TimeOutRequest, LoseUnregistration

(* A block that is added is one more; one that is taken was there.         *)
LEMMA BlockFacts ==
  ASSUME TypeOK, NEW c \in Clients, NEW what
  PROVE  /\ \A b \in Block : dispatch(c, b) =>
              (HasBlock(c, what)' => b.do = what \/ HasBlock(c, what))
         /\ blocks[c] # <<>> /\ blocks' = [blocks EXCEPT ![c] = Tail(@)] =>
              /\ HasBlock(c, what)' => HasBlock(c, what)
              /\ Head(blocks[c]).do = what => HasBlock(c, what)
<1> USE DEF HasBlock
<1>1. ASSUME NEW b \in Block, dispatch(c, b),
             NEW i \in 1..Len(blocks'[c]), blocks'[c][i].do = what
      PROVE  b.do = what \/ \E j \in 1..Len(blocks[c]) : blocks[c][j].do = what
  <2>1. /\ Len(blocks[c]) \in Nat /\ Len(blocks'[c]) = Len(blocks[c]) + 1
        /\ \A j \in 1..Len(blocks[c]) : blocks'[c][j] = blocks[c][j]
        /\ blocks'[c][Len(blocks[c]) + 1] = b
    BY <1>1, Dispatched
  <2>2. i \in 1..Len(blocks[c]) \/ i = Len(blocks[c]) + 1
    BY <2>1
  <2>3. CASE i \in 1..Len(blocks[c])
    BY <1>1, <2>1, <2>3, Zenon
  <2>4. CASE i = Len(blocks[c]) + 1
    BY <1>1, <2>1, <2>4, Zenon
  <2> QED BY <2>2, <2>3, <2>4
<1>2. ASSUME blocks[c] # <<>>, blocks' = [blocks EXCEPT ![c] = Tail(@)]
      PROVE  /\ Len(blocks[c]) \in Nat \ {0} /\ Len(blocks'[c]) = Len(blocks[c]) - 1
             /\ \A i \in 1..Len(blocks'[c]) : blocks'[c][i] = blocks[c][i + 1]
             /\ Head(blocks[c]) = blocks[c][1]
  <2>1. /\ Len(blocks'[c]) = Len(blocks[c]) - 1 /\ Len(blocks'[c]) \in Nat
        /\ \A i \in 1..Len(blocks'[c]) : blocks'[c][i] = blocks[c][i + 1]
        /\ Head(blocks[c]) = blocks[c][1]
    BY <1>2, BlockTaken, Zenon
  <2>2. Len(blocks[c]) \in Nat
    BY LenProperties DEF TypeOK
  <2> QED BY <2>1, <2>2
<1>3. ASSUME blocks[c] # <<>>, blocks' = [blocks EXCEPT ![c] = Tail(@)],
             NEW i \in 1..Len(blocks'[c]), blocks'[c][i].do = what
      PROVE  \E j \in 1..Len(blocks[c]) : blocks[c][j].do = what
  <2>1. i + 1 \in 1..Len(blocks[c]) /\ blocks[c][i + 1].do = what
    BY <1>2, <1>3
  <2> QED BY <2>1
<1>4. ASSUME blocks[c] # <<>>, blocks' = [blocks EXCEPT ![c] = Tail(@)],
             Head(blocks[c]).do = what
      PROVE  \E j \in 1..Len(blocks[c]) : blocks[c][j].do = what
  <2>1. 1 \in 1..Len(blocks[c]) /\ blocks[c][1].do = what
    BY <1>2, <1>4
  <2> QED BY <2>1
<1> QED BY <1>1, <1>3, <1>4

(* Only the answer of the server makes a client claim that it is           *)
(* registered, and a new attempt finds nothing of an earlier one.          *)
LEMMA OwnClaim ==
  ASSUME TypeOK, DBInv, NEW c \in Clients, Regular(c), OwnStep(c)
  PROVE  \/ Claims(c)' => Claims(c)
         \/ /\ ServeRequest(c) /\ op[c].req.action = "user_new" /\ reply' = "ok"
<1>1. OpStage(c) /\ MainState(c) /\ Orderly(c)
  BY DEF Regular
<1> USE DEF Claims, HasBlock
<1>2. ASSUME blocks'[c] = blocks[c], mesherState'[c] = "Meshed" => Claims(c),
             Answered(c)' => Claims(c)
      PROVE  Claims(c)' => Claims(c)
  BY <1>2
<1>3. CASE StartRequest(c)
  <2>1. ~Answered(c)'
    BY <1>3, OpStarted DEF OpIs, Answered
  <2> QED BY <1>3, <2>1 DEF StartRequest
<1>4. CASE requestCallback(c)
  <2>1. ~Answered(c)' /\ UNCHANGED mesherState
    BY <1>4, CallbackOutcome, NoOpFacts DEF Answered, requestCallback
  <2>2. CASE UNCHANGED blocks
    BY <2>1, <2>2
  <2>3. ASSUME NEW b \in Block, dispatch(c, b), b.do = "meshed" => Answered(c)
        PROVE  Claims(c)' => Claims(c)
    BY <2>1, <2>3, BlockFacts
  <2> QED BY <1>4, <2>2, <2>3, CallbackOutcome DEF Answered
<1>5. CASE CancelAll(c)
  <2>1. op'[c].req = op[c].req /\ op'[c].stage = op[c].stage /\ op'[c].reply = op[c].reply
    BY <1>5, OpCancelled DEF OpIs
  <2> QED BY <1>5, <2>1 DEF CancelAll, Answered
<1>6. CASE RunBlock(c)
  <2>1. /\ blocks[c] # <<>> /\ blocks' = [blocks EXCEPT ![c] = Tail(@)] /\ UNCHANGED op
        /\ mesherState'[c] = mesherState[c] \/ Head(blocks[c]).do = "meshed"
    BY <1>6 DEF RunBlock
  <2> QED BY <2>1, BlockFacts DEF Answered
<1>7. CASE User(c) \/ JoinLocalGroup(c) \/ Beat(c)
  BY <1>7 DEF User, JoinLocalGroup, Beat, goOnline, goOffline, stopMesher,
              startMesher, Edit, SendBeat, didReceiveData, Answered, TypeOK
<1>8. CASE ServeRequest(c)
  <2>1. reply' \in DB!Replies
    BY <1>8, ServedRequest, CommandEffect, ClientAssumption DEF ServeRequest
  <2>2. op'[c].req = op[c].req /\ op'[c].reply = reply'
    BY <1>8, <2>1, OpAnswered DEF ServeRequest, OpIs
  <2>3. UNCHANGED <<blocks, mesherState>>
    BY <1>8 DEF ServeRequest
  <2> QED BY <1>8, <2>2, <2>3 DEF Answered
<1>9. CASE ServeUnregistration(c) \/ LoseUnregistration(c)
  <2>1. mesherState'[c] = "Unmeshed" /\ UNCHANGED <<blocks, op>>
    BY <1>9 DEF ServeUnregistration, LoseUnregistration, Stopped, TypeOK
  <2> QED BY <2>1 DEF Answered
<1>10. CASE ServeListRequest(c)
  <2>1. op'[c].stage = "executing"
    BY <1>10, OpMoved DEF ServeListRequest, OpIs
  <2> QED BY <1>10, <2>1 DEF ServeListRequest, Answered
<1>11. CASE ReadList(c)
  <2>1. op'[c].req = op[c].req
    BY <1>11, OpRead, DatabaseFacts DEF OpIs
  <2>2. op[c].req.action = "user_heartbeat" /\ UNCHANGED <<blocks, mesherState>>
    BY <1>1, <1>11 DEF ReadList, OpStage
  <2> QED BY <2>1, <2>2 DEF Answered
<1>12. CASE LoseRequest(c)
  <2>1. op'[c].reply = "error"
    BY <1>12, OpAnswered DEF LoseRequest, OpIs
  <2> QED BY <1>12, <2>1 DEF LoseRequest, Answered
<1>13. CASE TimeOutRequest(c)
  <2>1. op'[c].reply = "error"
    BY <1>13, OpAnswered DEF TimeOutRequest, OpIs
  <2> QED BY <1>13, <2>1 DEF TimeOutRequest, Answered
<1> QED BY <1>3, <1>4, <1>5, <1>6, <1>7, <1>8, <1>9, <1>10, <1>11, <1>12, <1>13
        DEF OwnStep, Main, Queue, Server, Network

(* A claim that was right stays right.                                     *)
LEMMA KnownKept ==
  ASSUME NEW c \in Clients, Known(c), Claims(c)' => Claims(c),
         c \in userIndex => c \in userIndex' \/ trouble'[c] \cap {"swept", "late"} # {},
         trouble[c] \subseteq trouble'[c]
  PROVE  Known(c)'
BY DEF Known

(* ... whatever the client does.                                           *)
LEMMA OwnKnown ==
  ASSUME TypeOK, DBInv, NEW c \in Clients, Regular(c), Known(c), OwnStep(c)
  PROVE  Known(c)'
<1>1. OpStage(c) /\ MainState(c) /\ Orderly(c) /\ c \in Users
  BY ClientAssumption DEF Regular
<1>2. trouble[c] \ {"swept", "peerLeft"} \subseteq trouble'[c]
  BY <1>1, TroubleStays
<1>3. \/ Claims(c)' => Claims(c)
      \/ ServeRequest(c) /\ op[c].req.action = "user_new" /\ reply' = "ok"
  BY OwnClaim
<1>4. CASE goOnline(c)
  <2>1. /\ mesherState[c] = "Unmeshed" /\ mesherState'[c] = "Meshing"
        /\ UNCHANGED <<op, blocks>>
    BY <1>4 DEF goOnline, TypeOK
  <2>2. Claims(c)' => "stopped" \in trouble[c]
    BY <1>1, <2>1 DEF Claims, HasBlock, Answered, Orderly, NoRegistration, NoneRuns, NoneGoesOn,
                      Registers, Continues
  <2> QED BY <1>2, <2>2 DEF Known
<1>5. CASE ServeRequest(c)
  <2>1. /\ trouble[c] \subseteq trouble'[c]
        /\ op[c].req \in LateRequest /\ op[c].req.action # "user_delete"
        /\ Command(c, op[c].req)
    BY <1>5, NoticeFacts, ServedRequest DEF ServeRequest
  <2>2. /\ c \in userIndex => c \in userIndex'
        /\ op[c].req.action = "user_new" /\ reply' = "ok" => c \in userIndex'
    BY <1>1, <2>1, CommandEffect
  <2> QED BY <1>3, <2>1, <2>2 DEF Known
<1>6. CASE ServeUnregistration(c)
  <2>1. mesherState[c] = "Unmeshing" /\ mesherState'[c] = "Unmeshed" /\ UNCHANGED <<op, blocks>>
    BY <1>1, <1>6 DEF ServeUnregistration, Stopped, MainState, TypeOK
  <2>2. Claims(c)' => "stopped" \in trouble[c]
    BY <1>1, <2>1 DEF Claims, HasBlock, Answered, Orderly, NoRegistration, NoneRuns, NoneGoesOn,
                      Registers, Continues
  <2> QED BY <1>2, <2>2 DEF Known
<1>7. ASSUME ~goOnline(c), ~ServeRequest(c), ~ServeUnregistration(c)
      PROVE  Known(c)'
  <2>1. trouble[c] \subseteq trouble'[c]
    BY <1>1, <1>7, OwnTrouble
  <2>2. UNCHANGED userIndex
    BY <1>1, <1>7, OwnIndex
  <2> QED BY <1>3, <1>7, <2>1, <2>2, KnownKept
<1> QED BY <1>4, <1>5, <1>6, <1>7

(* What a step that is not its own leaves of a client's claim.             *)
LEMMA OthersKnown ==
  ASSUME ClientInv, NEW d \in Clients, Known(d),
         UNCHANGED vars \/ PeerAsks \/ ServeLate \/ Sweep \/ FinishHeartbeat \/ ClockTick
           \/ \E c \in Clients \ {d} : OwnStep(c)
  PROVE  Known(d)'
<1>0. /\ TypeOK /\ DBInv /\ Serving /\ LateKnown /\ d \in Users
      /\ \A c \in Clients : Regular(c) /\ OpStage(c)
  BY ClientAssumption DEF ClientInv, Regular
<1>1. ASSUME Same(d), NEW u, Removed(u),
             u = d => trouble'[d] \cap {"swept", "late"} # {}
      PROVE  Known(d)'
  <2>1. Claims(d)' => Claims(d)
    BY <1>1 DEF Same, Claims, HasBlock, Answered
  <2>2. d \in userIndex => d \in userIndex' \/ trouble'[d] \cap {"swept", "late"} # {}
    BY <1>0, <1>1 DEF Removed
  <2> QED BY <1>1, <2>1, <2>2, KnownKept DEF Same
<1>2. CASE PeerAsks
  BY <1>0, <1>1, <1>2, PeerEffect
<1>3. CASE ServeLate
  <2>1. PICK u \in Clients : Removed(u) /\ "late" \in trouble[u]
    BY <1>0, <1>3, LateEffect
  <2>2. Same(d)
    BY <1>0, <1>3, LateEffect
  <2> QED BY <1>1, <2>1, <2>2 DEF Same
<1>4. CASE Sweep
  <2>1. PICK u \in userIndex : Removed(u) /\ (u \in Clients => "swept" \in trouble'[u])
    BY <1>0, <1>4, SweptEffect
  <2>2. Same(d)
    BY <1>0, <1>4, SweptEffect
  <2> QED BY <1>1, <2>1, <2>2
<1>5. CASE FinishHeartbeat
  <2>1. /\ UNCHANGED <<userIndex, mesherState, blocks, trouble>>
        /\ op'[d] = op[d] \/ OpIs(d, op[d].req, "read", op[d].cancelled, op[d].reply)
    BY <1>0, <1>5, FinishEffect DEF Same
  <2>2. Answered(d)' => Answered(d)
    BY <2>1 DEF Answered, OpIs
  <2> QED BY <2>1, <2>2, KnownKept DEF Claims, HasBlock
<1>6. CASE ClockTick \/ UNCHANGED vars
  <2>1. UNCHANGED <<userIndex, mesherState, blocks, op, trouble>>
    BY <1>0, <1>6, TickEffect DEF vars, dbVars, clientVars
  <2> QED BY <2>1, KnownKept DEF Claims, HasBlock, Answered
<1>7. ASSUME NEW c \in Clients \ {d}, OwnStep(c)
      PROVE  Known(d)'
  <2>1. Same(d) /\ Removed(c)
    BY <1>0, <1>7, OwnTypes, OwnIndex DEF OthersSame
  <2> QED BY <1>1, <1>7, <2>1
<1> QED BY <1>2, <1>3, <1>4, <1>5, <1>6, <1>7

(* A client that shows itself as meshed is registered: from the answer of  *)
(* AddNewUser to the block that meshes it, and on until it goes offline,   *)
(* only the sweep or one of its own late requests removes it.              *)
THEOREM MeshedRegistered == Spec => []MeshedIsRegistered
<1>1. Init => KnownInv
  <2> SUFFICES ASSUME Init PROVE KnownInv
    OBVIOUS
  <2>1. ASSUME NEW c \in Clients PROVE ~Claims(c)
    <3>1. mesherState[c] = "Unmeshed" /\ op[c] = NoOp /\ blocks[c] = <<>>
      BY DEF Init
    <3> QED BY <3>1, NoOpFacts DEF Claims, HasBlock, Answered
  <2> QED BY <2>1, ClientInit DEF KnownInv, Known
<1>2. KnownInv /\ [Next]_vars => KnownInv'
  <2> SUFFICES ASSUME KnownInv, [Next]_vars, NEW d \in Clients PROVE Known(d)'
    BY ClientStep DEF KnownInv
  <2>1. ClientInv /\ Known(d) /\ TypeOK /\ DBInv /\ Regular(d)
    BY DEF KnownInv, ClientInv
  <2>2. CASE OwnStep(d)
    BY <2>1, <2>2, OwnKnown
  <2>3. CASE ~OwnStep(d)
    BY <2>1, <2>3, OthersKnown, StepCases
  <2> QED BY <2>2, <2>3
<1>3. KnownInv => MeshedIsRegistered
  BY DEF KnownInv, Known, Claims, MeshedIsRegistered
<1> QED BY <1>1, <1>2, <1>3, PTL DEF Spec
-----------------------------------------------------------------------------
(***************************************************************************)
(* A client that does not want to be registered is not.                    *)
(***************************************************************************)
Blame == {"lost", "late", "stopped", "regrouped"}
Blameless(c) == trouble[c] \cap Blame = {}

(* The registration has not come to its end at the server.                 *)
Pending(c) ==
  \/ ~NoneWaits(c)
  \/ op[c].req.action = "group_new"
  \/ op[c].req.action = "user_new" /\ op[c].stage = "sent"
  \/ HasBlock(c, "registerSelf")

WaitsInGroup(c) ==
  \A i \in 1..Len(queue[c]) :
     queue[c][i].action = "user_new" => queue[c][i].group = groupId[c]

RunsInGroup(c) == op[c].req.action = "user_new" => op[c].req.group = groupId[c]

Registration(c) ==
  Blameless(c) =>
     /\ mesherState[c] = "Unmeshed" => c \notin userIndex
     /\ mesherState[c] = "Meshing" /\ Pending(c) => c \notin userIndex
     /\ c \in userIndex => userGroup[c] = groupId[c]
     /\ WaitsInGroup(c) /\ RunsInGroup(c)

RegisteredInv == ClientInv /\ \A c \in Clients : Registration(c)

(* The groups that the waiting requests name.                              *)
LEMMA GroupsWaiting ==
  ASSUME TypeOK, NEW c \in Clients, WaitsInGroup(c), groupId'[c] = groupId[c]
  PROVE  /\ \A r \in Request :
              /\ addOperation(c, r)
              /\ r.action = "user_new" => r.group = groupId[c]
              => WaitsInGroup(c)'
         /\ queue[c] # <<>> /\ queue' = [queue EXCEPT ![c] = Tail(@)] =>
              /\ WaitsInGroup(c)'
              /\ Head(queue[c]).action = "user_new" => Head(queue[c]).group = groupId[c]
         /\ queue'[c] \in {queue[c], <<>>} => WaitsInGroup(c)'
<1> USE DEF WaitsInGroup
<1>1. ASSUME NEW r \in Request, addOperation(c, r),
             r.action = "user_new" => r.group = groupId[c],
             NEW i \in 1..Len(queue'[c])
      PROVE  queue'[c][i].action = "user_new" => queue'[c][i].group = groupId[c]
  <2>1. /\ Len(queue[c]) \in Nat /\ Len(queue'[c]) = Len(queue[c]) + 1
        /\ \A j \in 1..Len(queue[c]) : queue'[c][j] = queue[c][j]
        /\ queue'[c][Len(queue[c]) + 1] = r
    BY <1>1, Queued
  <2>2. i \in 1..Len(queue[c]) \/ i = Len(queue[c]) + 1
    BY <2>1
  <2>3. CASE i \in 1..Len(queue[c])
    BY <1>1, <2>1, <2>3, Zenon
  <2>4. CASE i = Len(queue[c]) + 1
    BY <1>1, <2>1, <2>4, Zenon
  <2> QED BY <2>2, <2>3, <2>4
<1>2. ASSUME queue[c] # <<>>, queue' = [queue EXCEPT ![c] = Tail(@)]
      PROVE  /\ \A i \in 1..Len(queue'[c]) :
                  queue'[c][i].action = "user_new" => queue'[c][i].group = groupId[c]
             /\ Head(queue[c]).action = "user_new" => Head(queue[c]).group = groupId[c]
  <2>1. /\ Len(queue'[c]) = Len(queue[c]) - 1 /\ Len(queue'[c]) \in Nat
        /\ \A i \in 1..Len(queue'[c]) : queue'[c][i] = queue[c][i + 1]
        /\ Head(queue[c]) = queue[c][1]
    BY <1>2, RequestTaken, Zenon
  <2>2. Len(queue[c]) \in Nat
    BY LenProperties DEF TypeOK
  <2>3. 1 \in 1..Len(queue[c]) /\ \A i \in 1..Len(queue'[c]) : i + 1 \in 1..Len(queue[c])
    BY <2>1, <2>2
  <2> QED BY <2>1, <2>3
<1>3. ASSUME queue'[c] \in {queue[c], <<>>} PROVE WaitsInGroup(c)'
  BY <1>3
<1> QED BY <1>1, <1>2, <1>3

(* A registration stays in order when nothing is asked for that was not.   *)
LEMMA RegistrationKept ==
  ASSUME NEW c \in Clients, Registration(c),
         trouble[c] \cap Blame \subseteq trouble'[c],
         mesherState'[c] = "Unmeshed" => mesherState[c] = "Unmeshed",
         mesherState'[c] = "Meshing" => mesherState[c] = "Meshing",
         groupId'[c] = groupId[c],
         c \in userIndex' => c \in userIndex /\ userGroup'[c] = userGroup[c],
         mesherState'[c] = "Meshing" /\ Pending(c)' => Pending(c),
         WaitsInGroup(c) => WaitsInGroup(c)',
         RunsInGroup(c) => RunsInGroup(c)'
  PROVE  Registration(c)'
BY DEF Registration, Blameless, Blame

(* ... whatever the thread of the queue does.                              *)
LEMMA QueueRegistration ==
  ASSUME TypeOK, DBInv, NEW c \in Clients, Regular(c), Registration(c), Queue(c),
         Blameless(c)
  PROVE  Registration(c)'
<1>1. /\ OneWaits(c) /\ trouble' = trouble /\ UNCHANGED <<mesherState, groupId>>
      /\ UNCHANGED <<userIndex, userGroup>>
  BY DEF Regular, Orderly, OneRegistration, Blameless, Blame, Queue, StartRequest,
         requestCallback, dbVars
<1>2. CASE StartRequest(c)
  <2>1. op'[c].req = Head(queue[c])
    BY <1>2, OpStarted DEF OpIs
  <2>2. /\ queue[c] # <<>> /\ queue' = [queue EXCEPT ![c] = Tail(@)]
        /\ UNCHANGED blocks
    BY <1>2 DEF StartRequest
  <2>3. /\ ~NoneWaits(c)' => ~NoneWaits(c)
        /\ Head(queue[c]).action \in Registers => ~NoneWaits(c)
    BY <1>1, <2>2, TakenRequest
  <2>4. Pending(c)' => Pending(c)
    BY <2>1, <2>2, <2>3 DEF Pending, Registers, HasBlock
  <2>5. WaitsInGroup(c) => WaitsInGroup(c)' /\ RunsInGroup(c)'
    BY <1>1, <2>1, <2>2, GroupsWaiting DEF RunsInGroup
  <2>6. WaitsInGroup(c)
    BY DEF Registration
  <2> QED BY <1>1, <2>4, <2>5, <2>6, RegistrationKept
<1>3. CASE requestCallback(c)
  <2>1. op'[c].req.action = "none" /\ UNCHANGED queue
    BY <1>3, CallbackOutcome, NoOpFacts, RequestActions DEF requestCallback
  <2>2. /\ WaitsInGroup(c)' <=> WaitsInGroup(c)
        /\ RunsInGroup(c)'
        /\ NoneWaits(c)' <=> NoneWaits(c)
    BY <1>1, <2>1 DEF WaitsInGroup, RunsInGroup, NoneWaits
  <2>3. HasBlock(c, "registerSelf")'
          => HasBlock(c, "registerSelf") \/ op[c].req.action = "group_new"
    <3>1. CASE UNCHANGED blocks
      BY <3>1 DEF HasBlock
    <3>2. ASSUME NEW b \in Block, dispatch(c, b),
                 b.do = "registerSelf" => op[c].req.action = "group_new"
          PROVE  HasBlock(c, "registerSelf")'
                   => HasBlock(c, "registerSelf") \/ op[c].req.action = "group_new"
      BY <3>2, BlockFacts
    <3> QED BY <1>3, <3>1, <3>2, CallbackOutcome
  <2>4. Pending(c)' => Pending(c)
    BY <2>1, <2>2, <2>3 DEF Pending
  <2> QED BY <1>1, <2>2, <2>4, RegistrationKept
<1> QED BY <1>2, <1>3 DEF Queue

(* ... or the main thread.                                                 *)
LEMMA MainRegistration ==
  ASSUME TypeOK, DBInv, NEW c \in Clients, Regular(c), Registration(c), Main(c),
         Blameless(c)
  PROVE  Registration(c)'
<1>1. /\ OneRegistration(c) /\ trouble' = trouble /\ UNCHANGED groupId
      /\ mesherState[c] # "Meshing" => NoRegistration(c)
      /\ UNCHANGED <<userIndex, userGroup>>
  BY DEF Regular, Orderly, Blameless, Blame, Main, RunBlock, CancelAll, dbVars
<1>2. CASE CancelAll(c)
  <2>1. /\ op'[c].req = op[c].req /\ op'[c].stage = op[c].stage
    BY <1>2, OpCancelled DEF OpIs
  <2>2. queue'[c] = <<>> /\ UNCHANGED <<blocks, mesherState>>
    BY <1>2 DEF CancelAll, TypeOK
  <2>3. /\ WaitsInGroup(c)' /\ NoneWaits(c)'
        /\ RunsInGroup(c)' <=> RunsInGroup(c)
    BY <1>1, <2>1, <2>2 DEF WaitsInGroup, RunsInGroup, NoneWaits
  <2>4. Pending(c)' => Pending(c)
    BY <2>1, <2>2, <2>3 DEF Pending, HasBlock
  <2> QED BY <1>1, <2>2, <2>3, <2>4, RegistrationKept
<1>3. CASE RunBlock(c)
  <2> DEFINE b == Head(blocks[c])
  <2>1. /\ blocks[c] # <<>> /\ blocks' = [blocks EXCEPT ![c] = Tail(@)]
        /\ UNCHANGED op
        /\ mesherState'[c] = mesherState[c] \/ mesherState'[c] = "Meshed"
        /\ \/ UNCHANGED queue
           \/ addOperation(c, updateMyself(c))
           \/ b.do = "registerSelf" /\ addOperation(c, registerSelf(c))
    BY <1>3 DEF RunBlock, TypeOK
  <2>2. /\ HasBlock(c, "registerSelf")' => HasBlock(c, "registerSelf")
        /\ b.do = "registerSelf" => HasBlock(c, "registerSelf")
    BY <2>1, BlockFacts
  <2> HIDE DEF b
  <2>3. RunsInGroup(c)' <=> RunsInGroup(c)
    BY <1>1, <2>1 DEF RunsInGroup
  <2>4. CASE UNCHANGED queue
    <3>1. /\ WaitsInGroup(c)' <=> WaitsInGroup(c)
          /\ NoneWaits(c)' <=> NoneWaits(c)
      BY <1>1, <2>4 DEF WaitsInGroup, NoneWaits
    <3>2. Pending(c)' => Pending(c)
      BY <2>1, <2>2, <3>1 DEF Pending
    <3> QED BY <1>1, <2>1, <2>3, <3>1, <3>2, RegistrationKept
  <2>5. CASE addOperation(c, updateMyself(c))
    <3>1. /\ updateMyself(c) \in Request /\ updateMyself(c).action = "user_update"
      BY RequestFacts
    <3>2. NoneWaits(c)' <=> NoneWaits(c)
      BY <2>5, <3>1, QueuedRegistration DEF Registers
    <3>3. WaitsInGroup(c) => WaitsInGroup(c)'
      BY <1>1, <2>5, <3>1, GroupsWaiting
    <3>4. Pending(c)' => Pending(c)
      BY <2>1, <2>2, <3>2 DEF Pending
    <3> QED BY <1>1, <2>1, <2>3, <3>3, <3>4, RegistrationKept
  <2>6. CASE b.do = "registerSelf" /\ addOperation(c, registerSelf(c))
    <3>1. /\ registerSelf(c) \in Request /\ registerSelf(c).group = groupId[c]
      BY RequestFacts
    <3>2. WaitsInGroup(c) => WaitsInGroup(c)'
      BY <1>1, <2>6, <3>1, GroupsWaiting
    <3>3. Pending(c)
      BY <2>2, <2>6 DEF Pending
    <3> QED BY <1>1, <2>1, <2>3, <3>2, <3>3, RegistrationKept
  <2> QED BY <2>1, <2>4, <2>5, <2>6
<1> QED BY <1>2, <1>3 DEF Main

(* ... what the user asks for, or the heartbeat does.                      *)
LEMMA UserRegistration ==
  ASSUME TypeOK, DBInv, NEW c \in Clients, Regular(c), Registration(c),
         User(c) \/ JoinLocalGroup(c) \/ Beat(c), Blameless(c)
  PROVE  Registration(c)'
<1>1. /\ OneRegistration(c) /\ UNCHANGED op
      /\ mesherState[c] # "Meshing" => NoRegistration(c)
      /\ UNCHANGED <<blocks, userIndex, userGroup>>
  <2>1. UNCHANGED <<userIndex, userGroup>>
    <3>1. UNCHANGED dbVars \/ \E g \in Groups : DB!UserHeartbeat(c, g)
      BY DEF User, JoinLocalGroup, Beat, goOnline, goOffline, stopMesher,
             startMesher, Edit, SendBeat, didReceiveData, TypeOK
    <3> QED BY <3>1, IdleEffect, ClientAssumption
  <2>2. UNCHANGED <<op, blocks>>
    BY DEF User, JoinLocalGroup, Beat, goOnline, goOffline, stopMesher, startMesher,
           Edit, SendBeat, didReceiveData
  <2> QED BY <2>1, <2>2 DEF Regular, Orderly, Blameless, Blame
<1>2. trouble[c] \cap Blame \subseteq trouble'[c]
  BY OwnTrouble DEF OwnStep, Blame
<1>3. ASSUME UNCHANGED <<groupId, queue>>,
             mesherState'[c] = mesherState[c] \/ mesherState'[c] = "Unmeshing"
      PROVE  Registration(c)'
  <2>1. /\ WaitsInGroup(c)' <=> WaitsInGroup(c)
        /\ RunsInGroup(c)' <=> RunsInGroup(c)
        /\ Pending(c)' <=> Pending(c)
    BY <1>1, <1>3 DEF WaitsInGroup, RunsInGroup, Pending, NoneWaits, HasBlock
  <2> QED BY <1>1, <1>2, <1>3, <2>1, RegistrationKept
<1>4. ASSUME UNCHANGED <<groupId, mesherState>>,
             NEW r \in Request, addOperation(c, r), r.action \notin Registers
      PROVE  Registration(c)'
  <2>1. WaitsInGroup(c) => WaitsInGroup(c)'
    BY <1>4, GroupsWaiting DEF Registers
  <2>2. NoneWaits(c)' <=> NoneWaits(c)
    BY <1>4, QueuedRegistration
  <2>3. /\ RunsInGroup(c)' <=> RunsInGroup(c)
        /\ Pending(c)' <=> Pending(c)
    BY <1>1, <1>4, <2>2 DEF RunsInGroup, Pending, HasBlock
  <2> QED BY <1>1, <1>2, <1>4, <2>1, <2>3, RegistrationKept
<1>5. CASE goOnline(c)
  <2>1. /\ mesherState[c] = "Unmeshed" /\ mesherState'[c] = "Meshing"
        /\ groupId' = groupId /\ addOperation(c, registerGroup(c))
    BY <1>5 DEF goOnline, TypeOK
  <2>2. c \notin userIndex /\ WaitsInGroup(c) /\ RunsInGroup(c)
    BY <2>1 DEF Registration
  <2>3. WaitsInGroup(c)'
    BY <2>1, <2>2, RequestFacts, GroupsWaiting
  <2>4. RunsInGroup(c)'
    BY <1>1, <2>1, <2>2 DEF RunsInGroup
  <2> QED BY <1>1, <2>1, <2>2, <2>3, <2>4 DEF Registration
<1>6. CASE goOffline(c) \/ stopMesher(c) \/ startMesher(c) \/ SendBeat(c)
  BY <1>3, <1>6 DEF goOffline, stopMesher, startMesher, SendBeat, TypeOK
<1>7. CASE Edit(c)
  BY <1>4, <1>7, RequestFacts DEF Edit, Registers
<1>8. CASE didReceiveData(c)
  BY <1>3, <1>4, <1>8, RequestFacts DEF didReceiveData, Registers
<1>9. CASE JoinLocalGroup(c)
  <2>1. CASE Meets(c, "regrouped")
    BY <2>1, MeetsFacts DEF Troubles, Registration, Blameless, Blame
  <2>2. CASE mesherState[c] = "Unmeshed" /\ op[c] = NoOp /\ c \notin userIndex
    <3>1. NoneWaits(c) /\ UNCHANGED <<queue, mesherState>>
      BY <1>1, <1>9, <2>2 DEF NoRegistration, JoinLocalGroup
    <3>2. WaitsInGroup(c)'
      BY <3>1 DEF WaitsInGroup, NoneWaits, Registers
    <3>3. RunsInGroup(c)'
      BY <1>1, <2>2, NoOpFacts, RequestActions DEF RunsInGroup
    <3> QED BY <1>1, <2>2, <3>1, <3>2, <3>3 DEF Registration
  <2> QED BY <1>9, <2>1, <2>2 DEF JoinLocalGroup
<1> QED BY <1>5, <1>6, <1>7, <1>8, <1>9 DEF User, Beat

(* ... or the server answers, or the network does not.                     *)
LEMMA ServerRegistration ==
  ASSUME TypeOK, DBInv, NEW c \in Clients, Regular(c), Registration(c),
         Server(c) \/ Network(c), Blameless(c)
  PROVE  Registration(c)'
<1>1. /\ OpStage(c) /\ OneRegistration(c) /\ UNCHANGED <<queue, blocks, groupId>>
      /\ mesherState[c] # "Meshing" => NoRegistration(c)
      /\ c \in Users
  BY ClientAssumption
     DEF Regular, Orderly, Blameless, Blame, Server, Network, ServeRequest,
         ServeUnregistration, ServeListRequest, ReadList, LoseRequest,
         TimeOutRequest, LoseUnregistration, Stopped
<1>2. trouble[c] \cap Blame \subseteq trouble'[c]
  BY OwnTrouble DEF OwnStep, Blame
<1>3. /\ WaitsInGroup(c)' <=> WaitsInGroup(c)
      /\ NoneWaits(c)' <=> NoneWaits(c)
      /\ HasBlock(c, "registerSelf")' <=> HasBlock(c, "registerSelf")
  BY <1>1 DEF WaitsInGroup, NoneWaits, HasBlock
<1>4. CASE Network(c)
  <2>1. Meets(c, "lost") \/ Meets(c, "late")
    BY <1>4 DEF Network, LoseRequest, TimeOutRequest, LoseUnregistration
  <2> QED BY <2>1, MeetsFacts DEF Troubles, Registration, Blameless, Blame
<1>5. CASE ServeRequest(c)
  <2> DEFINE r == op[c].req
  <2>1. /\ r \in LateRequest /\ r.action # "user_delete" /\ Command(c, r)
        /\ op[c].stage = "sent" /\ UNCHANGED mesherState
    BY <1>5, ServedRequest DEF ServeRequest
  <2>2. reply' \in DB!Replies
    BY <1>1, <2>1, CommandEffect
  <2>3. op'[c].req = r /\ op'[c].stage = "answered"
    BY <1>5, <2>2, OpAnswered DEF ServeRequest, OpIs
  <2>4. RunsInGroup(c)' <=> RunsInGroup(c)
    BY <1>1, <2>3 DEF RunsInGroup
  <2>5. CASE r.action # "user_new"
    <3>1. UNCHANGED <<userIndex, userGroup>>
      BY <1>1, <2>1, <2>5, CommandEffect
    <3>2. Pending(c)' => Pending(c)
      BY <1>3, <2>3, <2>5 DEF Pending
    <3> QED BY <1>1, <1>2, <1>3, <2>1, <2>4, <3>1, <3>2, RegistrationKept
  <2>6. CASE r.action = "user_new"
    <3>1. mesherState[c] = "Meshing" /\ NoneWaits(c) /\ NoneGoesOn(c)
      BY <1>1, <2>6 DEF OneRegistration, NoRegistration, NoneRuns, Registers
    <3>2. ~Pending(c)'
      BY <1>3, <2>3, <2>6, <3>1 DEF Pending, NoneGoesOn, HasBlock, Continues
    <3>3. r.group = groupId[c]
      BY <2>6 DEF Registration, RunsInGroup
    <3>4. Pending(c) /\ c \notin userIndex
      BY <2>1, <2>6, <3>1 DEF Pending, Registration
    <3>5. c \in userIndex' => userGroup'[c] = groupId[c]
      BY <1>1, <2>1, <2>6, <3>3, <3>4, CommandEffect
    <3> QED BY <1>1, <1>2, <1>3, <2>1, <2>4, <3>1, <3>2, <3>5
            DEF Registration, Blameless, Blame
  <2> QED BY <2>5, <2>6
<1>6. CASE ServeUnregistration(c)
  <2> DEFINE r == unregisterSelf(c)
  <2>1. /\ r \in LateRequest /\ r.action = "user_delete" /\ r.group = groupId[c]
        /\ Command(c, r)
    BY <1>6, RequestFacts DEF ServeUnregistration
  <2>2. mesherState[c] = "Unmeshing" /\ mesherState'[c] = "Unmeshed" /\ UNCHANGED op
    BY <1>6 DEF ServeUnregistration, Stopped, Regular, MainState, TypeOK
  <2>3. c \in userIndex => groupId[c] \in groupIndex
    BY DatabaseFacts DEF Registration
  <2>4. c \notin userIndex'
    BY <1>1, <2>1, <2>3, CommandEffect
  <2>5. RunsInGroup(c)' <=> RunsInGroup(c)
    BY <1>1, <2>2 DEF RunsInGroup
  <2> QED BY <1>1, <1>2, <1>3, <2>2, <2>4, <2>5 DEF Registration, Blameless, Blame
<1>7. ASSUME op'[c].req = op[c].req, op[c].req.action = "user_heartbeat",
             UNCHANGED <<mesherState, userIndex, userGroup>>
      PROVE  Registration(c)'
  <2>1. /\ RunsInGroup(c)' <=> RunsInGroup(c)
        /\ Pending(c)' <=> Pending(c)
    BY <1>1, <1>3, <1>7 DEF RunsInGroup, Pending
  <2> QED BY <1>1, <1>2, <1>3, <1>7, <2>1, RegistrationKept
<1>8. CASE ServeListRequest(c)
  <2>1. op'[c].req = op[c].req
    BY <1>8, OpMoved DEF ServeListRequest, OpIs
  <2>2. UNCHANGED <<mesherState, userIndex, userGroup>>
    BY <1>8 DEF ServeListRequest, DB!UserHeartbeat, DB!dbVars, DB!groupVars, DB!userVars
  <2> QED BY <1>7, <1>8, <2>1, <2>2 DEF ServeListRequest
<1>9. CASE ReadList(c)
  <2>1. op'[c].req = op[c].req
    BY <1>9, OpRead, DatabaseFacts DEF OpIs
  <2>2. op[c].req.action = "user_heartbeat" /\ UNCHANGED <<mesherState, userIndex, userGroup>>
    BY <1>1, <1>9 DEF ReadList, OpStage, dbVars
  <2> QED BY <1>7, <2>1, <2>2
<1> QED BY <1>4, <1>5, <1>6, <1>8, <1>9 DEF Server

(* What a step that is not its own leaves of a client's registration.      *)
LEMMA OthersRegistration ==
  ASSUME ClientInv, NEW d \in Clients, Registration(d),
         UNCHANGED vars \/ PeerAsks \/ ServeLate \/ Sweep \/ FinishHeartbeat \/ ClockTick
           \/ \E c \in Clients \ {d} : OwnStep(c)
  PROVE  Registration(d)'
<1>0. /\ TypeOK /\ DBInv /\ Serving /\ LateKnown /\ d \in Users
      /\ \A c \in Clients : Regular(c) /\ OpStage(c)
  BY ClientAssumption DEF ClientInv, Regular
<1>1. ASSUME queue'[d] = queue[d], blocks'[d] = blocks[d], groupId'[d] = groupId[d],
             mesherState'[d] = mesherState[d], trouble[d] \subseteq trouble'[d],
             op'[d].req = op[d].req,
             op'[d].stage = op[d].stage \/ op'[d].stage = "read",
             d \in userIndex' => d \in userIndex /\ userGroup'[d] = userGroup[d]
      PROVE  Registration(d)'
  <2>1. /\ WaitsInGroup(d)' <=> WaitsInGroup(d)
        /\ RunsInGroup(d)' <=> RunsInGroup(d)
        /\ Pending(d)' => Pending(d)
    BY <1>1 DEF WaitsInGroup, RunsInGroup, Pending, NoneWaits, HasBlock
  <2> QED BY <1>1, <2>1, RegistrationKept
<1>2. ASSUME Same(d), NEW u, Removed(u),
             u = d => d \notin userIndex' \/ "late" \in trouble'[d]
      PROVE  Registration(d)'
  <2>1. CASE u = d /\ "late" \in trouble'[d]
    BY <2>1 DEF Registration, Blameless, Blame
  <2>2. CASE u # d \/ d \notin userIndex'
    <3>1. d \in userIndex' => d \in userIndex /\ userGroup'[d] = userGroup[d]
      BY <1>0, <1>2, <2>2 DEF Removed
    <3> QED BY <1>1, <1>2, <3>1 DEF Same
  <2> QED BY <1>2, <2>1, <2>2
<1>3. CASE PeerAsks
  BY <1>0, <1>2, <1>3, PeerEffect
<1>4. CASE ServeLate
  <2>1. PICK u \in Clients : Removed(u) /\ "late" \in trouble[u]
    BY <1>0, <1>4, LateEffect
  <2>2. Same(d)
    BY <1>0, <1>4, LateEffect
  <2> QED BY <1>2, <2>1, <2>2 DEF Same
<1>5. CASE Sweep
  <2>1. PICK u \in userIndex : Removed(u) /\ u \notin userIndex'
    BY <1>0, <1>5, SweptEffect
  <2>2. Same(d)
    BY <1>0, <1>5, SweptEffect
  <2> QED BY <1>2, <2>1, <2>2
<1>6. CASE FinishHeartbeat
  <2>1. /\ UNCHANGED <<userIndex, userGroup, mesherState, groupId, queue, blocks, trouble>>
        /\ op'[d] = op[d] \/ OpIs(d, op[d].req, "read", op[d].cancelled, op[d].reply)
    BY <1>0, <1>6, FinishEffect DEF Same
  <2>2. op'[d].req = op[d].req /\ (op'[d].stage = op[d].stage \/ op'[d].stage = "read")
    BY <2>1 DEF OpIs
  <2> QED BY <1>1, <2>1, <2>2
<1>7. CASE ClockTick \/ UNCHANGED vars
  <2>1. UNCHANGED <<userIndex, userGroup, mesherState, groupId, queue, blocks, op, trouble>>
    BY <1>0, <1>7, TickEffect DEF vars, dbVars, clientVars
  <2> QED BY <1>1, <2>1
<1>8. ASSUME NEW c \in Clients \ {d}, OwnStep(c)
      PROVE  Registration(d)'
  <2>1. Same(d) /\ Removed(c)
    BY <1>0, <1>8, OwnTypes, OwnIndex DEF OthersSame
  <2> QED BY <1>2, <1>8, <2>1
<1> QED BY <1>3, <1>4, <1>5, <1>6, <1>7, <1>8

(* The registrations start in order,                                       *)
LEMMA RegisteredInit == Init => RegisteredInv
<1> SUFFICES ASSUME Init PROVE RegisteredInv
  OBVIOUS
<1>1. userIndex = {}
  BY DEF Init, DB!Init
<1>2. ASSUME NEW c \in Clients PROVE Registration(c)
  <2>1. queue[c] = <<>> /\ op[c] = NoOp
    BY DEF Init
  <2> QED BY <1>1, <2>1, NoOpFacts, RequestActions
          DEF Registration, WaitsInGroup, RunsInGroup
<1> QED BY <1>2, ClientInit DEF RegisteredInv

(* and every step keeps them so.                                           *)
LEMMA RegisteredStep == RegisteredInv /\ [Next]_vars => RegisteredInv'
<1> SUFFICES ASSUME RegisteredInv, [Next]_vars, NEW d \in Clients PROVE Registration(d)'
  BY ClientStep DEF RegisteredInv
<1>1. ClientInv /\ Registration(d) /\ TypeOK /\ DBInv /\ Regular(d)
  BY DEF RegisteredInv, ClientInv
<1>2. CASE OwnStep(d)
  <2>1. CASE ~Blameless(d)
    <3>1. ~Blameless(d)'
      BY <1>1, <1>2, <2>1, OwnTrouble DEF Blameless, Blame
    <3> QED BY <3>1 DEF Registration
  <2>2. CASE Blameless(d)
    BY <1>1, <1>2, <2>2, QueueRegistration, MainRegistration, UserRegistration,
       ServerRegistration DEF OwnStep
  <2> QED BY <2>1, <2>2
<1>3. CASE ~OwnStep(d)
  BY <1>1, <1>3, OthersRegistration, StepCases
<1> QED BY <1>2, <1>3

(* A client that went offline is not registered any more once what it had  *)
(* asked for is done: unregisterSelf names the group it is in, which is    *)
(* there, and no request that was on its way registers it again.           *)
THEOREM UnmeshedGone == Spec => []UnmeshedIsGone
<1>1. RegisteredInv => UnmeshedIsGone
  BY DEF RegisteredInv, Registration, Blameless, Blame, UnmeshedIsGone
<1> QED BY <1>1, RegisteredInit, RegisteredStep, PTL DEF Spec
-----------------------------------------------------------------------------
(***************************************************************************)
(* A client that knows the server's list shows it, or soon will.           *)
(***************************************************************************)
Show(c, i) == i \in 1..Len(blocks[c]) /\ blocks[c][i].do = "show"
LastShow(c, i) == Show(c, i) /\ \A j \in 1..Len(blocks[c]) : Show(c, j) => j =< i

(* Nothing the client has is newer than what the server published; what    *)
(* the last answer says of that list is right.                             *)
NotNewer(c) ==
  /\ version[c] =< snapShot.Version
  /\ op[c].got =< snapShot.Version
  /\ \A i \in 1..Len(blocks[c]) : Show(c, i) => blocks[c][i].list =< snapShot.Version
  /\ /\ op[c].req.action = "user_heartbeat" /\ op[c].stage = "answered"
     /\ op[c].reply # "error" /\ op[c].got = snapShot.Version
     => (op[c].groups <=> ShowsGroup)
  /\ Answered(c) => version[c] < snapShot.Version

(* The list with the version that was stored is the last to be shown, also *)
(* by a client that is about to mesh.                                      *)
WillShow(c) ==
  /\ \A i \in 1..Len(blocks[c]) : LastShow(c, i) => blocks[c][i].list = version[c]
  /\ \A i \in 1..Len(blocks[c]) : blocks[c][i].do = "meshed" =>
        \E j \in 1..Len(blocks[c]) : j > i /\ Show(c, j)
  /\ \/ \E i \in 1..Len(blocks[c]) : Show(c, i)
     \/ liveGroups[c] = version[c] \/ mesherState[c] # "Meshed"

Shown(c) ==
  NotNewer(c) /\ (version[c] = snapShot.Version /\ ShowsGroup => WillShow(c))

ShownInv == ClientInv /\ \A c \in Clients : Shown(c)

(* A newer list takes away what had to be shown.                           *)
LEMMA NewerShown ==
  ASSUME DBInv, DBInv', NEW c \in Clients, TypeOK, TypeOK', Shown(c),
         snapShot'.Version > snapShot.Version,
         blocks'[c] = blocks[c], version'[c] = version[c],
         op'[c].got = op[c].got
  PROVE  Shown(c)'
<1>1. snapShot.Version \in Nat /\ snapShot'.Version \in Nat /\ version[c] \in Nat
      /\ op[c].got \in Nat
  <2>1. snapShot'.Version \in Nat
    BY DEF DBInv, P!AppInv, P!Inv, P!TypeOK
  <2> QED BY <2>1, DatabaseFacts DEF TypeOK, Op
<1>2. version'[c] < snapShot'.Version /\ op'[c].got < snapShot'.Version
  BY <1>1 DEF Shown, NotNewer
<1>3. ASSUME NEW i \in 1..Len(blocks[c]), Show(c, i)
      PROVE  blocks[c][i].list =< snapShot'.Version
  <2>1. blocks[c][i] \in Block
    BY DEF TypeOK
  <2>2. blocks[c][i].list \in Nat
    BY <1>3, <2>1 DEF Show, Block
  <2>3. blocks[c][i].list =< snapShot.Version
    BY <1>3 DEF Shown, NotNewer
  <2> QED BY <1>1, <2>2, <2>3
<1>4. \A i \in 1..Len(blocks'[c]) : Show(c, i)' => blocks'[c][i].list =< snapShot'.Version
  BY <1>3 DEF Show
<1> QED BY <1>1, <1>2, <1>4 DEF Shown, NotNewer

(* The same list is shown as before.                                       *)
LEMMA SameShown ==
  ASSUME NEW c \in Clients, Shown(c), snapShot' = snapShot,
         blocks'[c] = blocks[c], version'[c] = version[c],
         snapShot.Version \in Nat, op'[c].got \in {op[c].got, 0},
         /\ op'[c].req.action = "user_heartbeat" /\ op'[c].stage = "answered"
         /\ op'[c].reply # "error"
         => /\ op[c].req.action = "user_heartbeat" /\ op[c].stage = "answered"
            /\ op[c].reply # "error" /\ op'[c].got = op[c].got
            /\ op'[c].groups = op[c].groups,
         Answered(c)' => Answered(c),
         mesherState'[c] = "Meshed" => mesherState[c] = "Meshed",
         mesherState'[c] = "Meshed" => liveGroups'[c] = liveGroups[c]
  PROVE  Shown(c)'
<1>1. ShowsGroup' <=> ShowsGroup
  BY DEF ShowsGroup
<1>2. NotNewer(c)'
  <2>1. op'[c].got =< snapShot'.Version
    BY DEF Shown, NotNewer
  <2>2. /\ op'[c].req.action = "user_heartbeat" /\ op'[c].stage = "answered"
        /\ op'[c].reply # "error" /\ op'[c].got = snapShot'.Version
        => (op'[c].groups <=> ShowsGroup')
    BY <1>1 DEF Shown, NotNewer
  <2>3. Answered(c)' => version'[c] < snapShot'.Version
    BY DEF Shown, NotNewer
  <2> QED BY <2>1, <2>2, <2>3 DEF Shown, NotNewer, Show
<1>3. WillShow(c) => WillShow(c)'
  BY DEF WillShow, LastShow, Show
<1> QED BY <1>1, <1>2, <1>3 DEF Shown

(* A client that a step leaves as it is shows what it showed.              *)
LEMMA LeftShown ==
  ASSUME DBInv, DBInv', TypeOK, TypeOK', NEW d \in Clients, Shown(d), Same(d),
         snapShot' = snapShot \/ snapShot'.Version > snapShot.Version
  PROVE  Shown(d)'
<1>1. CASE snapShot'.Version > snapShot.Version
  BY <1>1, NewerShown DEF Same
<1>2. CASE snapShot' = snapShot
  <2>1. op'[d] = op[d] /\ snapShot.Version \in Nat
    BY DatabaseFacts DEF Same
  <2>2. Answered(d)' => Answered(d)
    BY <2>1 DEF Answered
  <2> QED BY <1>2, <2>1, <2>2, SameShown DEF Same
<1> QED BY <1>1, <1>2

(* What the callback stores and hands to the main thread.                  *)
LEMMA CallbackList ==
  ASSUME TypeOK, NEW c \in Clients, requestCallback(c)
  PROVE  \/ /\ UNCHANGED version
            /\ \/ UNCHANGED blocks
               \/ \E b \in Block : /\ dispatch(c, b) /\ b.do # "show"
                                   /\ b.do = "meshed" => Answered(c)
         \/ /\ op[c].req.action = "user_heartbeat" /\ op[c].reply # "error"
            /\ version'[c] = op[c].got
            /\ ~op[c].groups => UNCHANGED blocks
            /\ op[c].groups => \E b \in Block : /\ dispatch(c, b) /\ b.do = "show"
                                                /\ b.list = op[c].got
<1>1. /\ [do |-> "registerSelf"] \in Block /\ [do |-> "meshed"] \in Block
      /\ [do |-> "cannotMesh"] \in Block
  BY DEF Block
<1>2. op[c].got \in Nat /\ [do |-> "show", list |-> op[c].got] \in Block
  BY DEF TypeOK, Op, Block
<1>3. \/ UNCHANGED <<blocks, version>>
      \/ UNCHANGED version /\ dispatch(c, [do |-> "registerSelf"])
      \/ /\ op[c].req.action = "user_new" /\ op[c].reply = "ok" /\ op[c].stage = "answered"
         /\ UNCHANGED version /\ dispatch(c, [do |-> "meshed"])
      \/ UNCHANGED version /\ dispatch(c, [do |-> "cannotMesh"])
      \/ /\ op[c].req.action = "user_heartbeat" /\ op[c].reply # "error"
         /\ version' = [version EXCEPT ![c] = op[c].got]
         /\ \/ op[c].groups /\ dispatch(c, [do |-> "show", list |-> op[c].got])
            \/ ~op[c].groups /\ UNCHANGED blocks
  BY DEF requestCallback, Registered, SelfRegistered, UserListArrived
<1>4. CASE /\ op[c].req.action = "user_heartbeat" /\ op[c].reply # "error"
           /\ version' = [version EXCEPT ![c] = op[c].got]
           /\ \/ op[c].groups /\ dispatch(c, [do |-> "show", list |-> op[c].got])
              \/ ~op[c].groups /\ UNCHANGED blocks
  <2>1. version'[c] = op[c].got
    BY <1>4 DEF TypeOK
  <2> QED BY <1>2, <1>4, <2>1
<1>5. CASE UNCHANGED version /\ dispatch(c, [do |-> "registerSelf"])
  BY <1>1, <1>5
<1>6. CASE UNCHANGED version /\ dispatch(c, [do |-> "cannotMesh"])
  BY <1>1, <1>6
<1>7. CASE /\ op[c].req.action = "user_new" /\ op[c].reply = "ok" /\ op[c].stage = "answered"
           /\ UNCHANGED version /\ dispatch(c, [do |-> "meshed"])
  BY <1>1, <1>7 DEF Answered
<1> QED BY <1>3, <1>4, <1>5, <1>6, <1>7

(* What a block that is added means for the lists that are shown.          *)
LEMMA DispatchedShown ==
  ASSUME TypeOK, NEW c \in Clients, NEW b \in Block, dispatch(c, b)
  PROVE  /\ b.do \notin {"show", "meshed"} /\ WillShow(c)
            /\ UNCHANGED <<version, liveGroups, mesherState>> => WillShow(c)'
         /\ b.do = "show" /\ b.list = version'[c] => WillShow(c)'
         /\ \A v : /\ \A i \in 1..Len(blocks[c]) : Show(c, i) => blocks[c][i].list =< v
                   /\ b.do = "show" => b.list =< v
                   => \A i \in 1..Len(blocks'[c]) : Show(c, i)' => blocks'[c][i].list =< v
<1>1. PICK n \in Nat : /\ n = Len(blocks[c]) /\ Len(blocks'[c]) = n + 1
                       /\ \A i \in 1..n : blocks'[c][i] = blocks[c][i]
                       /\ blocks'[c][n + 1] = b
  BY Dispatched
<1>7. /\ 1..(n + 1) = (1..n) \cup {n + 1}
      /\ \A i \in 1..n : i < n + 1
  OBVIOUS
<1>8. Len(blocks'[c]) = n + 1
  BY <1>1
<1>2. /\ \A i : Show(c, i)' <=> Show(c, i) \/ (i = n + 1 /\ b.do = "show")
      /\ \A i \in 1..(n + 1) : i \in 1..n \/ i = n + 1
      /\ \A i \in 1..n : i \in 1..(n + 1) /\ i < n + 1
      /\ n + 1 \in 1..(n + 1)
  <2>1. \A i : Show(c, i)' <=> i \in 1..(n + 1) /\ blocks'[c][i].do = "show"
    BY <1>8 DEF Show
  <2>2. \A i : Show(c, i) <=> i \in 1..n /\ blocks[c][i].do = "show"
    BY <1>1 DEF Show
  <2>3. \A i : Show(c, i)' <=> Show(c, i) \/ (i = n + 1 /\ b.do = "show")
    BY <1>1, <1>7, <2>1, <2>2, Zenon
  <2> QED BY <1>7, <2>3
<1>3. ASSUME b.do \notin {"show", "meshed"}, WillShow(c),
             UNCHANGED <<version, liveGroups, mesherState>>
      PROVE  WillShow(c)'
  <2>1. \A i : Show(c, i)' <=> Show(c, i)
    BY <1>2, <1>3
  <2>2. \A i \in 1..(n + 1) : LastShow(c, i)' => i \in 1..n /\ LastShow(c, i)
    BY <1>1, <1>2, <2>1 DEF LastShow, Show
  <2>3. \A i \in 1..(n + 1) : LastShow(c, i)' => blocks'[c][i].list = version'[c]
    BY <1>1, <1>3, <2>2 DEF WillShow
  <2>4. ASSUME NEW i \in 1..(n + 1), blocks'[c][i].do = "meshed"
        PROVE  \E j \in 1..(n + 1) : j > i /\ Show(c, j)'
    <3>1. i \in 1..n /\ blocks[c][i].do = "meshed"
      BY <1>1, <1>2, <1>3, <2>4
    <3>2. PICK j \in 1..Len(blocks[c]) : j > i /\ Show(c, j)
      BY <1>1, <1>3, <3>1 DEF WillShow
    <3>3. j \in 1..(n + 1) /\ Show(c, j)'
      BY <1>1, <1>2, <2>1, <3>2
    <3> QED BY <3>2, <3>3
  <2>5. \/ \E i \in 1..(n + 1) : Show(c, i)'
        \/ liveGroups'[c] = version'[c] \/ mesherState'[c] # "Meshed"
    <3>1. \A i \in 1..Len(blocks[c]) : Show(c, i) => i \in 1..(n + 1) /\ Show(c, i)'
      BY <1>1, <1>2, <2>1
    <3> QED BY <1>3, <3>1 DEF WillShow
  <2> QED BY <1>8, <2>3, <2>4, <2>5 DEF WillShow
<1>4. ASSUME b.do = "show", b.list = version'[c]
      PROVE  WillShow(c)'
  <2>1. Show(c, n + 1)'
    BY <1>2, <1>4
  <2>2. \A i \in 1..(n + 1) : LastShow(c, i)' => i = n + 1
    BY <1>1, <1>2, <2>1 DEF LastShow
  <2>3. \A i \in 1..(n + 1) : LastShow(c, i)' => blocks'[c][i].list = version'[c]
    BY <1>1, <1>4, <2>2
  <2>4. ASSUME NEW i \in 1..(n + 1), blocks'[c][i].do = "meshed"
        PROVE  n + 1 > i
    BY <1>1, <1>2, <1>4, <2>4
  <2>5. \E i \in 1..(n + 1) : Show(c, i)'
    BY <1>2, <2>1
  <2>6. \A i \in 1..(n + 1) : blocks'[c][i].do = "meshed" =>
          \E j \in 1..(n + 1) : j > i /\ Show(c, j)'
    BY <1>2, <2>1, <2>4
  <2> QED BY <1>8, <2>3, <2>5, <2>6 DEF WillShow
<1>5. ASSUME NEW v, \A i \in 1..n : Show(c, i) => blocks[c][i].list =< v,
             b.do = "show" => b.list =< v,
             NEW i \in 1..(n + 1), Show(c, i)'
      PROVE  blocks'[c][i].list =< v
  BY <1>1, <1>2, <1>5 DEF Show
<1>6. \A v : /\ \A i \in 1..n : Show(c, i) => blocks[c][i].list =< v
             /\ b.do = "show" => b.list =< v
             => \A i \in 1..(n + 1) : Show(c, i)' => blocks'[c][i].list =< v
  BY <1>5
<1> QED BY <1>1, <1>3, <1>4, <1>6

(* Every position but the first has one before it.                         *)
LEMMA OneBefore ==
  ASSUME NEW n \in Nat, NEW i \in 1..n, NEW j \in 1..(n + 1), j > i + 1
  PROVE  j - 1 \in 1..n /\ j - 1 > i /\ (j - 1) + 1 = j
OBVIOUS

(* ... and one that is taken.                                              *)
LEMMA TakenShown ==
  ASSUME TypeOK, NEW c \in Clients, blocks[c] # <<>>,
         blocks' = [blocks EXCEPT ![c] = Tail(@)],
         version'[c] = version[c],
         Head(blocks[c]).do = "show" => liveGroups'[c] = Head(blocks[c]).list,
         Head(blocks[c]).do # "show" => liveGroups'[c] = liveGroups[c],
         mesherState'[c] = "Meshed"
            => mesherState[c] = "Meshed" \/ Head(blocks[c]).do = "meshed"
  PROVE  /\ WillShow(c) => WillShow(c)'
         /\ \A v : (\A i \in 1..Len(blocks[c]) : Show(c, i) => blocks[c][i].list =< v)
                   => \A i \in 1..Len(blocks'[c]) : Show(c, i)' => blocks'[c][i].list =< v
<1> DEFINE n == Len(blocks'[c])
           h == Head(blocks[c])
<1>1. /\ n \in Nat /\ Len(blocks[c]) = n + 1
      /\ \A i \in 1..n : blocks'[c][i] = blocks[c][i + 1]
      /\ h = blocks[c][1]
  <2> HIDE DEF n
  <2>1. /\ Len(blocks'[c]) = Len(blocks[c]) - 1 /\ Len(blocks'[c]) \in Nat
        /\ \A i \in 1..Len(blocks'[c]) : blocks'[c][i] = blocks[c][i + 1]
        /\ Head(blocks[c]) = blocks[c][1]
    BY BlockTaken, Zenon
  <2>2. Len(blocks[c]) \in Nat
    BY LenProperties DEF TypeOK
  <2> QED BY <2>1, <2>2 DEF n
<1>2. /\ \A i \in 1..n : i + 1 \in 1..(n + 1) /\ (Show(c, i)' <=> Show(c, i + 1))
      /\ \A i : Show(c, i) => i \in 1..(n + 1)
      /\ \A i : Show(c, i)' => i \in 1..n
      /\ Show(c, 1) <=> h.do = "show"
  <2> HIDE DEF n, h
  <2>1. 1 \in 1..(n + 1) /\ \A i \in 1..n : i + 1 \in 1..(n + 1)
    BY <1>1
  <2> QED BY <1>1, <2>1 DEF Show, n
<1> HIDE DEF n, h
<1>3. \A j \in 1..(n + 1) : j = 1 \/ (j - 1 \in 1..n /\ (j - 1) + 1 = j)
  BY <1>1
<1>4. ASSUME NEW v, \A i \in 1..(n + 1) : Show(c, i) => blocks[c][i].list =< v,
             NEW i \in 1..n, Show(c, i)'
      PROVE  blocks'[c][i].list =< v
  BY <1>1, <1>2, <1>4
<1>5. ASSUME WillShow(c) PROVE WillShow(c)'
  <2>1. /\ \A i \in 1..(n + 1) : LastShow(c, i) => blocks[c][i].list = version[c]
        /\ \A i \in 1..(n + 1) : blocks[c][i].do = "meshed" =>
              \E j \in 1..(n + 1) : j > i /\ Show(c, j)
        /\ \/ \E i \in 1..(n + 1) : Show(c, i)
           \/ liveGroups[c] = version[c] \/ mesherState[c] # "Meshed"
    BY <1>1, <1>5 DEF WillShow
  <2>2. ASSUME NEW i \in 1..n, LastShow(c, i)'
        PROVE  blocks'[c][i].list = version'[c]
    <3>1. Show(c, i + 1)
      BY <1>2, <2>2 DEF LastShow
    <3>2. ASSUME NEW j \in 1..(n + 1), Show(c, j) PROVE j =< i + 1
      <4>1. CASE j = 1
        BY <1>1, <4>1
      <4>2. CASE j - 1 \in 1..n /\ (j - 1) + 1 = j
        <5>1. Show(c, j - 1)'
          BY <1>2, <3>2, <4>2
        <5>2. j - 1 =< i
          BY <2>2, <4>2, <5>1 DEF LastShow, n
        <5> QED BY <1>1, <4>2, <5>2
      <4> QED BY <1>3, <4>1, <4>2
    <3>3. LastShow(c, i + 1) /\ i + 1 \in 1..(n + 1)
      BY <1>1, <1>2, <3>1, <3>2 DEF LastShow
    <3> QED BY <1>1, <2>1, <3>3
  <2>3. ASSUME NEW i \in 1..n, blocks'[c][i].do = "meshed"
        PROVE  \E j \in 1..n : j > i /\ Show(c, j)'
    <3>1. i + 1 \in 1..(n + 1) /\ blocks[c][i + 1].do = "meshed"
      BY <1>1, <1>2, <2>3
    <3>2. PICK j \in 1..(n + 1) : j > i + 1 /\ Show(c, j)
      BY <2>1, <3>1
    <3>3. j - 1 \in 1..n /\ j - 1 > i /\ (j - 1) + 1 = j
      BY <1>1, <3>2, OneBefore
    <3>4. Show(c, j - 1)' <=> Show(c, (j - 1) + 1)
      BY <1>2, <3>3
    <3> QED BY <3>2, <3>3, <3>4
  <2>4. \/ \E i \in 1..n : Show(c, i)'
        \/ liveGroups'[c] = version'[c] \/ mesherState'[c] # "Meshed"
    <3> SUFFICES ASSUME \A i \in 1..n : ~Show(c, i)', mesherState'[c] = "Meshed"
                 PROVE  liveGroups'[c] = version'[c]
      OBVIOUS
    <3>1. \A j : Show(c, j) => j = 1
      BY <1>2, <1>3
    <3>2. CASE h.do = "show"
      <4>1. Show(c, 1) /\ 1 \in 1..(n + 1) /\ blocks[c][1] = h
        BY <1>1, <1>2, <3>2
      <4>2. LastShow(c, 1)
        BY <3>1, <4>1 DEF LastShow
      <4> QED BY <2>1, <3>2, <4>1, <4>2 DEF h
    <3>3. CASE h.do # "show"
      <4>1. \A j : ~Show(c, j)
        BY <1>2, <3>1, <3>3
      <4>2. h.do # "meshed"
        <5>1. 1 \in 1..(n + 1) /\ blocks[c][1] = h
          BY <1>1
        <5> QED BY <2>1, <4>1, <5>1
      <4> QED BY <2>1, <3>3, <4>1, <4>2 DEF h
    <3> QED BY <3>2, <3>3
  <2> QED BY <2>2, <2>3, <2>4 DEF WillShow, n
<1>6. \A v : (\A i \in 1..(n + 1) : Show(c, i) => blocks[c][i].list =< v)
             => \A i \in 1..n : Show(c, i)' => blocks'[c][i].list =< v
  BY <1>4
<1> QED BY <1>1, <1>5, <1>6 DEF n

(* Only the server changes the list; it never says yes to a registration   *)
(* without.                                                                *)
LEMMA ServerShown ==
  ASSUME TypeOK, DBInv, TypeOK', DBInv', NEW c \in Clients, Regular(c), Shown(c),
         ServeRequest(c) \/ ServeUnregistration(c)
  PROVE  Shown(c)'
<1>0. c \in Users /\ snapShot.Version \in Nat
  BY ClientAssumption, DatabaseFacts
<1>1. CASE ServeRequest(c)
  <2>1. /\ op[c].req \in LateRequest /\ Command(c, op[c].req)
        /\ op[c].req.action # "user_heartbeat"
        /\ UNCHANGED <<blocks, version, mesherState, liveGroups>>
    BY <1>1, ServedRequest DEF ServeRequest
  <2>2. /\ reply' \in DB!Replies
        /\ snapShot' = snapShot \/ snapShot'.Version > snapShot.Version
        /\ op[c].req.action = "user_new" /\ reply' = "ok"
              => snapShot'.Version > snapShot.Version
    BY <1>0, <2>1, CommandEffect
  <2>3. /\ op'[c].got = op[c].got /\ op'[c].reply = reply' /\ op'[c].req = op[c].req
    BY <1>1, <2>2, OpAnswered DEF ServeRequest, OpIs
  <2>4. CASE snapShot'.Version > snapShot.Version
    BY <2>1, <2>3, <2>4, NewerShown
  <2>5. CASE snapShot' = snapShot /\ ~(snapShot'.Version > snapShot.Version)
    <3>1. ~Answered(c)'
      BY <2>2, <2>3, <2>5 DEF Answered
    <3> QED BY <1>0, <2>1, <2>3, <2>5, <3>1, SameShown
  <2> QED BY <2>2, <2>4, <2>5
<1>2. CASE ServeUnregistration(c)
  <2>1. /\ UNCHANGED <<blocks, version, op>> /\ mesherState'[c] = "Unmeshed"
    BY <1>2 DEF ServeUnregistration, Stopped, TypeOK
  <2>2. snapShot' = snapShot \/ snapShot'.Version > snapShot.Version
    BY <1>0, <1>2, RequestFacts, CommandEffect DEF ServeUnregistration
  <2>3. Answered(c)' => Answered(c)
    BY <2>1 DEF Answered
  <2>4. CASE snapShot'.Version > snapShot.Version
    BY <2>1, <2>4, NewerShown
  <2>5. CASE snapShot' = snapShot
    BY <1>0, <2>1, <2>3, <2>5, SameShown
  <2> QED BY <2>2, <2>4, <2>5
<1> QED BY <1>1, <1>2

(* The callback stores a version and leaves the list to the main thread.   *)
LEMMA CallbackShown ==
  ASSUME TypeOK, DBInv, NEW c \in Clients, Shown(c), requestCallback(c)
  PROVE  Shown(c)'
<1>1. /\ snapShot.Version \in Nat /\ snapShot' = snapShot /\ (ShowsGroup' <=> ShowsGroup)
      /\ UNCHANGED <<mesherState, liveGroups>>
  BY DatabaseFacts DEF requestCallback, dbVars, ShowsGroup
<1>2. /\ op'[c] = NoOp /\ op'[c].got = 0 /\ op'[c].stage = "none"
      /\ op[c].stage = "answered" /\ op[c].got \in Nat
  BY CallbackOutcome, NoOpFacts DEF TypeOK, Op
<1>3. ~Answered(c)'
  BY <1>2 DEF Answered
<1>4. \A i \in 1..Len(blocks[c]) : Show(c, i) => blocks[c][i].list =< snapShot.Version
  BY DEF Shown, NotNewer
<1>5. ASSUME NEW b \in Block, dispatch(c, b), UNCHANGED version, b.do # "show",
             b.do = "meshed" => Answered(c)
      PROVE  Shown(c)'
  <2>1. version[c] =< snapShot.Version /\ version'[c] = version[c]
    BY <1>5 DEF Shown, NotNewer
  <2>2. \A i \in 1..Len(blocks'[c]) : Show(c, i)' => blocks'[c][i].list =< snapShot.Version
    BY <1>4, <1>5, DispatchedShown
  <2>3. NotNewer(c)'
    BY <1>1, <1>2, <1>3, <2>1, <2>2 DEF NotNewer
  <2>4. version[c] = snapShot.Version => b.do # "meshed"
    BY <1>1, <1>5 DEF Shown, NotNewer
  <2>5. b.do # "meshed" /\ WillShow(c) => WillShow(c)'
    BY <1>1, <1>5, DispatchedShown
  <2> QED BY <1>1, <1>5, <2>3, <2>4, <2>5 DEF Shown
<1>6. ASSUME NEW b \in Block, dispatch(c, b), b.do = "show", b.list = op[c].got,
             version'[c] = op[c].got
      PROVE  Shown(c)'
  <2>1. op[c].got =< snapShot.Version
    BY DEF Shown, NotNewer
  <2>2. \A i \in 1..Len(blocks'[c]) : Show(c, i)' => blocks'[c][i].list =< snapShot.Version
    BY <1>4, <1>6, <2>1, DispatchedShown
  <2>3. NotNewer(c)'
    BY <1>1, <1>2, <1>3, <1>6, <2>1, <2>2 DEF NotNewer
  <2>4. WillShow(c)'
    BY <1>6, DispatchedShown
  <2> QED BY <2>3, <2>4 DEF Shown
<1>7. ASSUME op[c].req.action = "user_heartbeat", op[c].reply # "error",
             version'[c] = op[c].got, ~op[c].groups, UNCHANGED blocks
      PROVE  Shown(c)'
  <2>1. /\ op[c].got =< snapShot.Version
        /\ op[c].got = snapShot.Version => ~ShowsGroup
    BY <1>2, <1>7 DEF Shown, NotNewer
  <2>2. \A i \in 1..Len(blocks'[c]) : Show(c, i)' => blocks'[c][i].list =< snapShot.Version
    BY <1>4, <1>7 DEF Show
  <2>3. NotNewer(c)'
    BY <1>1, <1>2, <1>3, <1>7, <2>1, <2>2 DEF NotNewer
  <2> QED BY <1>1, <1>7, <2>1, <2>3 DEF Shown
<1>8. CASE UNCHANGED <<version, blocks>>
  BY <1>1, <1>2, <1>3, <1>8, SameShown
<1> QED BY <1>5, <1>6, <1>7, <1>8, CallbackList

(* A client keeps what it has to show.                                     *)
LEMMA OwnShown ==
  ASSUME TypeOK, DBInv, TypeOK', DBInv', NEW c \in Clients, Regular(c), Shown(c),
         OwnStep(c)
  PROVE  Shown(c)'
<1>0. snapShot.Version \in Nat /\ OpStage(c)
  BY DatabaseFacts DEF Regular
<1>1. CASE ServeRequest(c) \/ ServeUnregistration(c)
  BY <1>1, ServerShown
<1>2. CASE requestCallback(c)
  BY <1>2, CallbackShown
<1>3. snapShot' = snapShot \/ ServeRequest(c) \/ ServeUnregistration(c)
  BY <1>0, OwnIndex
<1>4. ASSUME snapShot' = snapShot,
             UNCHANGED <<blocks, version>>,
             op'[c].got \in {op[c].got, 0},
             op'[c].stage = op[c].stage \/ op'[c].stage \in {"sent", "executing"}
               \/ op'[c].reply = "error",
             op'[c].stage = op[c].stage =>
               /\ op'[c].req = op[c].req /\ op'[c].got = op[c].got
               /\ op'[c].groups = op[c].groups,
             op'[c].stage = op[c].stage => op'[c].reply \in {op[c].reply, "error"},
             mesherState'[c] = "Meshed" =>
                mesherState[c] = "Meshed" /\ liveGroups'[c] = liveGroups[c]
      PROVE  Shown(c)'
  <2>1. Answered(c)' => Answered(c)
    BY <1>4 DEF Answered
  <2> QED BY <1>0, <1>4, <2>1, SameShown
<1>5. CASE StartRequest(c)
  <2>1. op'[c].stage = "sent" /\ op'[c].got = 0 /\ op[c].stage = "none"
    BY <1>5, OpStarted, NoOpFacts DEF StartRequest, OpIs
  <2>2. snapShot' = snapShot /\ UNCHANGED <<blocks, version, mesherState, liveGroups>>
    BY <1>5 DEF StartRequest, dbVars
  <2> QED BY <1>4, <2>1, <2>2
<1>6. CASE CancelAll(c)
  <2>1. /\ op'[c].req = op[c].req /\ op'[c].stage = op[c].stage
        /\ op'[c].reply = op[c].reply /\ op'[c].got = op[c].got
        /\ op'[c].groups = op[c].groups
    BY <1>6, OpCancelled DEF OpIs
  <2>2. snapShot' = snapShot /\ UNCHANGED <<blocks, version, mesherState, liveGroups>>
    BY <1>6 DEF CancelAll, dbVars
  <2> QED BY <1>4, <2>1, <2>2
<1>7. CASE RunBlock(c)
  <2> DEFINE h == Head(blocks[c])
  <2>1. /\ blocks[c] # <<>> /\ blocks' = [blocks EXCEPT ![c] = Tail(@)]
        /\ UNCHANGED <<version, op>> /\ snapShot' = snapShot
        /\ h.do = "show" => liveGroups'[c] = h.list
        /\ h.do # "show" => liveGroups'[c] = liveGroups[c]
        /\ mesherState'[c] = "Meshed" => mesherState[c] = "Meshed" \/ h.do = "meshed"
    BY <1>7 DEF RunBlock, dbVars, TypeOK
  <2>2. /\ WillShow(c) => WillShow(c)'
        /\ \A v : (\A i \in 1..Len(blocks[c]) : Show(c, i) => blocks[c][i].list =< v)
                => \A i \in 1..Len(blocks'[c]) : Show(c, i)' => blocks'[c][i].list =< v
    BY <2>1, TakenShown
  <2> HIDE DEF h
  <2>3. NotNewer(c)'
    <3>1. \A i \in 1..Len(blocks'[c]) : Show(c, i)' => blocks'[c][i].list =< snapShot.Version
      BY <2>2 DEF Shown, NotNewer
    <3>2. ShowsGroup' <=> ShowsGroup
      BY <2>1 DEF ShowsGroup
    <3> QED BY <2>1, <3>1, <3>2 DEF Shown, NotNewer, Answered
  <2>4. ShowsGroup' <=> ShowsGroup
    BY <2>1 DEF ShowsGroup
  <2> QED BY <2>1, <2>2, <2>3, <2>4 DEF Shown
<1>8. CASE User(c) \/ JoinLocalGroup(c) \/ Beat(c)
  <2>1. UNCHANGED <<op, blocks, version, liveGroups>>
    BY <1>8 DEF User, JoinLocalGroup, Beat, goOnline, goOffline, stopMesher,
                startMesher, Edit, SendBeat, didReceiveData
  <2>2. mesherState'[c] = "Meshed" => mesherState[c] = "Meshed"
    BY <1>8 DEF User, JoinLocalGroup, Beat, goOnline, goOffline, stopMesher,
                startMesher, Edit, SendBeat, didReceiveData, TypeOK
  <2>3. snapShot' = snapShot
    BY <1>3, <1>8 DEF User, JoinLocalGroup, Beat, goOnline, goOffline, stopMesher,
                startMesher, Edit, SendBeat, didReceiveData, dbVars,
                DB!UserHeartbeat, DB!dbVars
  <2> QED BY <1>4, <2>1, <2>2, <2>3
<1>9. CASE ServeListRequest(c)
  <2>1. op'[c].stage = "executing" /\ op'[c].got = op[c].got /\ op[c].stage = "sent"
    BY <1>9, OpMoved DEF ServeListRequest, OpIs
  <2>2. snapShot' = snapShot /\ UNCHANGED <<blocks, version, mesherState, liveGroups>>
    BY <1>9 DEF ServeListRequest, DB!UserHeartbeat, DB!dbVars
  <2> QED BY <1>4, <2>1, <2>2
<1>10. CASE ReadList(c)
  <2>1. /\ op'[c].req = op[c].req /\ op'[c].got = snapShot.Version
        /\ op'[c].groups = ShowsGroup
    BY <1>0, <1>10, OpRead DEF OpIs
  <2>2. op[c].req.action = "user_heartbeat"
    BY <1>0, <1>10 DEF ReadList, OpStage
  <2>3. snapShot' = snapShot /\ UNCHANGED <<blocks, version, mesherState, liveGroups>>
    BY <1>10 DEF ReadList, dbVars
  <2>4. ShowsGroup' <=> ShowsGroup
    BY <2>3 DEF ShowsGroup
  <2>5. ~Answered(c)'
    BY <2>1, <2>2 DEF Answered
  <2>6. NotNewer(c)'
    <3>1. op'[c].got =< snapShot'.Version /\ version'[c] =< snapShot'.Version
      BY <1>0, <2>1, <2>3 DEF Shown, NotNewer
    <3>2. op'[c].groups <=> ShowsGroup'
      BY <2>1, <2>4
    <3>3. \A i \in 1..Len(blocks'[c]) : Show(c, i)' => blocks'[c][i].list =< snapShot'.Version
      BY <2>3 DEF Shown, NotNewer, Show
    <3> QED BY <2>5, <3>1, <3>2, <3>3 DEF NotNewer
  <2>7. WillShow(c) => WillShow(c)'
    BY <2>3 DEF WillShow, LastShow, Show
  <2> QED BY <2>3, <2>4, <2>6, <2>7 DEF Shown
<1>11. CASE LoseRequest(c) \/ TimeOutRequest(c)
  <2>1. /\ op'[c].reply = "error" /\ op'[c].got = op[c].got
        /\ op'[c].req = op[c].req /\ op'[c].groups = op[c].groups
    BY <1>11, OpAnswered DEF LoseRequest, TimeOutRequest, OpIs
  <2>2. snapShot' = snapShot /\ UNCHANGED <<blocks, version, mesherState, liveGroups>>
    BY <1>11 DEF LoseRequest, TimeOutRequest, dbVars
  <2> QED BY <1>4, <2>1, <2>2
<1>12. CASE LoseUnregistration(c)
  <2>1. /\ UNCHANGED <<op, blocks, version>> /\ mesherState'[c] = "Unmeshed"
        /\ snapShot' = snapShot
    BY <1>12 DEF LoseUnregistration, Stopped, dbVars, TypeOK
  <2> QED BY <1>4, <2>1
<1> QED BY <1>1, <1>2, <1>5, <1>6, <1>7, <1>8, <1>9, <1>10, <1>11, <1>12
        DEF OwnStep, Main, Queue, Server, Network

(* What a step that is not its own leaves of what a client has to show.    *)
LEMMA OthersShown ==
  ASSUME ClientInv, ClientInv', NEW d \in Clients, Shown(d),
         UNCHANGED vars \/ PeerAsks \/ ServeLate \/ Sweep \/ FinishHeartbeat \/ ClockTick
           \/ \E c \in Clients \ {d} : OwnStep(c)
  PROVE  Shown(d)'
<1>0. /\ TypeOK /\ DBInv /\ Serving /\ LateKnown /\ TypeOK' /\ DBInv'
      /\ \A c \in Clients : Regular(c) /\ OpStage(c)
      /\ snapShot.Version \in Nat
  BY DatabaseFacts DEF ClientInv, Regular
<1>1. ASSUME Same(d), NEW u, Removed(u) PROVE Shown(d)'
  BY <1>0, <1>1, LeftShown DEF Removed
<1>2. CASE PeerAsks
  BY <1>0, <1>1, <1>2, PeerEffect
<1>3. CASE ServeLate
  BY <1>0, <1>1, <1>3, LateEffect
<1>4. CASE Sweep
  BY <1>0, <1>1, <1>4, SweptEffect
<1>5. CASE FinishHeartbeat
  <2>1. /\ snapShot' = snapShot \/ snapShot'.Version > snapShot.Version
        /\ UNCHANGED <<mesherState, blocks, version, liveGroups>>
        /\ \/ op'[d] = op[d]
           \/ /\ OpIs(d, op[d].req, "read", op[d].cancelled, op[d].reply)
              /\ op'[d].got = op[d].got
    BY <1>0, <1>5, FinishEffect DEF Same
  <2>2. CASE snapShot'.Version > snapShot.Version
    BY <1>0, <2>1, <2>2, NewerShown
  <2>3. CASE snapShot' = snapShot
    <3>1. op'[d] = op[d] \/ (op'[d].stage = "read" /\ op'[d].got = op[d].got)
      BY <2>1 DEF OpIs
    <3>2. Answered(d)' => Answered(d)
      BY <3>1 DEF Answered
    <3> QED BY <1>0, <2>1, <2>3, <3>1, <3>2, SameShown
  <2> QED BY <2>1, <2>2, <2>3
<1>6. CASE ClockTick
  BY <1>0, <1>6, TickEffect, LeftShown
<1>7. CASE UNCHANGED vars
  <2>1. snapShot' = snapShot /\ Same(d)
    BY <1>7 DEF vars, dbVars, clientVars, Same
  <2> QED BY <1>0, <2>1, LeftShown
<1>8. ASSUME NEW c \in Clients \ {d}, OwnStep(c)
      PROVE  Shown(d)'
  <2>1. Same(d) /\ Removed(c)
    BY <1>0, <1>8, OwnTypes, OwnIndex DEF OthersSame
  <2> QED BY <1>1, <2>1
<1> QED BY <1>2, <1>3, <1>4, <1>5, <1>6, <1>7, <1>8

(* A client that would not ask any more shows the server's list: the last  *)
(* list that its main thread still has to show is the one whose version    *)
(* the thread of the queue stored.                                         *)
THEOREM KnownListShown == Spec => []KnownListIsShown
<1>1. Init => ShownInv
  <2> SUFFICES ASSUME Init PROVE ShownInv
    OBVIOUS
  <2>1. ClientInv /\ snapShot.Version \in Nat
    BY ClientInit, DatabaseFacts DEF ClientInv
  <2>2. ASSUME NEW c \in Clients PROVE Shown(c)
    <3>1. /\ op[c] = NoOp /\ blocks[c] = <<>> /\ version[c] = 0
          /\ mesherState[c] = "Unmeshed"
      BY DEF Init
    <3>2. NotNewer(c)
      BY <2>1, <3>1, NoOpFacts DEF NotNewer, Show, Answered
    <3>3. WillShow(c)
      BY <3>1 DEF WillShow
    <3> QED BY <3>2, <3>3 DEF Shown
  <2> QED BY <2>1, <2>2 DEF ShownInv
<1>2. ShownInv /\ [Next]_vars => ShownInv'
  <2> SUFFICES ASSUME ShownInv, [Next]_vars, NEW d \in Clients PROVE Shown(d)'
    BY ClientStep DEF ShownInv
  <2>1. ClientInv /\ ClientInv' /\ Shown(d)
    BY ClientStep DEF ShownInv
  <2>2. CASE OwnStep(d)
    BY <2>1, <2>2, OwnShown DEF ClientInv
  <2>3. CASE ~OwnStep(d)
    BY <2>1, <2>3, OthersShown, StepCases
  <2> QED BY <2>2, <2>3
<1>3. ShownInv => KnownListIsShown
  <2> SUFFICES ASSUME ShownInv, NEW c \in Clients, mesherState[c] = "Meshed",
                      AtRest(c), version[c] = snapShot.Version, ShowsGroup
               PROVE  liveGroups[c] = version[c]
    BY DEF KnownListIsShown, ShowsGroup
  <2>1. WillShow(c) /\ blocks[c] = <<>>
    BY DEF ShownInv, Shown, AtRest
  <2> QED BY <2>1 DEF WillShow, Show
<1> QED BY <1>1, <1>2, <1>3, PTL DEF Spec
-----------------------------------------------------------------------------
(***************************************************************************)
(* A registration that nothing hinders comes to its end.                   *)
(***************************************************************************)
Among(r, q) == \E i \in 1..Len(q) : q[i] = r

OnlyRegisters(c) == \A i \in 1..Len(queue[c]) : queue[c][i].action \in Registers
GroupWaits(c) == \E i \in 1..Len(queue[c]) : queue[c][i].action = "group_new"

(* While a client is off, or goes online, nothing of an earlier session    *)
(* can get between the two requests of the registration: no heartbeat asks *)
(* for a list, and a cancelled request is over before the first of the     *)
(* two is sent.                                                            *)
Quiet(c) ==
  "stopped" \notin trouble[c] =>
     /\ mesherState[c] \in {"Unmeshed", "Meshing"} \/ main[c] = "unregister"
          => beat[c] = "off"
     /\ mesherState[c] = "Unmeshed" \/ main[c] = "unregister" => queue[c] = <<>>
     /\ mesherState[c] = "Meshing" =>
          OnlyRegisters(c) /\ (op[c] # NoOp /\ NoneRuns(c) => GroupWaits(c))

(* Where the registration is: each line leads to the next, as long as the  *)
(* group is there that the first request registered.                       *)
GroupThere(c) == groupId[c] \in groupIndex

Runs(c, r, stage) ==
  /\ op[c].req = r /\ op[c].stage = stage /\ ~op[c].cancelled
  /\ stage = "answered" => op[c].reply \in {"ok", "exists"}

Progress(c) ==
  \/ Among(registerGroup(c), queue[c])
  \/ Runs(c, registerGroup(c), "sent")
  \/ /\ GroupThere(c)
     /\ \/ Runs(c, registerGroup(c), "answered")
        \/ HasBlock(c, "registerSelf")
        \/ Among(registerSelf(c), queue[c])
        \/ Runs(c, registerSelf(c), "sent")
  \/ Answered(c) /\ ~op[c].cancelled
  \/ HasBlock(c, "meshed")

Hindered(c) == trouble[c] \cap (Blame \cup {"peerLeft"}) # {}

Progresses(c) == mesherState[c] = "Meshing" /\ ~Hindered(c) => Progress(c)

ProgressInv ==
  RegisteredInv /\ \A c \in Clients : Quiet(c) /\ Progresses(c)

(* What is added is there, and what is not taken stays.                    *)
LEMMA AmongFacts ==
  ASSUME NEW S, NEW q \in Seq(S), NEW r
  PROVE  /\ \A x \in S : Among(r, q) \/ x = r => Among(r, Append(q, x))
         /\ q # <<>> /\ Among(r, q) => Head(q) = r \/ Among(r, Tail(q))
<1>1. ASSUME NEW x \in S, Among(r, q) \/ x = r PROVE Among(r, Append(q, x))
  <2>1. /\ Len(q) \in Nat /\ Len(Append(q, x)) = Len(q) + 1
        /\ \A i \in 1..Len(q) : Append(q, x)[i] = q[i]
        /\ Append(q, x)[Len(q) + 1] = x
    BY AppendProperties, LenProperties
  <2>2. 1..Len(q) \subseteq 1..(Len(q) + 1) /\ Len(q) + 1 \in 1..(Len(q) + 1)
    BY <2>1
  <2> QED BY <1>1, <2>1, <2>2 DEF Among
<1>2. ASSUME q # <<>>, Among(r, q), Head(q) # r PROVE Among(r, Tail(q))
  <2>1. /\ Len(q) \in Nat /\ Len(Tail(q)) = Len(q) - 1 /\ Head(q) = q[1]
        /\ \A i \in 1..Len(Tail(q)) : Tail(q)[i] = q[i + 1]
    BY <1>2, HeadTailProperties, LenProperties
  <2>2. PICK i \in 1..Len(q) : q[i] = r
    BY <1>2 DEF Among
  <2>3. i # 1 /\ i - 1 \in 1..Len(Tail(q)) /\ (i - 1) + 1 = i
    BY <1>2, <2>1, <2>2
  <2>4. Tail(q)[i - 1] = r
    BY <2>1, <2>2, <2>3
  <2> QED BY <2>3, <2>4 DEF Among
<1> QED BY <1>1, <1>2

(* A block that is not taken stays, and one that is dispatched is there.   *)
LEMMA BlockStays ==
  ASSUME TypeOK, NEW c \in Clients, NEW what
  PROVE  /\ \A b \in Block : dispatch(c, b) =>
              (b.do = what \/ HasBlock(c, what) => HasBlock(c, what)')
         /\ blocks[c] # <<>> /\ blocks' = [blocks EXCEPT ![c] = Tail(@)] =>
              (HasBlock(c, what) => Head(blocks[c]).do = what \/ HasBlock(c, what)')
<1>1. ASSUME NEW b \in Block, dispatch(c, b), b.do = what \/ HasBlock(c, what)
      PROVE  HasBlock(c, what)'
  <2>1. /\ Len(blocks[c]) \in Nat /\ Len(blocks'[c]) = Len(blocks[c]) + 1
        /\ \A i \in 1..Len(blocks[c]) : blocks'[c][i] = blocks[c][i]
        /\ blocks'[c][Len(blocks[c]) + 1] = b
    BY <1>1, Dispatched
  <2>2. /\ 1..Len(blocks[c]) \subseteq 1..Len(blocks'[c])
        /\ Len(blocks[c]) + 1 \in 1..Len(blocks'[c])
    BY <2>1
  <2> QED BY <1>1, <2>1, <2>2 DEF HasBlock
<1>2. ASSUME blocks[c] # <<>>, blocks' = [blocks EXCEPT ![c] = Tail(@)],
             HasBlock(c, what), Head(blocks[c]).do # what
      PROVE  HasBlock(c, what)'
  <2>1. /\ Len(blocks'[c]) = Len(blocks[c]) - 1 /\ Len(blocks'[c]) \in Nat
        /\ \A i \in 1..Len(blocks'[c]) : blocks'[c][i] = blocks[c][i + 1]
        /\ Head(blocks[c]) = blocks[c][1]
    BY <1>2, BlockTaken, Zenon
  <2>2. PICK i \in 1..Len(blocks[c]) : blocks[c][i].do = what
    BY <1>2 DEF HasBlock
  <2>3. Len(blocks[c]) \in Nat
    BY LenProperties DEF TypeOK
  <2>4. i # 1 /\ i - 1 \in 1..Len(blocks'[c]) /\ (i - 1) + 1 = i
    BY <1>2, <2>1, <2>2, <2>3
  <2>5. blocks'[c][i - 1].do = what
    BY <2>1, <2>2, <2>4
  <2> QED BY <2>4, <2>5 DEF HasBlock
<1> QED BY <1>1, <1>2

(* The next request, and the blocks, are those of the registration only.   *)
LEMMA QuietFacts ==
  ASSUME TypeOK, NEW c \in Clients, Regular(c), Quiet(c), ~Hindered(c),
         mesherState[c] = "Meshing"
  PROVE  /\ OneRegistration(c) /\ OnlyRegisters(c) /\ beat[c] = "off"
         /\ main[c] = "ready" /\ "stopped" \notin trouble[c]
         /\ \A what \in Continues : HasBlock(c, what) => op[c] = NoOp /\ NoneWaits(c)
         /\ \A i \in 1..Len(queue[c]) : queue[c][i].action = "user_new"
               => op[c] = NoOp /\ NoneGoesOn(c)
         /\ Among(registerSelf(c), queue[c]) => op[c] = NoOp /\ NoneGoesOn(c)
         /\ Among(registerGroup(c), queue[c]) => NoneRuns(c) /\ NoneGoesOn(c)
<1>1. /\ OneRegistration(c) /\ OnlyRegisters(c) /\ beat[c] = "off"
      /\ main[c] = "ready" /\ "stopped" \notin trouble[c]
      /\ op[c] # NoOp /\ NoneRuns(c) => GroupWaits(c)
  BY DEF Regular, MainState, Orderly, Quiet, Hindered, Blame, TypeOK
<1>2. GroupWaits(c) => ~NoneWaits(c)
  BY DEF GroupWaits, NoneWaits, Registers
<1>3. ASSUME NEW what \in Continues, HasBlock(c, what)
      PROVE  op[c] = NoOp /\ NoneWaits(c)
  <2>1. ~NoneGoesOn(c)
    BY <1>3 DEF NoneGoesOn, HasBlock
  <2> QED BY <1>1, <1>2, <2>1 DEF OneRegistration
<1>4. ASSUME NEW i \in 1..Len(queue[c]), queue[c][i].action = "user_new"
      PROVE  op[c] = NoOp /\ NoneGoesOn(c)
  <2>1. ~NoneWaits(c)
    BY <1>4 DEF NoneWaits, Registers
  <2>2. ~GroupWaits(c)
    <3> SUFFICES ASSUME GroupWaits(c) PROVE FALSE
      OBVIOUS
    <3>1. PICK j \in 1..Len(queue[c]) : queue[c][j].action = "group_new"
      BY DEF GroupWaits
    <3>2. i = j
      BY <1>1, <1>4, <3>1 DEF OneRegistration, OneWaits, Registers
    <3> QED BY <1>4, <3>1, <3>2
  <2> QED BY <1>1, <2>1, <2>2 DEF OneRegistration
<1>5. Among(registerSelf(c), queue[c]) => op[c] = NoOp /\ NoneGoesOn(c)
  BY <1>4, RequestFacts DEF Among
<1>6. Among(registerGroup(c), queue[c]) => ~NoneWaits(c)
  BY RequestFacts DEF Among, NoneWaits, Registers
<1> QED BY <1>1, <1>3, <1>4, <1>5, <1>6 DEF OneRegistration

(* Nothing disturbs a client that registers while its requests, blocks and *)
(* state stay.                                                             *)
LEMMA QuietKept ==
  ASSUME NEW c \in Clients, Quiet(c), OpStage(c),
         "stopped" \in trouble[c] => "stopped" \in trouble'[c],
         mesherState'[c] = mesherState[c], main'[c] = main[c],
         queue'[c] = queue[c],
         beat[c] = "off" => beat'[c] = "off",
         op'[c].req = op[c].req \/ op'[c] = NoOp,
         op'[c] # NoOp => op[c] # NoOp
  PROVE  Quiet(c)'
<1>1. /\ OnlyRegisters(c)' <=> OnlyRegisters(c)
      /\ GroupWaits(c)' <=> GroupWaits(c)
      /\ op'[c] # NoOp /\ NoneRuns(c)' => op[c] # NoOp /\ NoneRuns(c)
  BY DEF OnlyRegisters, GroupWaits, NoneRuns
<1> QED BY <1>1 DEF Quiet

(* ... which is what the steps of the server and the network do.           *)
LEMMA OwnQuiet ==
  ASSUME TypeOK, DBInv, NEW c \in Clients, Regular(c), Quiet(c), OwnStep(c)
  PROVE  Quiet(c)'
<1>1. /\ OpStage(c) /\ MainState(c) /\ Orderly(c)
      /\ "stopped" \in trouble[c] => "stopped" \in trouble'[c]
  BY OwnTrouble DEF Regular
<1>20. CASE "stopped" \in trouble[c]
  BY <1>1, <1>20 DEF Quiet
<1> SUFFICES ASSUME "stopped" \notin trouble[c] PROVE Quiet(c)'
  BY <1>20
<1>0. OneRegistration(c) /\ (mesherState[c] # "Meshing" => NoRegistration(c))
  BY <1>1 DEF Orderly
<1>2. CASE StartRequest(c)
  <2>1. /\ op[c] = NoOp /\ queue[c] # <<>> /\ queue' = [queue EXCEPT ![c] = Tail(@)]
        /\ UNCHANGED <<main, mesherState, beat, trouble>>
    BY <1>2 DEF StartRequest
  <2>2. op'[c].req = Head(queue[c])
    BY <1>2, OpStarted DEF OpIs
  <2>3. /\ Len(queue'[c]) \in Nat /\ Len(queue[c]) \in Nat
        /\ Len(queue'[c]) = Len(queue[c]) - 1 /\ Head(queue[c]) = queue[c][1]
        /\ \A i \in 1..Len(queue'[c]) : queue'[c][i] = queue[c][i + 1]
    <3>1. Len(queue[c]) \in Nat
      BY LenProperties DEF TypeOK
    <3> QED BY <2>1, <3>1, RequestTaken
  <2>4. 1 \in 1..Len(queue[c]) /\ \A i \in 1..Len(queue'[c]) : i + 1 \in 1..Len(queue[c])
    BY <2>3
  <2>5. OnlyRegisters(c) => OnlyRegisters(c)' /\ ~NoneRuns(c)'
    BY <2>2, <2>3, <2>4 DEF OnlyRegisters, NoneRuns
  <2> QED BY <2>1, <2>5 DEF Quiet
<1>3. CASE requestCallback(c)
  <2>1. op'[c] = NoOp /\ UNCHANGED <<main, mesherState, queue, beat, trouble>>
    BY <1>3, CallbackOutcome DEF requestCallback
  <2> QED BY <1>1, <2>1, QuietKept
<1>4. CASE RunBlock(c)
  <2> DEFINE b == Head(blocks[c])
  <2>1. /\ blocks[c] # <<>> /\ blocks' = [blocks EXCEPT ![c] = Tail(@)]
        /\ main[c] = "ready" /\ mesherState[c] # "Unmeshing"
        /\ UNCHANGED <<main, op, trouble>>
        /\ \/ b.do = "registerSelf" /\ addOperation(c, registerSelf(c))
              /\ UNCHANGED <<mesherState, beat>>
           \/ mesherState'[c] = "Meshed"
           \/ /\ b.do = "cannotMesh"
              /\ UNCHANGED queue \/ mesherState[c] = "Meshed"
              /\ UNCHANGED <<mesherState, beat>>
           \/ UNCHANGED <<queue, mesherState, beat>>
    BY <1>1, <1>4 DEF RunBlock, TypeOK, MainState
  <2>2. HasBlock(c, b.do)
    BY <2>1, BlockFacts
  <2>3. b.do \in Continues => ~NoneGoesOn(c)
    BY <2>2 DEF HasBlock, NoneGoesOn
  <2> HIDE DEF b
  <2>4. CASE mesherState'[c] = "Meshed"
    BY <2>1, <2>4 DEF Quiet
  <2>5. CASE UNCHANGED <<queue, mesherState, beat>>
    BY <1>1, <2>1, <2>5, QuietKept
  <2>6. CASE mesherState[c] = "Meshed" /\ UNCHANGED mesherState
    BY <2>1, <2>6 DEF Quiet
  <2>7. CASE b.do = "registerSelf" /\ addOperation(c, registerSelf(c))
             /\ UNCHANGED <<mesherState, beat>>
    <3>1. NoneWaits(c) /\ mesherState[c] = "Meshing"
      BY <1>0, <2>3, <2>7 DEF Continues, OneRegistration, NoRegistration
    <3>2. ~GroupWaits(c) /\ OnlyRegisters(c) /\ beat[c] = "off"
      BY <3>1 DEF GroupWaits, NoneWaits, Registers, Quiet
    <3>3. op[c] = NoOp \/ ~NoneRuns(c)
      BY <3>1, <3>2 DEF Quiet
    <3>4. op'[c] = NoOp \/ ~NoneRuns(c)'
      BY <2>1, <3>3 DEF NoneRuns
    <3>5. OnlyRegisters(c)'
      <4>1. /\ Len(queue[c]) \in Nat /\ Len(queue'[c]) = Len(queue[c]) + 1
            /\ \A i \in 1..Len(queue[c]) : queue'[c][i] = queue[c][i]
            /\ queue'[c][Len(queue[c]) + 1] = registerSelf(c)
            /\ registerSelf(c).action \in Registers
        BY <2>7, Queued, RequestFacts DEF Registers
      <4>2. \A i \in 1..Len(queue'[c]) :
               i \in 1..Len(queue[c]) \/ i = Len(queue[c]) + 1
        BY <4>1
      <4> QED BY <3>2, <4>1, <4>2, Zenon DEF OnlyRegisters
    <3> QED BY <2>1, <2>7, <3>1, <3>2, <3>4, <3>5 DEF Quiet
  <2> QED BY <2>1, <2>4, <2>5, <2>6, <2>7
<1>5. CASE goOnline(c)
  <2>1. /\ mesherState[c] = "Unmeshed" /\ mesherState'[c] = "Meshing"
        /\ main[c] = "ready" /\ UNCHANGED <<main, op, beat>>
        /\ addOperation(c, registerGroup(c))
    BY <1>5 DEF goOnline, TypeOK
  <2>2. queue[c] = <<>> /\ beat[c] = "off"
    BY <2>1 DEF Quiet
  <2>3. /\ Len(queue'[c]) = 1 /\ queue'[c][1] = registerGroup(c)
        /\ registerGroup(c).action = "group_new"
    <3>1. registerGroup(c) \in Request /\ registerGroup(c).action = "group_new"
      BY RequestFacts
    <3>2. /\ Len(queue'[c]) = Len(queue[c]) + 1
          /\ queue'[c][Len(queue[c]) + 1] = registerGroup(c)
      BY <2>1, <3>1, Queued
    <3>3. Len(queue[c]) = 0
      BY <2>2
    <3> QED BY <3>1, <3>2, <3>3
  <2>4. OnlyRegisters(c)' /\ GroupWaits(c)'
    BY <2>3 DEF OnlyRegisters, GroupWaits, Registers
  <2> QED BY <2>1, <2>2, <2>4 DEF Quiet
<1>6. CASE goOffline(c) \/ stopMesher(c)
  <2>1. mesherState'[c] = "Unmeshing" /\ main'[c] = "cancel"
    BY <1>6 DEF goOffline, stopMesher, TypeOK
  <2> QED BY <2>1 DEF Quiet
<1>7. CASE CancelAll(c)
  <2>1. /\ beat'[c] = "off" /\ queue'[c] = <<>> /\ UNCHANGED mesherState
        /\ mesherState[c] = "Unmeshing"
    BY <1>1, <1>7 DEF CancelAll, TypeOK, MainState
  <2> QED BY <2>1 DEF Quiet
<1>8. CASE Edit(c)
  <2>1. mesherState[c] = "Meshed" /\ main[c] = "ready" /\ UNCHANGED <<mesherState, main>>
    BY <1>8 DEF Edit
  <2> QED BY <2>1 DEF Quiet
<1>9. CASE startMesher(c) \/ JoinLocalGroup(c)
  BY <1>1, <1>9, QuietKept DEF startMesher, JoinLocalGroup
<1>10. CASE Beat(c)
  <2>1. beat[c] # "off" /\ UNCHANGED <<mesherState, main>>
    BY <1>10 DEF Beat, SendBeat, didReceiveData
  <2> QED BY <2>1 DEF Quiet
<1>11. CASE ServeUnregistration(c) \/ LoseUnregistration(c)
  <2>1. /\ main[c] = "unregister" /\ mesherState'[c] = "Unmeshed"
        /\ UNCHANGED <<beat, queue>>
    BY <1>11 DEF ServeUnregistration, LoseUnregistration, Stopped, TypeOK
  <2> QED BY <2>1 DEF Quiet
<1>12. ASSUME UNCHANGED <<mesherState, main, queue, beat>>, op'[c].req = op[c].req,
              op[c] # NoOp
       PROVE  Quiet(c)'
  BY <1>1, <1>12, QuietKept
<1>13. NoOp.stage = "none"
  BY NoOpFacts
<1>14. CASE ServeRequest(c)
  <2>1. reply' \in DB!Replies
    BY <1>14, ServedRequest, CommandEffect, ClientAssumption DEF ServeRequest
  <2>2. op'[c].req = op[c].req
    BY <1>14, <2>1, OpAnswered DEF ServeRequest, OpIs
  <2> QED BY <1>12, <1>13, <1>14, <2>2 DEF ServeRequest
<1>15. CASE ServeListRequest(c)
  <2>1. op'[c].req = op[c].req
    BY <1>15, OpMoved DEF ServeListRequest, OpIs
  <2> QED BY <1>12, <1>13, <1>15, <2>1 DEF ServeListRequest
<1>16. CASE ReadList(c)
  <2>1. op'[c].req = op[c].req
    BY <1>16, OpRead, DatabaseFacts DEF OpIs
  <2>2. UNCHANGED <<mesherState, main, queue, beat>> /\ op[c] # NoOp
    BY <1>13, <1>16 DEF ReadList
  <2> QED BY <1>12, <2>1, <2>2
<1>17. CASE LoseRequest(c) \/ TimeOutRequest(c)
  <2>1. op'[c].req = op[c].req
    BY <1>17, OpAnswered DEF LoseRequest, TimeOutRequest, OpIs
  <2> QED BY <1>12, <1>13, <1>17, <2>1 DEF LoseRequest, TimeOutRequest
<1> QED BY <1>2, <1>3, <1>4, <1>5, <1>6, <1>7, <1>8, <1>9, <1>10, <1>11, <1>14,
           <1>15, <1>16, <1>17
        DEF OwnStep, User, Main, Queue, Server, Network

(* A registration is as far as it was when nothing of it is touched.       *)
LEMMA ProgressKept ==
  ASSUME NEW c \in Clients, Progress(c), groupId'[c] = groupId[c],
         queue'[c] = queue[c], blocks'[c] = blocks[c],
         op'[c] = op[c] \/ (NoneRuns(c) /\ op'[c].req = op[c].req),
         GroupThere(c) => \/ GroupThere(c)'
                          \/ Answered(c) /\ ~op[c].cancelled
                          \/ HasBlock(c, "meshed")
  PROVE  Progress(c)'
<1>1. /\ registerGroup(c)' = registerGroup(c) /\ registerSelf(c)' = registerSelf(c)
      /\ registerGroup(c).action = "group_new" /\ registerSelf(c).action = "user_new"
  BY DEF registerGroup, registerSelf
<1>2. HasBlock(c, "registerSelf")' <=> HasBlock(c, "registerSelf")
  BY DEF HasBlock
<1>3. HasBlock(c, "meshed")' <=> HasBlock(c, "meshed")
  BY DEF HasBlock
<1>4. CASE op'[c] = op[c]
  BY <1>1, <1>2, <1>3, <1>4 DEF Progress, Runs, Answered
<1>5. CASE NoneRuns(c)
  <2>1. ~Answered(c) /\ op[c].req # registerGroup(c) /\ op[c].req # registerSelf(c)
    BY <1>1, <1>5 DEF NoneRuns, Registers, Answered
  <2> QED BY <1>1, <1>2, <1>3, <2>1 DEF Progress, Runs
<1> QED BY <1>4, <1>5

(* The thread of the queue sends the next request, and its callback asks   *)
(* for the next block.                                                     *)
LEMMA QueueProgress ==
  ASSUME TypeOK, NEW c \in Clients, Regular(c), Quiet(c), ~Hindered(c),
         mesherState[c] = "Meshing", Progress(c), Queue(c)
  PROVE  Progress(c)'
<1>1. /\ UNCHANGED <<groupId, groupIndex>>
      /\ GroupThere(c)' <=> GroupThere(c)
      /\ registerGroup(c)' = registerGroup(c) /\ registerSelf(c)' = registerSelf(c)
  BY DEF Queue, StartRequest, requestCallback, dbVars, GroupThere, registerGroup,
         registerSelf
<1>2. queue[c] \in Seq(Request)
  BY DEF TypeOK
<1>3. CASE StartRequest(c)
  <2>1. /\ op[c] = NoOp /\ queue[c] # <<>> /\ queue'[c] = Tail(queue[c])
        /\ UNCHANGED blocks
    BY <1>3 DEF StartRequest, TypeOK
  <2>2. \A r : op'[c].req = r <=> Head(queue[c]) = r
    BY <1>3, OpStarted DEF OpIs
  <2>3. op'[c].stage = "sent" /\ ~op'[c].cancelled
    BY <1>3, OpStarted DEF OpIs
  <2>4. /\ ~Answered(c) /\ ~Runs(c, registerGroup(c), "sent")
        /\ ~Runs(c, registerGroup(c), "answered") /\ ~Runs(c, registerSelf(c), "sent")
    BY <2>1, NoOpFacts DEF Answered, Runs
  <2>5. \A r : Among(r, queue[c]) => Head(queue[c]) = r \/ Among(r, queue'[c])
    BY <1>2, <2>1, AmongFacts
  <2>6. /\ HasBlock(c, "registerSelf")' <=> HasBlock(c, "registerSelf")
        /\ HasBlock(c, "meshed")' <=> HasBlock(c, "meshed")
    BY <2>1 DEF HasBlock
  <2>7. ASSUME NEW r, Among(r, queue[c])
        PROVE  \/ op'[c].req = r /\ op'[c].stage = "sent" /\ ~op'[c].cancelled
               \/ Among(r, queue'[c])
    BY <2>2, <2>3, <2>5, <2>7
  <2>8. /\ Among(registerGroup(c), queue[c]) =>
             Runs(c, registerGroup(c), "sent")' \/ Among(registerGroup(c), queue[c])'
        /\ Among(registerSelf(c), queue[c]) =>
             Runs(c, registerSelf(c), "sent")' \/ Among(registerSelf(c), queue[c])'
    BY <1>1, <2>3, <2>7 DEF Runs
  <2> QED BY <1>1, <2>4, <2>6, <2>8 DEF Progress
<1>4. CASE requestCallback(c)
  <2>1. op[c].stage = "answered" /\ UNCHANGED queue
    BY <1>4 DEF requestCallback
  <2>2. \/ UNCHANGED blocks
        \/ \E b \in Block : dispatch(c, b)
    BY <1>4, CallbackOutcome
  <2>3. \A what : HasBlock(c, what) => HasBlock(c, what)'
    <3> SUFFICES ASSUME NEW what, HasBlock(c, what) PROVE HasBlock(c, what)'
      OBVIOUS
    <3>1. CASE UNCHANGED blocks
      BY <3>1 DEF HasBlock
    <3>2. ASSUME NEW b \in Block, dispatch(c, b) PROVE HasBlock(c, what)'
      BY <3>2, BlockStays
    <3> QED BY <2>2, <3>1, <3>2
  <2>4. ASSUME Runs(c, registerGroup(c), "answered") PROVE HasBlock(c, "registerSelf")'
    <3>1. dispatch(c, [do |-> "registerSelf"])
      BY <1>4, <2>4, RequestFacts DEF requestCallback, Runs, Registered
    <3>2. [do |-> "registerSelf"] \in Block
      BY DEF Block
    <3> QED BY <3>1, <3>2, BlockStays
  <2>5. ASSUME Answered(c), ~op[c].cancelled PROVE HasBlock(c, "meshed")'
    <3>1. dispatch(c, [do |-> "meshed"])
      BY <1>4, <2>5 DEF requestCallback, Answered, SelfRegistered
    <3>2. [do |-> "meshed"] \in Block
      BY DEF Block
    <3> QED BY <3>1, <3>2, BlockStays
  <2>6. /\ ~Runs(c, registerGroup(c), "sent") /\ ~Runs(c, registerSelf(c), "sent")
    BY <2>1 DEF Runs
  <2> QED BY <1>1, <2>1, <2>3, <2>4, <2>5, <2>6 DEF Progress
<1> QED BY <1>3, <1>4 DEF Queue

(* The main thread goes on with the block of the registration, and with    *)
(* others before it.                                                       *)
LEMMA BlockProgress ==
  ASSUME TypeOK, NEW c \in Clients, Regular(c), Quiet(c), ~Hindered(c),
         mesherState[c] = "Meshing", Progress(c), RunBlock(c),
         mesherState'[c] = "Meshing"
  PROVE  Progress(c)'
<1> DEFINE b == Head(blocks[c])
<1>1. /\ GroupThere(c)' <=> GroupThere(c)
      /\ registerGroup(c)' = registerGroup(c) /\ registerSelf(c)' = registerSelf(c)
      /\ \A r, stage : Runs(c, r, stage)' <=> Runs(c, r, stage)
      /\ Answered(c)' <=> Answered(c)
      /\ op'[c] = op[c]
  BY DEF RunBlock, dbVars, GroupThere, registerGroup, registerSelf, Runs, Answered
<1>2. /\ blocks[c] # <<>> /\ blocks' = [blocks EXCEPT ![c] = Tail(@)]
      /\ \/ b.do = "registerSelf" /\ addOperation(c, registerSelf(c))
         \/ b.do \in {"cannotMesh", "show"} /\ UNCHANGED queue
  BY DEF RunBlock, TypeOK
<1>3. /\ OneRegistration(c) /\ queue[c] \in Seq(Request)
      /\ \A what \in Continues : HasBlock(c, what) => op[c] = NoOp /\ NoneWaits(c)
      /\ Among(registerSelf(c), queue[c]) => NoneGoesOn(c)
      /\ Among(registerGroup(c), queue[c]) => NoneGoesOn(c)
  BY QuietFacts DEF TypeOK
<1>4. \A what : HasBlock(c, what) => b.do = what \/ HasBlock(c, what)'
  BY <1>2, BlockStays
<1>5. HasBlock(c, b.do)
  BY <1>2, BlockFacts
<1>6. b.do \in Continues => NoneGoesOn(c)' /\ ~NoneGoesOn(c)
  BY <1>2, <1>3, TakenBlock DEF OneRegistration
<1> HIDE DEF b
<1>7. CASE b.do = "registerSelf"
  <2>1. queue'[c] = Append(queue[c], registerSelf(c)) /\ registerSelf(c) \in Request
    BY <1>2, <1>7, RequestFacts DEF addOperation, TypeOK
  <2>2. Among(registerSelf(c), queue'[c])
    BY <1>3, <2>1, AmongFacts
  <2>3. op[c] = NoOp /\ ~NoneGoesOn(c) /\ NoneGoesOn(c)'
    BY <1>3, <1>5, <1>6, <1>7 DEF Continues
  <2>4. /\ ~Answered(c) /\ ~Runs(c, registerGroup(c), "sent")
        /\ ~Runs(c, registerGroup(c), "answered") /\ ~Runs(c, registerSelf(c), "sent")
    BY <2>3, NoOpFacts DEF Answered, Runs
  <2>5. ~HasBlock(c, "meshed")'
    BY <2>3 DEF HasBlock, NoneGoesOn, Continues
  <2>6. ~HasBlock(c, "meshed")
    BY <1>4, <1>7, <2>5
  <2>7. GroupThere(c)
    BY <1>3, <2>3, <2>4, <2>6 DEF Progress
  <2> QED BY <1>1, <2>2, <2>7 DEF Progress
<1>8. CASE b.do = "cannotMesh"
  <2>1. op[c] = NoOp /\ ~NoneGoesOn(c) /\ NoneGoesOn(c)'
    BY <1>3, <1>5, <1>6, <1>8 DEF Continues
  <2>2. /\ ~Answered(c) /\ ~Runs(c, registerGroup(c), "sent")
        /\ ~Runs(c, registerGroup(c), "answered") /\ ~Runs(c, registerSelf(c), "sent")
    BY <2>1, NoOpFacts DEF Answered, Runs
  <2>3. ~HasBlock(c, "meshed")' /\ ~HasBlock(c, "registerSelf")'
    BY <2>1 DEF HasBlock, NoneGoesOn, Continues
  <2>4. ~HasBlock(c, "meshed") /\ ~HasBlock(c, "registerSelf")
    BY <1>4, <1>8, <2>3
  <2> QED BY <1>3, <2>1, <2>2, <2>4 DEF Progress
<1>9. CASE b.do = "show"
  <2>1. queue' = queue
    BY <1>2, <1>9
  <2>2. /\ HasBlock(c, "meshed") => HasBlock(c, "meshed")'
        /\ HasBlock(c, "registerSelf") => HasBlock(c, "registerSelf")'
    BY <1>4, <1>9
  <2> QED BY <1>1, <2>1, <2>2 DEF Progress
<1> QED BY <1>2, <1>7, <1>8, <1>9

(* The server registers the group, and then the user in it.                *)
LEMMA ServeProgress ==
  ASSUME TypeOK, DBInv, NEW c \in Clients, Regular(c), Registration(c), Quiet(c),
         ~Hindered(c), mesherState[c] = "Meshing", Progress(c), ServeRequest(c)
  PROVE  Progress(c)'
<1> DEFINE r == op[c].req
<1>1. /\ UNCHANGED <<queue, blocks, groupId>> /\ op[c].stage = "sent"
      /\ Command(c, r) /\ r \in LateRequest /\ c \in Users
      /\ registerGroup(c)' = registerGroup(c) /\ registerSelf(c)' = registerSelf(c)
  BY ServedRequest, ClientAssumption
     DEF ServeRequest, registerGroup, registerSelf, Regular
<1>2. reply' \in DB!Replies
  BY <1>1, CommandEffect
<1>3. /\ op'[c].req = r /\ op'[c].stage = "answered" /\ op'[c].reply = reply'
      /\ op'[c].cancelled <=> op[c].cancelled
  BY <1>2, OpAnswered DEF ServeRequest, OpIs
<1>4. /\ \A what \in Continues : HasBlock(c, what) => op[c] = NoOp
      /\ Among(registerSelf(c), queue[c]) => op[c] = NoOp
  BY QuietFacts
<1>5. op[c] # NoOp
  BY <1>1, NoOpFacts
<1>6. CASE Among(registerGroup(c), queue[c])
  BY <1>1, <1>6 DEF Progress
<1>7. CASE Runs(c, registerGroup(c), "sent")
  <2>1. r = registerGroup(c) /\ ~op[c].cancelled
    BY <1>7 DEF Runs
  <2>2. r.action = "group_new" /\ r.group = groupId[c]
    BY <2>1 DEF registerGroup
  <2>3. groupId[c] \in groupIndex' /\ reply' \in {"ok", "exists"}
    BY <1>1, <2>2, CommandEffect
  <2>4. Runs(c, registerGroup(c), "answered")' /\ GroupThere(c)'
    BY <1>1, <1>3, <2>1, <2>3 DEF Runs, GroupThere
  <2> QED BY <2>4 DEF Progress
<1>8. CASE GroupThere(c) /\ Runs(c, registerSelf(c), "sent")
  <2>1. r = registerSelf(c) /\ ~op[c].cancelled
    BY <1>8 DEF Runs
  <2>2. r.action = "user_new" /\ r.group = groupId[c]
    BY <2>1 DEF registerSelf
  <2>3. Pending(c) /\ Blameless(c)
    BY <1>1, <2>2 DEF Pending, Hindered, Blameless
  <2>4. c \notin userIndex
    BY <2>3 DEF Registration
  <2>5. reply' = "ok"
    BY <1>1, <1>8, <2>2, <2>4, CommandEffect DEF GroupThere
  <2>6. (Answered(c) /\ ~op[c].cancelled)'
    BY <1>3, <2>1, <2>2, <2>5 DEF Answered
  <2> QED BY <2>6 DEF Progress
<1>9. ~Runs(c, registerGroup(c), "answered") /\ ~Answered(c)
  BY <1>1 DEF Runs, Answered
<1> QED BY <1>4, <1>5, <1>6, <1>7, <1>8, <1>9 DEF Progress, Continues

(* A client that registers gets further with each of its steps, or         *)
(* something went wrong.                                                   *)
LEMMA OwnProgress ==
  ASSUME TypeOK, DBInv, NEW c \in Clients, Regular(c), Registration(c), Quiet(c),
         Progresses(c), OwnStep(c)
  PROVE  Progresses(c)'
<1>1. CASE goOnline(c)
  <2>1. /\ queue'[c] = Append(queue[c], registerGroup(c)) /\ registerGroup(c) \in Request
        /\ queue[c] \in Seq(Request) /\ registerGroup(c)' = registerGroup(c)
    BY <1>1, RequestFacts DEF goOnline, addOperation, TypeOK, registerGroup
  <2>2. Among(registerGroup(c), queue'[c])
    BY <2>1, AmongFacts
  <2> QED BY <2>1, <2>2 DEF Progresses, Progress
<1> SUFFICES ASSUME ~goOnline(c), mesherState'[c] = "Meshing", ~Hindered(c)'
             PROVE  Progress(c)'
  BY <1>1 DEF Progresses
<1>2. ~Hindered(c)
  BY OwnTrouble DEF Hindered
<1>3. OpStage(c) /\ MainState(c)
  BY DEF Regular
<1>4. mesherState[c] = "Meshing"
  BY <1>3
     DEF OwnStep, User, Main, Queue, Beat, Server, Network, JoinLocalGroup, RunBlock,
         CancelAll, goOffline, stopMesher, startMesher, Edit, SendBeat,
         didReceiveData, StartRequest, requestCallback, ServeRequest,
         ServeUnregistration, ServeListRequest, ReadList, LoseRequest,
         TimeOutRequest, LoseUnregistration, Stopped, TypeOK
<1>5. Progress(c) /\ main[c] = "ready" /\ beat[c] = "off"
  BY <1>2, <1>4, QuietFacts DEF Progresses
<1>6. CASE Queue(c)
  BY <1>2, <1>4, <1>5, <1>6, QueueProgress
<1>7. CASE RunBlock(c)
  BY <1>2, <1>4, <1>5, <1>7, BlockProgress
<1>8. CASE ServeRequest(c)
  BY <1>2, <1>4, <1>5, <1>8, ServeProgress
<1>9. CASE startMesher(c)
  <2>1. UNCHANGED <<groupIndex, groupId, queue, blocks, op>>
    BY <1>9 DEF startMesher, dbVars
  <2> QED BY <1>5, <2>1, ProgressKept DEF GroupThere
<1>10. CASE ServeListRequest(c) \/ ReadList(c)
  <2>1. /\ op'[c].req = op[c].req /\ op[c].req.action = "user_heartbeat"
        /\ UNCHANGED <<groupId, queue, blocks>>
    <3>1. CASE ServeListRequest(c)
      BY <3>1, OpMoved DEF ServeListRequest, OpIs
    <3>2. CASE ReadList(c)
      <4>1. op'[c].req = op[c].req
        BY <3>2, OpRead, DatabaseFacts DEF OpIs
      <4> QED BY <1>3, <3>2, <4>1 DEF ReadList, OpStage
    <3> QED BY <1>10, <3>1, <3>2
  <2>2. groupIndex' = groupIndex
    BY <1>10 DEF ServeListRequest, ReadList, DB!UserHeartbeat, DB!dbVars, DB!groupVars,
                 dbVars
  <2> QED BY <1>5, <2>1, <2>2, ProgressKept DEF GroupThere, NoneRuns, Registers
<1>11. CASE JoinLocalGroup(c)
  <2>1. Meets(c, "regrouped")
    BY <1>4, <1>11 DEF JoinLocalGroup
  <2> QED BY <2>1, MeetsFacts DEF Troubles, Hindered, Blame
<1>12. CASE Network(c)
  <2>1. Meets(c, "lost") \/ Meets(c, "late")
    BY <1>12 DEF Network, LoseRequest, TimeOutRequest, LoseUnregistration
  <2> QED BY <2>1, MeetsFacts DEF Troubles, Hindered, Blame
<1>13. ~(goOffline(c) \/ stopMesher(c) \/ CancelAll(c) \/ Edit(c) \/ Beat(c)
          \/ ServeUnregistration(c))
  BY <1>4, <1>5
     DEF goOffline, stopMesher, CancelAll, Edit, Beat, SendBeat, didReceiveData,
         ServeUnregistration, TypeOK
<1> QED BY <1>6, <1>7, <1>8, <1>9, <1>10, <1>11, <1>12, <1>13
        DEF OwnStep, User, Main, Server

(* A step of one client is noticed by those whose group it takes away.     *)
LEMMA OwnNoticed ==
  ASSUME TypeOK, DBInv, NEW c \in Clients, OpStage(c), OwnStep(c)
  PROVE  \A d \in Clients \ {c} : Noticed(d)
<1>1. CASE ServeRequest(c) \/ ServeUnregistration(c)
  BY <1>1, NoticeFacts DEF ServeRequest, ServeUnregistration, Noticed
<1>2. CASE groupIndex' = groupIndex
  BY <1>2 DEF Noticed
<1> QED BY <1>1, <1>2, OwnIndex

(* What a step that is not its own leaves of a client's registration: the  *)
(* sweep may remove the client itself, but only when it has arrived.       *)
LEMMA OthersProgress ==
  ASSUME ClientInv, NEW d \in Clients, Registration(d), Quiet(d), Progresses(d),
         UNCHANGED vars \/ PeerAsks \/ ServeLate \/ Sweep \/ FinishHeartbeat \/ ClockTick
           \/ \E c \in Clients \ {d} : OwnStep(c)
  PROVE  Quiet(d)' /\ Progresses(d)'
<1>0. /\ TypeOK /\ DBInv /\ Serving /\ LateKnown /\ d \in Users
      /\ \A c \in Clients : Regular(c) /\ OpStage(c)
  BY ClientAssumption DEF ClientInv, Regular
<1>1. ASSUME Same(d) PROVE Quiet(d)'
  <2>1. /\ trouble[d] \subseteq trouble'[d] /\ op'[d] = op[d] /\ queue'[d] = queue[d]
        /\ mesherState'[d] = mesherState[d] /\ main'[d] = main[d] /\ beat'[d] = beat[d]
    BY <1>1 DEF Same
  <2>2. "stopped" \in trouble[d] => "stopped" \in trouble'[d]
    BY <2>1
  <2> QED BY <1>0, <2>1, <2>2, QuietKept
<1>2. ASSUME Same(d),
             Noticed(d) \/ Hindered(d) \/ (d \in userIndex /\ Blameless(d))
      PROVE  Progresses(d)'
  <2> SUFFICES ASSUME mesherState'[d] = "Meshing", ~Hindered(d)' PROVE Progress(d)'
    BY DEF Progresses
  <2>1. /\ mesherState[d] = "Meshing" /\ ~Hindered(d) /\ Blameless(d)
        /\ groupId'[d] = groupId[d] /\ queue'[d] = queue[d] /\ blocks'[d] = blocks[d]
        /\ op'[d] = op[d]
    BY <1>2 DEF Same, Hindered, Blameless
  <2>2. Progress(d)
    BY <2>1 DEF Progresses
  <2>3. CASE Noticed(d)
    <3>1. GroupThere(d) => GroupThere(d)'
      BY <2>1, <2>3 DEF Noticed, GroupThere, Hindered
    <3> QED BY <2>1, <2>2, <3>1, ProgressKept
  <2>4. CASE d \in userIndex
    <3>1. ~Pending(d)
      BY <2>1, <2>4 DEF Registration
    <3>2. /\ ~Among(registerGroup(d), queue[d]) /\ ~Among(registerSelf(d), queue[d])
          /\ \A stage : ~Runs(d, registerGroup(d), stage)
          /\ ~Runs(d, registerSelf(d), "sent") /\ ~HasBlock(d, "registerSelf")
      BY <1>0, <3>1, RequestFacts DEF Pending, NoneWaits, Registers, Among, Runs
    <3>3. (Answered(d) /\ ~op[d].cancelled) \/ HasBlock(d, "meshed")
      BY <2>2, <3>2 DEF Progress
    <3> QED BY <2>1, <2>2, <3>3, ProgressKept
  <2> QED BY <1>2, <2>1, <2>3, <2>4
<1>3. CASE PeerAsks
  BY <1>0, <1>1, <1>2, <1>3, PeerEffect
<1>4. CASE ServeLate
  <2>1. PICK u \in Clients : /\ "late" \in trouble[u]
                             /\ \A c \in Clients \ {u} : Noticed(c)
    BY <1>0, <1>4, LateEffect
  <2>2. Same(d)
    BY <1>0, <1>4, LateEffect
  <2>3. Noticed(d) \/ Hindered(d)
    BY <2>1 DEF Hindered, Blame
  <2> QED BY <1>1, <1>2, <2>2, <2>3
<1>5. CASE Sweep
  <2>1. PICK u \in userIndex : \A c \in Clients \ {u} : Noticed(c)
    BY <1>0, <1>5, SweptEffect
  <2>2. Same(d)
    BY <1>0, <1>5, SweptEffect
  <2>3. Noticed(d) \/ Hindered(d) \/ (d \in userIndex /\ Blameless(d))
    BY <2>1 DEF Hindered, Blameless
  <2> QED BY <1>1, <1>2, <2>2, <2>3
<1>6. CASE FinishHeartbeat
  <2>1. /\ UNCHANGED <<groupIndex, mesherState, groupId, main, queue, blocks, trouble>>
        /\ \/ Same(d)
           \/ /\ op[d].stage = "executing"
              /\ OpIs(d, op[d].req, "read", op[d].cancelled, op[d].reply)
              /\ beat'[d] = beat[d]
           \/ beat[d] = "executing" /\ beat'[d] = "read" /\ op'[d] = op[d]
    BY <1>0, <1>6, FinishEffect
  <2>2. CASE Same(d)
    BY <1>1, <1>2, <2>1, <2>2 DEF Noticed
  <2>3. CASE /\ op[d].stage = "executing"
             /\ OpIs(d, op[d].req, "read", op[d].cancelled, op[d].reply)
             /\ beat'[d] = beat[d]
    <3>1. op'[d].req = op[d].req /\ op[d] # NoOp /\ NoneRuns(d)
      BY <1>0, <2>3, NoOpFacts DEF OpIs, OpStage, NoneRuns, Registers
    <3>2. Quiet(d)'
      BY <1>0, <2>1, <2>3, <3>1, QuietKept
    <3>3. Progress(d) => Progress(d)'
      BY <2>1, <3>1, ProgressKept DEF GroupThere
    <3> QED BY <2>1, <3>2, <3>3 DEF Progresses, Hindered
  <2>4. CASE beat[d] = "executing" /\ beat'[d] = "read" /\ op'[d] = op[d]
    <3>1. Quiet(d)'
      BY <1>0, <2>1, <2>4, QuietKept
    <3>2. Progress(d) => Progress(d)'
      BY <2>1, <2>4, ProgressKept DEF GroupThere
    <3> QED BY <2>1, <3>1, <3>2 DEF Progresses, Hindered
  <2> QED BY <2>1, <2>2, <2>3, <2>4
<1>7. CASE ClockTick \/ UNCHANGED vars
  <2>1. Same(d) /\ groupIndex' = groupIndex
    BY <1>0, <1>7, TickEffect DEF vars, dbVars, clientVars, Same
  <2> QED BY <1>1, <1>2, <2>1 DEF Noticed
<1>8. ASSUME NEW c \in Clients \ {d}, OwnStep(c)
      PROVE  Quiet(d)' /\ Progresses(d)'
  <2>1. Same(d) /\ Noticed(d)
    BY <1>0, <1>8, OwnTypes, OwnNoticed DEF OthersSame
  <2> QED BY <1>1, <1>2, <2>1
<1> QED BY <1>3, <1>4, <1>5, <1>6, <1>7, <1>8

(* A registration either meshes the client or names what hindered it: the  *)
(* request for the group is followed by the one for the user, which the    *)
(* server accepts while the group is there, and that one by the heartbeat. *)
(* No cancelled request of an earlier session gets in between.             *)
THEOREM RegistrationArrives == Spec => []CannotMesh
<1>1. Init => ProgressInv
  <2> SUFFICES ASSUME Init PROVE ProgressInv
    OBVIOUS
  <2>1. ASSUME NEW c \in Clients PROVE Quiet(c) /\ Progresses(c)
    <3>1. /\ mesherState[c] = "Unmeshed" /\ queue[c] = <<>> /\ beat[c] = "off"
      BY DEF Init
    <3> QED BY <3>1 DEF Quiet, Progresses
  <2> QED BY <2>1, RegisteredInit DEF ProgressInv
<1>2. ProgressInv /\ [Next]_vars => ProgressInv'
  <2> SUFFICES ASSUME ProgressInv, [Next]_vars, NEW d \in Clients
               PROVE  Quiet(d)' /\ Progresses(d)'
    BY RegisteredStep DEF ProgressInv
  <2>1. /\ ClientInv /\ Registration(d) /\ Quiet(d) /\ Progresses(d)
        /\ TypeOK /\ DBInv /\ Regular(d)
    BY DEF ProgressInv, RegisteredInv, ClientInv
  <2>2. CASE OwnStep(d)
    BY <2>1, <2>2, OwnQuiet, OwnProgress
  <2>3. CASE ~OwnStep(d)
    BY <2>1, <2>3, OthersProgress, StepCases
  <2> QED BY <2>2, <2>3
<1>3. ProgressInv => CannotMesh
  <2> SUFFICES ASSUME ProgressInv, NEW c \in Clients, mesherState[c] = "Meshing",
                      AtRest(c), ~Hindered(c)
               PROVE  FALSE
    BY DEF CannotMesh, Hindered, Blame
  <2>1. Progress(c) /\ blocks[c] = <<>> /\ queue[c] = <<>> /\ op[c] = NoOp
    BY DEF ProgressInv, Progresses, AtRest
  <2>2. Len(blocks[c]) = 0 /\ Len(queue[c]) = 0 /\ op[c].stage = "none"
    BY <2>1, NoOpFacts
  <2> QED BY <2>1, <2>2 DEF Progress, Among, Runs, HasBlock, Answered
<1> QED BY <1>1, <1>2, <1>3, PTL DEF Spec
=============================================================================
