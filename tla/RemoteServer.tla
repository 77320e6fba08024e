---------------------------- MODULE RemoteServer ----------------------------
(***************************************************************************)
(* The goroutines of the global mesher around its database: net/http runs  *)
(* each handler of HTTPServer.go in a goroutine of its own, UDPServer.go   *)
(* answers heartbeats in one loop, and all of them hand commands over a    *)
(* buffered channel to the executor of main.go and wait for its answer on  *)
(* a channel of the command's own.  The published snapshot is read under a *)
(* read lock; the heartbeat loop also looks into the user index itself,    *)
(* which only the executor may do safely.                                  *)
(***************************************************************************)
EXTENDS MemoryDB

CONSTANTS
  HttpThreads,    \* goroutines that serve HTTP requests
  UdpThread,      \* the goroutine of startUdpServer
  PipeSize,       \* the capacity of g_command_pipe
  AcceptVersion   \* bound: requests to change something arrive below it only

Threads == HttpThreads \cup {UdpThread}
NoThread == "none"

ASSUME PipeAssumption == PipeSize \in Nat \ {0}
ASSUME ThreadAssumption == UdpThread \notin HttpThreads /\ NoThread \notin Threads
(* No command meets MaxVersion: the requests that wait and the sweeps of   *)
(* the users they add publish less often than the distance to it.          *)
ASSUME AcceptAssumption ==
  /\ IsFiniteSet(HttpThreads) /\ IsFiniteSet(Users)
  /\ AcceptVersion \in Nat
  /\ AcceptVersion + 3 * (Cardinality(HttpThreads) + Cardinality(Users)) + 1
       =< MaxVersion

VARIABLES
  pipe,      \* g_command_pipe: the threads whose commands it holds, in order
  thread,    \* where each goroutine is, its request and the list it got
  serving,   \* the thread whose command the executor took, and how far it is
  told,      \* the highest version a heartbeat reported to a client
  fatal      \* the runtime ended the process: concurrent map read and write

serverVars == <<pipe, thread, serving, told, fatal>>
allVars == <<vars, serverVars>>

Idle == [pc |-> "ready", req |-> [action |-> "none"], got |-> 0, atLeast |-> 0]
NotServing == [thread |-> NoThread, stage |-> "none"]

Heartbeats == [action : {"user_heartbeat"}, user : Users, group : Groups]

UserRequests ==
  [action : {"user_new"}, user : Users, group : Groups, data : Profiles]
    \cup [action : {"user_update"}, user : Users, data : Profiles]
    \cup [action : {"user_delete"}, user : Users, group : Groups]

(* A new group hangs below the root; it moves when it is merged.           *)
GroupRequests ==
  [action : {"group_new", "group_update"}, group : Groups, data : Profiles]
    \cup [action : {"group_move"}, group : Groups, superGroup : GroupIds]

HttpRequests == UserRequests \cup GroupRequests \cup Heartbeats
-----------------------------------------------------------------------------
(***************************************************************************)
(* The goroutines that serve requests.                                     *)
(***************************************************************************)
Goto(t, pc) == thread' = [thread EXCEPT ![t].pc = pc]

(* A request or a datagram arrives.  atLeast remembers what its client may *)
(* have been told before it asked.                                         *)
Receive(t) ==
  /\ thread[t].pc = "ready"
  /\ \E r \in IF t = UdpThread THEN Heartbeats ELSE HttpRequests :
        /\ r.action # "user_heartbeat" => global_version < AcceptVersion
        /\ thread' = [thread EXCEPT ![t] = [pc |-> "send", req |-> r, got |-> 0,
                                            atLeast |-> told]]
  /\ UNCHANGED <<vars, pipe, serving, told, fatal>>

(* g_command_pipe<- command blocks while the channel is full.              *)
Send(t) ==
  /\ thread[t].pc = "send"
  /\ Len(pipe) < PipeSize
  /\ pipe' = Append(pipe, t)
  /\ Goto(t, "wait")
  /\ UNCHANGED <<vars, serving, told, fatal>>

ReadsList(t) == t # UdpThread /\ thread[t].req.action = "user_heartbeat"

(* Mutant: the snapshot before is sent, once there is one.                 *)
RLockListBehind(t) ==
  /\ thread[t].pc = "list"
  /\ thread' = [thread EXCEPT ![t].pc = "locked",
                              ![t].got = IF snapShot.Version > 1
                                         THEN snapShot.Version - 1
                                         ELSE snapShot.Version]
  /\ UNCHANGED <<vars, pipe, serving, told, fatal>>

(* getAllUsers marshals the snapshot while it holds the read lock.         *)
RLockList(t) ==
  /\ thread[t].pc = "list"
  /\ thread' = [thread EXCEPT ![t].pc = "locked", ![t].got = snapShot.Version]
  /\ UNCHANGED <<vars, pipe, serving, told, fatal>>

RUnlockList(t) ==
  /\ thread[t].pc = "locked"
  /\ thread' = [thread EXCEPT ![t] = Idle]
  /\ UNCHANGED <<vars, pipe, serving, told, fatal>>

(* handleClient reads the version under the lock and lets go of it.        *)
ReadVersion ==
  /\ thread[UdpThread].pc = "version"
  /\ thread' = [thread EXCEPT ![UdpThread].pc = "lookup",
                              ![UdpThread].got = snapShot.Version]
  /\ UNCHANGED <<vars, pipe, serving, told, fatal>>

(* The executor is inside a command that writes userIndex.                 *)
WritesUserIndex ==
  LET r == thread[serving.thread].req IN
  \/ /\ serving.stage = "taken"
     /\ \/ r.action = "user_new" /\ r.user \notin userIndex
        \/ r.action = "user_delete" /\ r.user \in userIndex
     /\ r.group \in groupIndex
  \/ serving.stage = "heartbeat" /\ FrontTimedOut

(* handleClient then calls getUserById in its own goroutine.  What it      *)
(* finds only decides HasMessage, but the Go runtime ends the process when *)
(* it notices that the executor writes the map meanwhile.                  *)
LookupUser ==
  /\ thread[UdpThread].pc = "lookup"
  /\ \/ /\ thread' = [thread EXCEPT ![UdpThread] = Idle]
        /\ \/ told' = thread[UdpThread].got   \* the answer is sent
           \/ UNCHANGED told                  \* or writing to the socket fails
        /\ UNCHANGED fatal
     \/ WritesUserIndex /\ fatal' = TRUE /\ UNCHANGED <<thread, told>>
  /\ UNCHANGED <<vars, pipe, serving>>
-----------------------------------------------------------------------------
(***************************************************************************)
(* The executor goroutine.                                                 *)
(***************************************************************************)
TakeCommand ==
  /\ serving = NotServing /\ pipe # <<>>
  /\ serving' = [thread |-> Head(pipe), stage |-> "taken"]
  /\ pipe' = Tail(pipe)
  /\ UNCHANGED <<vars, thread, told, fatal>>

(* Mutant: a user is removed without a look whether it is there.           *)
ExecuteUnchecked(r) ==
  \/ r.action = "group_new" /\ AddNewGroup(r.group, Root, r.data)
  \/ r.action = "user_new" /\ AddNewUser(r.user, r.group, r.data)
  \/ r.action = "user_delete" /\ RemoveUser(r.user, r.group) /\ Answer("ok")
  \/ r.action = "user_heartbeat" /\ UserHeartbeat(r.user, r.group)

Execute(r) ==
  \/ r.action = "group_new" /\ AddNewGroup(r.group, Root, r.data)
  \/ r.action = "group_update" /\ UpdataGroup(r.group, r.data)
  \/ r.action = "group_move" /\ MoveGroup(r.group, r.superGroup)
  \/ r.action = "user_new" /\ AddNewUser(r.user, r.group, r.data)
  \/ r.action = "user_update" /\ UpdataUser(r.user, Root, r.data)
  \/ r.action = "user_delete" /\ DeleteUser(r.user, r.group)
  \/ r.action = "user_heartbeat" /\ UserHeartbeat(r.user, r.group)

(* To publish is to wait at snapShotLock.Lock() for the goroutines that    *)
(* read the snapshot.                                                      *)
LockSnapShot == snapShot' # snapShot => \A t \in Threads : thread[t].pc # "locked"

ExecuteCommand ==
  /\ serving.stage = "taken"
  /\ Execute(thread[serving.thread].req)
  /\ LockSnapShot
  /\ serving' = [serving EXCEPT !.stage = IF exec'.pc = "heartbeat"
                                          THEN "heartbeat" ELSE "respond"]
  /\ UNCHANGED <<pipe, thread, told, fatal>>

Sweep ==
  /\ serving.stage = "heartbeat"
  /\ tryRemoveTimeoutUser
  /\ LockSnapShot
  /\ UNCHANGED serverVars

Finish ==
  /\ serving.stage = "heartbeat"
  /\ FinishHeartbeat
  /\ LockSnapShot
  /\ serving' = [serving EXCEPT !.stage = "respond"]
  /\ UNCHANGED <<pipe, thread, told, fatal>>

(* Mutant: heartbeats are not answered although their senders wait.        *)
RespondNotToHeartbeats ==
  /\ serving.stage = "respond"
  /\ thread' = [thread EXCEPT ![serving.thread] =
                  IF @.req.action = "user_heartbeat" THEN @ ELSE Idle]
  /\ serving' = NotServing
  /\ UNCHANGED <<vars, pipe, told, fatal>>

(* command.response<- response: the thread waits for it, so that both go   *)
(* on together.                                                            *)
Respond ==
  /\ serving.stage = "respond"
  /\ thread[serving.thread].pc = "wait"
  /\ thread' = [thread EXCEPT ![serving.thread] =
                  IF serving.thread = UdpThread THEN [@ EXCEPT !.pc = "version"]
                  ELSE IF ReadsList(serving.thread) THEN [@ EXCEPT !.pc = "list"]
                  ELSE Idle]
  /\ serving' = NotServing
  /\ UNCHANGED <<vars, pipe, told, fatal>>

ClockTick == Tick /\ UNCHANGED serverVars
-----------------------------------------------------------------------------
ServerInit ==
  /\ Init
  /\ pipe = <<>>
  /\ thread = [t \in Threads |-> Idle]
  /\ serving = NotServing
  /\ told = 0
  /\ fatal = FALSE

Executor == TakeCommand \/ ExecuteCommand \/ Sweep \/ Finish \/ Respond

Server(t) == Send(t) \/ RLockList(t) \/ RUnlockList(t)

ServerNext ==
  ~fatal /\ \/ \E t \in Threads : Receive(t) \/ Server(t)
            \/ ReadVersion
            \/ LookupUser
            \/ Executor
            \/ ClockTick

(* The Go scheduler runs every goroutine that can run, and lets goroutines *)
(* that wait to send on a full channel in by turns.                        *)
ServerFairness ==
  /\ WF_allVars(~fatal /\ Executor)
  /\ \A t \in Threads : /\ SF_allVars(~fatal /\ Send(t))
                        /\ WF_allVars(~fatal /\ (RLockList(t) \/ RUnlockList(t)))
  /\ WF_allVars(~fatal /\ (ReadVersion \/ LookupUser))

ServerSpec == ServerInit /\ [][ServerNext]_allVars /\ ServerFairness
-----------------------------------------------------------------------------
(***************************************************************************)
(* Properties.                                                             *)
(***************************************************************************)
(* What the goroutines do to the database together is what MemoryDB does   *)
(* with one command at a time: no reader and no waiting request gets in    *)
(* between the steps of a command.                                         *)
ImplementsMemoryDB == Spec

(* A thread waits exactly while its command is in the pipe or with the     *)
(* executor, once: no answer is lost, sent twice, or sent to a thread that *)
(* does not wait for it, which would block the executor for ever.          *)
AnswersMatch ==
  \A t \in Threads :
     Cardinality({i \in DOMAIN pipe : pipe[i] = t})
       + (IF serving.thread = t THEN 1 ELSE 0)
     = IF thread[t].pc = "wait" THEN 1 ELSE 0

(* A client that was told of a version and then asks for the list gets     *)
(* that version or a later one: otherwise it would ask again at every      *)
(* heartbeat.                                                              *)
ListAsNewAsTold ==
  \A t \in HttpThreads :
     thread[t].pc = "locked" => thread[t].got >= thread[t].atLeast

(* With the app's requests, every request is answered, also when the pipe  *)
(* is full and while readers hold the lock, unless the process ends.       *)
RequestsAnswered ==
  \A t \in Threads : thread[t].pc # "ready" ~> thread[t].pc = "ready" \/ fatal
=============================================================================
