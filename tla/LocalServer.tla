----------------------------- MODULE LocalServer -----------------------------
(***************************************************************************)
(* The goroutines of a local mesh server (LocalServer/main.go) around its  *)
(* store: HTTP handlers, the loop that answers heartbeats, and the one     *)
(* that asks for a check at every tick of a timer.  All of them hand       *)
(* commands over a buffered channel to the executor.  A heartbeat, the     *)
(* removal of a user and a check are sent and forgotten; the other         *)
(* commands carry a channel on which the executor answers.                 *)
(***************************************************************************)
EXTENDS UserList, Sequences

CONSTANTS
  HttpThreads,    \* goroutines that serve HTTP requests
  UdpThread,      \* the goroutine of startUdpServer
  TickerThread,   \* the goroutine of userTimeout
  PipeSize,       \* the capacity of g_command_pipe
  CheckPeriod,    \* the period of g_ticker, in ticks
  AcceptVersion   \* bound: HTTP requests arrive below this version only

Threads == HttpThreads \cup {UdpThread, TickerThread}
NoThread == "none"

ASSUME PipeAssumption   == PipeSize \in Nat \ {0}
ASSUME PeriodAssumption == CheckPeriod \in Nat \ {0}
ASSUME ThreadAssumption ==
  /\ UdpThread # TickerThread /\ {UdpThread, TickerThread} \cap HttpThreads = {}
  /\ NoThread \notin Threads
(* No command meets MaxVersion: those on their way and the checks that     *)
(* remove users publish less often than the distance to it.                *)
ASSUME AcceptAssumption ==
  /\ IsFiniteSet(HttpThreads) /\ IsFiniteSet(Users)
  /\ AcceptVersion \in Nat
  /\ AcceptVersion + Cardinality(Users) + 2 * (Cardinality(HttpThreads) + PipeSize)
       + 1 =< MaxVersion

VARIABLES
  pipe,      \* g_command_pipe: commands with the thread that sent them
  thread,    \* where each goroutine is, its request and what it read
  serving,   \* the thread the executor has to answer
  fires,     \* time since g_ticker fired
  ticked,    \* g_ticker.C holds a tick: its buffer has room for one
  told       \* the highest version published before an answer went out

serverVars == <<pipe, thread, serving, fires, ticked, told>>
allVars == <<vars, serverVars>>

Idle == [pc |-> "ready", req |-> [action |-> "none"], got |-> 0, atLeast |-> 0]

Heartbeats == [action : {"user_heartbeat"}, user : Users]

RegisterRequests ==
  [action : {"group_register"}, group : Groups, data : Profiles]
    \cup [action : {"user_register"}, user : Users, data : Profiles]

UpdateRequests ==
  [action : {"group_update"}, group : Groups, data : Profiles]
    \cup [action : {"user_update"}, user : Users, data : Profiles]

PasswordRequests ==
  [action : {"group_change_password"}, group : Groups, old : Passwords,
   new : Passwords]

RemovalRequests == [action : {"user_delete"}, user : Users]

HttpRequests ==
  UNION {RegisterRequests, UpdateRequests, PasswordRequests, RemovalRequests,
         Heartbeats}

Check == [action |-> "check_heartbeat"]

HasResponse(r) ==
  r.action \notin {"user_heartbeat", "user_delete", "check_heartbeat"}
-----------------------------------------------------------------------------
(***************************************************************************)
(* The goroutines that send commands.                                      *)
(***************************************************************************)
Receive(t) ==
  /\ thread[t].pc = "ready"
  /\ \/ /\ t \in HttpThreads /\ version < AcceptVersion
        /\ \E r \in HttpRequests : thread' = [thread EXCEPT ![t] =
              [pc |-> "send", req |-> r, got |-> 0, atLeast |-> told]]
        /\ UNCHANGED ticked
     \/ /\ t = UdpThread
        /\ \E r \in Heartbeats : thread' = [thread EXCEPT ![t] =
              [pc |-> "send", req |-> r, got |-> 0, atLeast |-> told]]
        /\ UNCHANGED ticked
     \/ /\ t = TickerThread /\ ticked
        /\ thread' = [thread EXCEPT ![t] =
              [pc |-> "send", req |-> Check, got |-> 0, atLeast |-> 0]]
        /\ ticked' = FALSE
  /\ UNCHANGED <<vars, pipe, serving, fires, told>>

(* Mutant: goroutines wait for the answer to a removal and to a check.     *)
AfterSendWaits(t) ==
  IF thread[t].req.action = "user_heartbeat"
  THEN [thread[t] EXCEPT !.pc = "read"]
  ELSE [thread[t] EXCEPT !.pc = "wait"]

(* What a goroutine does once its command is in the pipe: wait for the     *)
(* answer, or go on at once, to the snapshot (getAllUsers, handleClient)   *)
(* or to its end (delete_user, userTimeout).                               *)
AfterSend(t) ==
  IF HasResponse(thread[t].req) THEN [thread[t] EXCEPT !.pc = "wait"]
  ELSE IF thread[t].req.action = "user_heartbeat"
       THEN [thread[t] EXCEPT !.pc = "read"]
       ELSE Idle

Send(t) ==
  /\ thread[t].pc = "send"
  /\ Len(pipe) < PipeSize
  /\ pipe' = Append(pipe, [from |-> t, req |-> thread[t].req])
  /\ thread' = [thread EXCEPT ![t] = AfterSend(t)]
  /\ UNCHANGED <<vars, serving, fires, ticked, told>>

(* Mutant: the snapshot before is sent, once there is one.                 *)
RLockSnapShotBehind(t) ==
  /\ t \in HttpThreads /\ thread[t].pc = "read"
  /\ thread' = [thread EXCEPT ![t].pc = "locked",
                              ![t].got = IF snapShot.Version > 1
                                         THEN snapShot.Version - 1
                                         ELSE snapShot.Version]
  /\ UNCHANGED <<vars, pipe, serving, fires, ticked, told>>

(* getAllUsers marshals the snapshot while it holds the read lock.         *)
RLockSnapShot(t) ==
  /\ t \in HttpThreads /\ thread[t].pc = "read"
  /\ thread' = [thread EXCEPT ![t].pc = "locked", ![t].got = snapShot.Version]
  /\ UNCHANGED <<vars, pipe, serving, fires, ticked, told>>

RUnlockSnapShot(t) ==
  /\ thread[t].pc = "locked"
  /\ thread' = [thread EXCEPT ![t] = Idle]
  /\ UNCHANGED <<vars, pipe, serving, fires, ticked, told>>

(* handleClient reads the version under the lock and then answers; that    *)
(* writing to the socket may fail matters to the client only.              *)
ReadVersion ==
  /\ thread[UdpThread].pc = "read"
  /\ thread' = [thread EXCEPT ![UdpThread].pc = "reply",
                              ![UdpThread].got = snapShot.Version]
  /\ UNCHANGED <<vars, pipe, serving, fires, ticked, told>>

WriteVersion ==
  /\ thread[UdpThread].pc = "reply"
  /\ thread' = [thread EXCEPT ![UdpThread] = Idle]
  /\ told' = IF thread[UdpThread].got > told THEN thread[UdpThread].got ELSE told
  /\ UNCHANGED <<vars, pipe, serving, fires, ticked>>
-----------------------------------------------------------------------------
(* Mutant: a user is removed without a look whether it is there.           *)
ExecuteUnchecked(r) ==
  \/ r.action = "group_register" /\ RegisterGroup(r.group, r.data)
  \/ r.action = "user_register" /\ RegisterUser(r.user, r.data)
  \/ r.action = "user_delete" /\ RemoveUsers({r.user})
  \/ r.action = "user_heartbeat" /\ UserHeartbeat(r.user)
  \/ r.action = "check_heartbeat" /\ CheckTimeout

(***************************************************************************)
(* The executor goroutine.                                                 *)
(***************************************************************************)
Execute(r) ==
  \/ r.action = "group_register" /\ RegisterGroup(r.group, r.data)
  \/ r.action = "group_update" /\ UpdataGroup(r.group, r.data)
  \/ r.action = "group_change_password"
       /\ ChangeGroupPassword(r.group, r.old, r.new)
  \/ r.action = "user_register" /\ RegisterUser(r.user, r.data)
  \/ r.action = "user_update" /\ UpdataUser(r.user, r.data)
  \/ r.action = "user_delete" /\ DeleteUser(r.user)
  \/ r.action = "user_heartbeat" /\ UserHeartbeat(r.user)
  \/ r.action = "check_heartbeat" /\ CheckTimeout

(* To publish is to wait for the goroutines that read the snapshot.        *)
LockSnapShot == snapShot' # snapShot => \A t \in Threads : thread[t].pc # "locked"

(* Mutant: every command is answered.                                      *)
ExecuteCommandAnsweringAll ==
  /\ serving = NoThread /\ pipe # <<>> /\ ~dead
  /\ Execute(Head(pipe).req)
  /\ LockSnapShot
  /\ pipe' = Tail(pipe)
  /\ serving' = Head(pipe).from
  /\ UNCHANGED <<thread, fires, ticked, told>>

ExecuteCommand ==
  /\ serving = NoThread /\ pipe # <<>> /\ ~dead
  /\ Execute(Head(pipe).req)
  /\ LockSnapShot
  /\ pipe' = Tail(pipe)
  /\ serving' = IF HasResponse(Head(pipe).req) THEN Head(pipe).from ELSE NoThread
  /\ UNCHANGED <<thread, fires, ticked, told>>

(* The executor and the goroutine that waits for the answer meet at the    *)
(* command's channel.                                                      *)
Respond ==
  /\ serving # NoThread /\ ~dead
  /\ thread[serving].pc = "wait"
  /\ thread' = [thread EXCEPT ![serving] = Idle]
  /\ serving' = NoThread
  /\ told' = version
  /\ UNCHANGED <<vars, pipe, fires, ticked>>
-----------------------------------------------------------------------------
(* Mutant: a tick of the timer is lost unless the last was not taken yet.  *)
ClockTickLost ==
  /\ \/ Tick
     \/ (\A u \in Registered : age[u] > UserTimeout) /\ UNCHANGED vars
  /\ fires' = (fires + 1) % CheckPeriod
  /\ ticked' = (ticked /\ fires' = 0)
  /\ UNCHANGED <<pipe, thread, serving, told>>

(* Time passes for the users and for the timer, which drops a tick when    *)
(* the last one was not taken yet.                                         *)
ClockTick ==
  /\ \/ Tick
     \/ (\A u \in Registered : age[u] > UserTimeout) /\ UNCHANGED vars
  /\ fires' = (fires + 1) % CheckPeriod
  /\ ticked' = (ticked \/ fires' = 0)
  /\ UNCHANGED <<pipe, thread, serving, told>>

ServerInit ==
  /\ Init
  /\ pipe = <<>>
  /\ thread = [t \in Threads |-> Idle]
  /\ serving = NoThread
  /\ fires = 0 /\ ticked = FALSE
  /\ told = 0

Server(t) == Send(t) \/ RLockSnapShot(t) \/ RUnlockSnapShot(t)

ServerNext ==
  ~dead /\ \/ \E t \in Threads : Receive(t) \/ Server(t)
           \/ ReadVersion
           \/ WriteVersion
           \/ ExecuteCommand
           \/ Respond
           \/ ClockTick

(* Every goroutine that can run does, those that wait for room in the pipe *)
(* get in by turns, and time passes.                                       *)
ServerFairness ==
  /\ WF_allVars(~dead /\ (ExecuteCommand \/ Respond))
  /\ \A t \in Threads :
        /\ SF_allVars(~dead /\ Send(t))
        /\ WF_allVars(~dead /\ (RLockSnapShot(t) \/ RUnlockSnapShot(t)))
  /\ WF_allVars(~dead /\ (ReadVersion \/ WriteVersion))
  /\ WF_allVars(~dead /\ Receive(TickerThread))
  /\ WF_allVars(~dead /\ ClockTick)

ServerSpec == ServerInit /\ [][ServerNext]_allVars /\ ServerFairness
-----------------------------------------------------------------------------
(***************************************************************************)
(* Properties.                                                             *)
(***************************************************************************)
(* All goroutines together change the store as UserList does.              *)
ImplementsUserList == Spec

(* Every answer has its receiver: a goroutine waits exactly while one      *)
(* command of its own that is answered is in the pipe or being answered.   *)
(* An answer nobody waits for would stop the executor for ever, and a      *)
(* goroutine that waits for a command without an answer would never end.   *)
AnswersMatch ==
  \A t \in Threads :
     Cardinality({i \in DOMAIN pipe : pipe[i].from = t /\ HasResponse(pipe[i].req)})
       + (IF serving = t THEN 1 ELSE 0)
     = IF thread[t].pc = "wait" THEN 1 ELSE 0

(* Who is missing after a step was silent for longer than the timeout, or  *)
(* had asked for it: the command that is executed is the removal of this   *)
(* very user.  A check that waited in the pipe while a user was heard of   *)
(* leaves it alone, and a removal takes nobody else away.                  *)
OnlySilentUsersSwept ==
  [][\A u \in Registered \ Registered' :
       \/ age[u] > UserTimeout
       \/ pipe # <<>> /\ Head(pipe).req = [action |-> "user_delete", user |-> u]]_allVars

(* A client that fetches the list after it was told of a version, or after *)
(* its own command was answered, gets a list that is at least as new: it   *)
(* reads its own writes although its heartbeat is not waited for.          *)
ListAsNewAsTold ==
  \A t \in HttpThreads :
     thread[t].pc = "locked" => thread[t].got >= thread[t].atLeast

(* Every request is answered while the process lives, although heartbeats, *)
(* removals and checks fill the same pipe.                                 *)
RequestsAnswered ==
  \A t \in HttpThreads : thread[t].pc # "ready" ~> thread[t].pc = "ready" \/ dead

(* A user that is not heard of any more is removed some time: the timer's  *)
(* checks get through although ticks are dropped while the pipe is full.   *)
SilentUserRemoved ==
  \A u \in Users :
     u \in TimedOut ~> u \notin TimedOut \/ dead
=============================================================================
