--------------------------- MODULE AMLocalMesher ---------------------------
(***************************************************************************)
(* The local side of a mesher: the states of AMMesher.m, the search of     *)
(* AMLeaderElecter and the client of AMLocalMesher.m, which starts the     *)
(* local server when it leads and registers its group and its user there.  *)
(* The state of the cluster is observed: to set it runs the observers at   *)
(* once, so that a handler goes on in the other component.                 *)
(*                                                                         *)
(* The main thread runs the user's actions, Bonjour's calls and the blocks *)
(* dispatched to it; the thread of a request queue sends one request after *)
(* the other and runs its callback.  A handler that waits, for the         *)
(* heartbeat's thread, for an answer or for its own sleep, is a job of its *)
(* thread with one step per stage, and the other threads run between.      *)
(* What a server answers beyond success is in UserList, heartbeats are in  *)
(* AMHeartBeat, and a request that a cancelled operation still sends is    *)
(* left out: the server removes a user that does not beat.                 *)
(***************************************************************************)
EXTENDS AMLeaderElecter

CONSTANTS
  AddressCount,  \* how many addresses each host has
  Queues,        \* bound: the request queues that are there at a time
  NoQueue
ASSUME QueueAssumption ==
  Queues # {} /\ "main" \notin Queues /\ NoQueue \notin Queues

VARIABLES
  client,      \* the fields of AMLocalMesher, its queues and its blocks
  thread,      \* the job of the main thread and of each queue's thread
  lsTask,      \* _lsTask: "none", "created" or "running"
  registered   \* the hosts whose server has this user

threadVars == <<client, thread>>

vars == <<clusterState, LSConfig, elector, localServerHost, lan, events,
          client, thread, lsTask, registered>>

Threads == Queues \cup {"main"}

Ready ==
  [at |-> "ready",         \* the stage
   what |-> "none",        \* what is being done, or the block after a sleep
   withdraws |-> FALSE,    \* the elector has still to be stopped
   host |-> NoHost]        \* whose heartbeat or answer is waited for

NewClient ==
  [queue |-> CHOOSE q \in Queues : TRUE,    \* _httpRequestQueue
   operations |-> [q \in Queues |-> <<>>],  \* the first one is running
   blocks |-> <<>>,          \* what was dispatched to the main queue
   retryCount |-> 0,
   tryAddr |-> NoHost, usedAddr |-> NoHost,
   heartbeat |-> NoHost,  \* where _heartbeatThread sends
   stray |-> FALSE,          \* a heartbeat thread runs that no field names
   told |-> FALSE]           \* AM_LOCAL_SERVER_CONNECTION_ERROR, with this queue

Up(host) == host \in lan \cup (IF lsTask = "running" THEN {Self} ELSE {})

addOperation(c, kind, at) ==
  IF c.queue = NoQueue THEN c
  ELSE [c EXCEPT !.operations[c.queue] = Append(@, [kind |-> kind, at |-> at])]

dispatch(c, block) == [c EXCEPT !.blocks = Append(@, block)]

(* A queue that was given up goes on until it is empty.                    *)
Idle(q) ==
  q # client.queue /\ client.operations[q] = <<>> /\ thread[q] = Ready

QueueBound == client.queue # NoQueue \/ \E q \in Queues : Idle(q)

NewQueue == CHOOSE q \in Queues : Idle(q)
-----------------------------------------------------------------------------
(* With an address of the preferences there is no choice; else the next    *)
(* address of the host is tried, until there is none.  A queue that was    *)
(* given up is made anew, and the count with it.                           *)
registerLocalGroup(c, host) ==
  LET manual == LSConfig \in Services
      at == IF manual THEN LSConfig ELSE host
      counted == [c EXCEPT !.tryAddr = at,
                           !.retryCount = IF manual THEN @ ELSE @ + 1]
      queued == IF c.queue # NoQueue THEN counted
                ELSE [counted EXCEPT !.queue = NewQueue, !.retryCount = 0,
                                     !.told = FALSE]
  IN IF ~manual /\ (host = NoHost \/ c.retryCount >= AddressCount)
     THEN [c EXCEPT !.tryAddr = NoHost, !.told = TRUE]
     ELSE addOperation(queued, "group", at)

registerSelf(c) == addOperation(c, "user", c.usedAddr)

requestUserList(c) == addOperation(c, "list", c.usedAddr)

(* The first stage: the heartbeat is cancelled, and waited for.            *)
stopLocalClient(t, c, what, withdraws) ==
  /\ client' = [c EXCEPT !.heartbeat = NoHost]
  /\ thread' = [thread EXCEPT ![t] = [at |-> "cancel", what |-> what,
                                      withdraws |-> withdraws,
                                      host |-> c.heartbeat]]

(* The server's users go with it.                                          *)
stopLocalServer(state) ==
  /\ lsTask' = state
  /\ registered' = registered \ {Self}
-----------------------------------------------------------------------------
(***************************************************************************)
(* AMMesher.                                                               *)
(***************************************************************************)
(* kClusterStopping: the local mesher stops its server and its client and  *)
(* the elector stops, in the order in which they are notified.  That order *)
(* is not defined; as they are registered, the elector is the last, after  *)
(* all stages of the client.                                               *)
stopMesher(t, c, what) ==
  /\ clusterState' = "Stopping"
  /\ stopLocalServer("none")
  /\ \E electorLast \in BOOLEAN :
        /\ elector' = IF electorLast THEN elector ELSE stopElector(elector)
        /\ stopLocalClient(t, c, what, electorLast)

(* startMesher when the mesher is stopped: kClusterAutoDiscovering.        *)
startMesher(t) ==
  /\ QueueBound
  /\ elector' = kickoffElectProcess(elector, IF t = "main" THEN "main" ELSE "queue")
  /\ IF LSConfig \in Services
     THEN /\ clusterState' = "ClientRegistering"
          /\ client' = registerLocalGroup(client, localServerHost)
     ELSE clusterState' = "AutoDiscovering" /\ UNCHANGED client

MainReady == thread["main"] = Ready

(* localMesherToggled, and the start and the end of the program.           *)
UserStarts ==
  /\ MainReady /\ clusterState = "Stopped"
  /\ startMesher("main")
  /\ Event
  /\ UNCHANGED <<networkVars, localServerHost, thread, lsTask, registered>>

UserStops ==
  /\ MainReady /\ clusterState # "Stopped"
  /\ stopMesher("main", client, "stop")
  /\ Event
  /\ UNCHANGED <<networkVars, localServerHost>>

(* onChecked: one of the settings stops and starts the mesher in one go.   *)
UserRestarts ==
  /\ MainReady
  /\ stopMesher("main", client, "restart")
  /\ Event
  /\ UNCHANGED <<networkVars, localServerHost>>

(* itemSelected: the choice of the local server is only stored.            *)
SelectLSConfig ==
  /\ MainReady
  /\ LSConfig' \in LSConfigs \ {LSConfig}
  /\ Event
  /\ UNCHANGED <<clusterState, elector, localServerHost, lan, threadVars, lsTask,
                 registered>>
-----------------------------------------------------------------------------
(***************************************************************************)
(* The stages of a stop, on the main thread or on that of a queue.         *)
(***************************************************************************)
Succeeds(host) == Up(host) /\ UNCHANGED events

(* Without a server that answers, or when the network fails.               *)
Fails(host) == IF Up(host) THEN Event ELSE UNCHANGED events

Stage(t, at, host) ==
  thread' = [thread EXCEPT ![t] = [@ EXCEPT !.at = at, !.host = host]]

(* The heartbeat has ended.  Without a queue nothing is unregistered.      *)
CancelOperations(t) ==
  /\ thread[t].at = "cancel"
  /\ IF client.queue = NoQueue
     THEN Stage(t, "served", NoHost) /\ UNCHANGED client
     ELSE /\ Stage(t, "unregister", client.usedAddr)
          /\ client' = [client EXCEPT !.operations[client.queue] = <<>>]
  /\ UNCHANGED <<networkVars, clusterState, elector, localServerHost, events,
                 lsTask, registered>>

(* The answer is waited for and not looked at.                             *)
UnregisterSelf(t) ==
  /\ thread[t].at = "unregister"
  /\ Stage(t, "served", NoHost)
  /\ \/ Succeeds(thread[t].host) /\ registered' = registered \ {thread[t].host}
     \/ Fails(thread[t].host) /\ UNCHANGED registered
  /\ UNCHANGED <<networkVars, clusterState, elector, localServerHost, client, lsTask>>

(* What a stop that is through with the elector, too, goes on with.        *)
Stopped(t) ==
  [Ready EXCEPT !.at = IF thread[t].what = "restart" THEN "start" ELSE "ready"]

(* The fields are cleared, whatever another thread put there meanwhile: a  *)
(* queue goes on with its requests, a heartbeat with its beats.            *)
ClearClient(t) ==
  /\ thread[t].at = "served"
  /\ thread' = IF thread[t].withdraws THEN [thread EXCEPT ![t].at = "withdraw"]
               ELSE [thread EXCEPT ![t] = Stopped(t)]
  /\ client' = [client EXCEPT !.queue = NoQueue, !.heartbeat = NoHost,
                              !.stray = @ \/ client.heartbeat # NoHost,
                              !.told = FALSE]
  /\ clusterState' = "Stopped"
  /\ UNCHANGED <<networkVars, elector, localServerHost, events, lsTask, registered>>

WithdrawService(t) ==
  /\ thread[t].at = "withdraw"
  /\ thread' = [thread EXCEPT ![t] = Stopped(t)]
  /\ elector' = stopElector(elector)
  /\ UNCHANGED <<networkVars, clusterState, localServerHost, events, client, lsTask,
                 registered>>

(* The second half of a restart, which does nothing in another state.      *)
Restart(t) ==
  /\ thread[t].at = "start"
  /\ thread' = [thread EXCEPT ![t] = Ready]
  /\ IF clusterState = "Stopped" THEN startMesher(t)
     ELSE UNCHANGED <<clusterState, elector, client>>
  /\ UNCHANGED <<networkVars, localServerHost, events, lsTask, registered>>

StopNext(t) ==
  \/ CancelOperations(t) \/ UnregisterSelf(t) \/ ClearClient(t)
  \/ WithdrawService(t) \/ Restart(t)
-----------------------------------------------------------------------------
(***************************************************************************)
(* A queue's thread: the first request and its callback.                   *)
(***************************************************************************)
Answered(q, kind) ==
  /\ thread[q] = Ready /\ client.operations[q] # <<>>
  /\ Head(client.operations[q]).kind = kind
  /\ UNCHANGED <<networkVars, localServerHost>>

Host(q) == Head(client.operations[q]).at
Done(q) == [client EXCEPT !.operations[q] = Tail(@)]

Sleep(q, block) ==
  thread' = [thread EXCEPT ![q] = [Ready EXCEPT !.at = "sleep", !.what = block]]

(* Both "ok" and "group already exist" let the client go on.               *)
GroupRegistered(q) ==
  /\ Answered(q, "group") /\ Succeeds(Host(q))
  /\ client' = dispatch(Done(q), "groupRegistered")
  /\ UNCHANGED <<clusterState, elector, thread, lsTask, registered>>

(* Mutant: the group's registration is tried once.                         *)
GroupNotRegisteredForGood(q) ==
  /\ Answered(q, "group") /\ Fails(Host(q))
  /\ client' = Done(q)
  /\ UNCHANGED <<clusterState, registered, elector, thread, lsTask>>

(* With an address of the preferences, as they are now, the client stops,  *)
(* on this thread and alone; else it sleeps and tries again.               *)
GroupNotRegistered(q) ==
  /\ Answered(q, "group") /\ Fails(Host(q))
  /\ IF LSConfig \in Services
     THEN stopLocalClient(q, [Done(q) EXCEPT !.tryAddr = LSConfig],
                          "client", FALSE)
     ELSE /\ client' = [Done(q) EXCEPT !.tryAddr = NoHost]
          /\ Sleep(q, "retryGroup")
  /\ UNCHANGED <<clusterState, elector, lsTask, registered>>

SelfRegistered(q) ==
  /\ Answered(q, "user") /\ Succeeds(Host(q))
  /\ registered' = registered \cup {Host(q)}
  /\ client' = dispatch(Done(q), "selfRegistered")
  /\ UNCHANGED <<clusterState, elector, thread, lsTask>>

SelfNotRegistered(q) ==
  /\ Answered(q, "user") /\ Fails(Host(q))
  /\ client' = Done(q)
  /\ Sleep(q, "retrySelf")
  /\ UNCHANGED <<clusterState, elector, lsTask, registered>>

UserListAnswered(q) ==
  /\ Answered(q, "list") /\ Succeeds(Host(q))
  /\ client' = Done(q)
  /\ UNCHANGED <<clusterState, elector, thread, lsTask, registered>>

(* The server is taken for lost: the callback restarts the mesher.         *)
UserListFails(q) ==
  /\ Answered(q, "list") /\ Fails(Host(q))
  /\ lsTask # "created"
  /\ stopMesher(q, Done(q), "restart")

(* To terminate a task that the main thread did not launch yet raises an   *)
(* exception that nobody catches: the program ends, and all it did.        *)
ProgramEnds(q) ==
  /\ Answered(q, "list") /\ Fails(Host(q))
  /\ lsTask = "created"
  /\ thread' = [t \in Threads |-> [Ready EXCEPT !.at = "ended"]]
  /\ client' = NewClient /\ elector' = NewElector
  /\ clusterState' = "Stopped" /\ lsTask' = "none"
  /\ UNCHANGED registered

WakeUp(q) ==
  /\ thread[q].at = "sleep"
  /\ thread' = [thread EXCEPT ![q] = Ready]
  /\ client' = dispatch(client, thread[q].what)
  /\ UNCHANGED <<networkVars, clusterState, elector, localServerHost, events,
                 lsTask, registered>>

QueueNext(q) ==
  \/ GroupRegistered(q) \/ GroupNotRegistered(q)
  \/ SelfRegistered(q) \/ SelfNotRegistered(q)
  \/ UserListAnswered(q) \/ UserListFails(q) \/ ProgramEnds(q)
  \/ WakeUp(q) \/ StopNext(q)

(* A heartbeat thread, also one that is being cancelled, when its server   *)
(* does not answer or has another version.  Bound: one such request at a   *)
(* time.                                                                   *)
HeartbeatAsks ==
  /\ \/ client.heartbeat # NoHost \/ client.stray
     \/ \E t \in Threads : thread[t].at = "cancel" /\ thread[t].host # NoHost
  /\ IF client.heartbeat = NoHost \/ Up(client.heartbeat) THEN Event
     ELSE UNCHANGED events
  /\ client.queue # NoQueue
  /\ \A o \in ToSet(client.operations[client.queue]) : o.kind # "list"
  /\ client' = requestUserList(client)
  /\ UNCHANGED <<networkVars, clusterState, elector, localServerHost,
                 thread, lsTask, registered>>
-----------------------------------------------------------------------------
(***************************************************************************)
(* The main thread.                                                        *)
(***************************************************************************)
(* Mutant: a thread that is there goes on.                                 *)
startHeartbeatOnce(c) ==
  IF c.heartbeat = NoHost THEN [c EXCEPT !.heartbeat = c.usedAddr] ELSE c

(* The heartbeat thread that was there is cancelled.                       *)
startHeartbeat(c) == [c EXCEPT !.heartbeat = c.usedAddr]

(* What the block finds in the fields is of the time at which it runs.     *)
RunBlock ==
  /\ MainReady /\ client.blocks # <<>> /\ QueueBound
  /\ LET block == Head(client.blocks)
         c == [client EXCEPT !.blocks = Tail(@)]
     IN /\ client' =
             CASE block = "groupRegistered" ->
                    registerSelf([c EXCEPT !.retryCount = 0, !.usedAddr = c.tryAddr])
               [] block = "selfRegistered" ->
                    startHeartbeat([c EXCEPT !.retryCount = 0])
               [] block = "retryGroup" -> registerLocalGroup(c, localServerHost)
               [] block = "retrySelf" -> registerSelf(c)
        /\ clusterState' = IF block = "selfRegistered" THEN "Started" ELSE clusterState
  /\ UNCHANGED <<networkVars, elector, localServerHost, events, thread, lsTask,
                 registered>>

(* Bonjour calls; most calls leave the client alone.                       *)
Resolved ==
  /\ MainReady /\ QueueBound
  /\ \E s \in Services : netServiceDidResolveAddress(s)
  /\ clusterState' = "ClientRegistering"
  /\ client' = registerLocalGroup(client, localServerHost')
  /\ UNCHANGED <<networkVars, thread, lsTask, registered>>

(* startLocalServer: an own server that was running is stopped, its task   *)
(* is made and waits ...                                                   *)
Published ==
  /\ MainReady
  /\ netServiceDidPublish
  /\ clusterState' = "ServerStarting"
  /\ stopLocalServer("created")
  /\ thread' = [thread EXCEPT !["main"].at = "launch"]
  /\ UNCHANGED <<networkVars, client>>

(* ... to be launched two seconds later.                                   *)
Launch ==
  /\ thread["main"].at = "launch" /\ QueueBound
  /\ thread' = [thread EXCEPT !["main"] = Ready]
  /\ lsTask' = "running"
  /\ clusterState' = "ClientRegistering"
  /\ client' = registerLocalGroup(client, localServerHost)
  /\ UNCHANGED <<networkVars, elector, localServerHost, events, registered>>

BonjourCalls ==
  /\ MainReady
  /\ \/ netServiceBrowserWillSearch
     \/ \E s \in Services : didFindService(s) \/ didNotResolve(s)
     \/ \E s \in Services, moreServicesComing \in BOOLEAN :
           didRemoveService(s, moreServicesComing)
     \/ onSearchTimeout
  /\ UNCHANGED <<networkVars, clusterState, localServerHost, threadVars, lsTask,
                 registered>>

BonjourFails ==
  /\ MainReady
  /\ didRemoveOtherService \/ didNotPublish
  /\ UNCHANGED <<networkVars, clusterState, localServerHost, threadVars, lsTask,
                 registered>>

NetworkChanges ==
  /\ \E s \in Services :
        lan' = IF s \in lan THEN lan \ {s} ELSE lan \cup {s}
  /\ Event
  /\ UNCHANGED <<clusterState, LSConfig, elector, localServerHost, threadVars,
                 lsTask, registered>>

Init ==
  /\ clusterState = "Stopped"
  /\ LSConfig \in LSConfigs
  /\ elector = NewElector
  /\ localServerHost = NoHost
  /\ lan \in SUBSET Services
  /\ events = 0
  /\ client = NewClient
  /\ thread = [t \in Threads |-> Ready]
  /\ lsTask = "none"
  /\ registered = {}

MainNext == StopNext("main") \/ Launch \/ RunBlock

BonjourNext == Resolved \/ Published \/ BonjourCalls

Next ==
  \/ UserStarts \/ UserStops \/ UserRestarts \/ SelectLSConfig
  \/ \E q \in Queues : QueueNext(q)
  \/ HeartbeatAsks \/ MainNext
  \/ BonjourNext \/ BonjourFails
  \/ NetworkChanges

(* The threads go on and Bonjour calls back.                               *)
Fairness ==
  /\ \A q \in Queues : WF_vars(QueueNext(q))
  /\ WF_vars(MainNext) /\ WF_vars(BonjourNext)

Spec == Init /\ [][Next]_vars /\ Fairness
-----------------------------------------------------------------------------
(* A stop that is going to withdraw the service.                           *)
Withdrawing(job) ==
  job.withdraws /\ job.at \in {"cancel", "unregister", "served", "withdraw"}

(* A machine on which the others find a service runs the server they then  *)
(* register at, or it is about to launch it, or the thread that stopped    *)
(* the server is on its way to withdraw the service: no other thread, no   *)
(* restart and no late publication leaves a service without a server.      *)
PublishedServerRuns ==
  elector.myMesherService = "published" =>
    \/ lsTask = "running"
    \/ thread["main"].at = "launch"
    \/ \E t \in Threads : Withdrawing(thread[t])

(* No request but for a list, no job and no block is under way.            *)
AtRest ==
  /\ \A q \in Queues : \A i \in DOMAIN client.operations[q] :
        client.operations[q][i].kind = "list"
  /\ \A t \in Threads : thread[t] = Ready
  /\ client.blocks = <<>>

(* The requests of this session are the client's: no block of a session    *)
(* that was stopped has run since (such a block leaves the client without  *)
(* a queue), and no attempt to find an address was given up.               *)
SessionIntact == client.queue # NoQueue /\ ~client.told

(* Once all is done, a started client beats at a server that knows its     *)
(* user: registration, retries at other addresses, new servers, stops on   *)
(* another thread and restarts never leave the heartbeat at a server that  *)
(* only some earlier registration reached.  A server that is gone is for   *)
(* the heartbeat to find out.                                              *)
BeatsWhereRegistered ==
  clusterState = "Started" /\ AtRest /\ SessionIntact /\ Up(client.heartbeat)
    => client.heartbeat \in registered

(* A mesher that is stopped stays so until it is started, and starts with  *)
(* its search: "First, Mesher is at STOP state.", "when state event        *)
(* happen, to SEARCH state" (doc/MesherDesign).  With an address in the    *)
(* preferences there is no search.  The code breaks it: blocks, retries    *)
(* and the timer of a session that was stopped go on.                      *)
LeavesStopToSearch ==
  [][clusterState = "Stopped" /\ LSConfig \notin Services
       => clusterState' \in {"Stopped", "Stopping", "AutoDiscovering"}]_vars

(* A service that was found stays in the list although its resolution is   *)
(* over: no timer, and no call of Bonjour's, takes it out.                 *)
Stranded ==
  /\ elector.browser = "searching"
  /\ elector.reported = lan
  /\ elector.allMesherServices # <<>> /\ elector.resolving = {}
  /\ elector.myMesherService # "publishing"

(* The search and the publication run in a loop that does not.             *)
OnTheQueuesThread == elector.browser = "idle" \/ elector.myMesherService = "idle"

(* A search that the user started before the stop on the queue's thread    *)
(* came to the elector is stopped with the earlier one.                    *)
CutOff ==
  elector.browser = "none" /\ elector.myMesherService = "none" /\ ~elector.timer

(* A search ends, with a service that is resolved or with the client's     *)
(* own, whatever comes and goes in the network meanwhile.  It may go on    *)
(* for ever when the queue's thread started it, when it is stranded, and   *)
(* when a publication failed after the preference came to name a host.     *)
SearchEnds ==
  clusterState = "AutoDiscovering"
    ~> \/ clusterState # "AutoDiscovering"
       \/ OnTheQueuesThread \/ Stranded \/ CutOff
       \/ elector.myMesherService = "given up"

(* A client that found its server joins it, or tells the user that it      *)
(* cannot; only the registration of a user at a server that is gone is     *)
(* retried without an end.                                                 *)
JoinsOrTells ==
  clusterState = "ClientRegistering"
    ~> \/ clusterState # "ClientRegistering"
       \/ client.told
       \/ \E q \in Queues : \E o \in ToSet(client.operations[q]) :
            o.kind = "user" /\ ~Up(o.at)
=============================================================================
