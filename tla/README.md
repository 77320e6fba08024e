# Artsmesh in TLA+

Artsmesh connects groups of musicians. A Mac application (Objective-C) runs on
every machine; the machines of one site elect one of them to run a *local mesh
server*, and every site registers its group with one *global mesher*. Both
servers are Go programs. What the application shows, who is online and in which
group, is what these servers hand out, so they and the application's clients
for them are the core of the system, and the subject of these modules.

## 1. Inventory

Paths are below `src/`; `MesherServer2.0` is `src/AMMesherServer/MesherServer2.0`.

### Global mesher (`MesherServer2.0/RemoteServer`)

* **State.** `MemoryDB.go`: a forest of groups (`groupIndex`, each `GroupNode`
  with `superGroupId`, `subGroups`, `userData`), the users (`userIndex`), the
  list `timeSort` that orders users by their last heartbeat, `global_version`
  and the published `DTOSnapShot`. `main.go`: the pipe of commands, capacity 10.
* **Operations.** Add, update, move and delete a group; add, update and delete a
  user; heartbeat, with the removal of the users that timed out (30 s); the
  list of all users.
* **Goroutines.** `net/http` runs every handler of `HTTPServer.go` in a goroutine of
  its own; `UDPServer.go` answers heartbeats in one loop; one executor takes the
  commands from the pipe, changes the database and answers on the command's
  channel. The snapshot is read under a read lock.
* **Hard.** Links kept in two directions and removed in chains
  (`tryRemoveEmptyGroup`); groups merged into each other, which cuts a cycle off
  the root; a sweep that stops at the first user alive and therefore needs
  `timeSort` ordered; a lookup in `userIndex` outside the executor
  (`UDPServer.go:97-120`); senders blocked at a full pipe while readers hold the lock.
* **Correct when** nothing is listed twice or orphaned, the list is complete
  except for merged cycles, the snapshot is current, its version changes with
  its contents, users that timed out go and nobody else does, every request is
  answered.

### Local mesh server (`MesherServer2.0/LocalServer`)

* **State.** `UserList.go`: one group (nil at first) with a password, the users with
  their timestamps, the version, the published snapshot. `main.go`: pipe and timer.
* **Operations.** Register and update the group, change its password; register,
  update and delete a user; heartbeat; list; a check for silent users at each
  tick of a timer (10 s).
* **Hard.** Commands with and without an answer in one pipe; a timer that drops ticks; a
  group that does not exist yet.
* **Correct when** the first group stays, only silent users are swept, silent users
  are swept in the end, clients read their own writes.

### The application's mesher (`AMMesher/AMMesher`)

* **`AMHeartBeat`**: a thread that sends a datagram every 2 s, waits for the answer, and
  tells its delegate; `cancelWithData` stops it and waits for its end.
  Hard: the condition is signalled without its lock and waited for without a
  predicate. Correct when a cancelled thread sends no more than it is asked
  to, and its canceller returns.
* **`AMLocalMesher`**: starts the local server or connects to it, registers the group
  and the user, asks for the list when the heartbeat reports a new version, and takes the
  server for lost when it does not answer.
  Requests run one by one in a queue of operations with a thread of its own, heartbeats on
  another, and what a callback wants of the main thread is dispatched to it. Hard: blocks and
  sleeping retries of a session that was stopped go on; a callback restarts
  the mesher on the queue's thread; what a block finds in the fields may be of another session.
  Correct when a started client beats where it is registered and a client joins or tells
  that it cannot.
* **`AMRemoteMesher`**: the same for the global mesher, and the merging of groups. Hard:
  group and user are registered by two requests between which anything happens;
  a stop does not take back what is dispatched; the group's id changes when a list of
  the local server arrives; a client whose user timed out never registers again.
  Correct when what it shows (meshed or not, the list) is what the server holds.
* **`AMLeaderElecter`, `AMMesher`**: the cluster's state over Bonjour callbacks and
  key-value observers (`clusterState`, `mesherState`). Hard: timers and callbacks that
  outlive a state; a stop that blocks between the end of the server and the end of its service.
  Correct when a published service has a server, or a thread that is about to launch it or to withdraw the
  service, and every search ends.
  `doc/MesherDesign/Mesher State Transfer Design` says what the states should do.
* **`AMNetworkUtils`** (one HTTP request per operation, hole punching) and
  **`AMCoreData`** (holders of fetched data) serve these.

### OSC groups (`AMOSCGroups`)

* **`OscGroupClient.cpp`** (a program of its own, one thread): the table of peers, each with a private, a
  public and a ping endpoint. The group server tells where peers may be; the client pings
  them there, forwards the application's packets to where pings came from, and purges
  peers of which nobody heard. Hard: endpoints change under a link that is in use; three
  periods and four times per peer. Correct when packets go only where a peer
  pinged from, links are kept open, and only silent peers go.
* The Objective-C classes start and stop that program and show messages; `oscpack` is third-party.

### The rest

Audio (`AMAudio`: Jack and JackTrip), UDP echo server, task
launcher, logger, preferences, notifications, StatusNet client and the user interface
(`UIFramewrok`, `Sample/DemoUI`) keep little state that others depend on, drive external
programs, or are adapted third-party code; `Pods` is vendored. They are not modelled.

### How the parts interact

    AMMesher/AMLeaderElecter --starts--> LocalServer <--HTTP/UDP-- AMLocalMesher (every machine)
                |                                                    |
                +--clusterState/mesherState--> AMRemoteMesher --HTTP/UDP--> RemoteServer
                                                     |
                              AMHeartBeat (one thread per client, cancelled by others)

## 2. Modules

| module | models | state | steps |
|---|---|---|---|
| `MemoryDB` | `RemoteServer/MemoryDB.go` | forest, users, `timeSort`, version, snapshot, executor, last answer | one per command; a heartbeat is one step per iteration of `tryRemoveTimeoutUser` and one to end it |
| `VersionedList` | what both servers promise their readers (abstract) | list, version, what is published | publish |
| `MemoryDB_proofs`, `UserList_proofs`, `RemoteServer_proofs`, `LocalServer_proofs`, `AMHeartBeat_proofs`, `AMLocalMesher_proofs`, `AMRemoteMesher_proofs`, `OscGroupClient_proofs` | theorems about the modules they are named after | | |
| `RemoteServer` | `RemoteServer/main.go`, `HTTPServer.go`, `UDPServer.go` around `MemoryDB` | pipe, goroutines, what the executor serves | receive, send, take, execute, sweep, answer, lock, unlock, read the version, look up the user |
| `UserList` | `LocalServer/UserList.go` | group, password, users, version, snapshot | one per command, the check |
| `LocalServer` | `LocalServer/main.go` and its handlers around `UserList` | pipe, goroutines, timer | receive, send, execute, answer, lock, unlock, timer |
| `AMHeartBeat` | `AMHeartBeat.m` and the delegates of both clients | where the thread and its cancellers are, lock, failure counters | one per call that blocks or reports |
| `AMRemoteMesher` | `AMRemoteMesher.m`, the remote side of `AMMesher.m`, `AMHttpAsyncRequest.m`, around an INSTANCE of `MemoryDB` | per client: states, main queue, request queue and its thread, version, list shown; the network | what the user does, one per block, request, callback, and for what the network and the peers do |
| `AMLeaderElecter` | `AMLeaderElecter.m`; Bonjour is external | the elector, Bonjour's objects, the services of the network | one per call of Bonjour's |
| `AMLocalMesher` | `AMLocalMesher.m`, the local side of `AMMesher.m`; EXTENDS `AMLeaderElecter` | state of the cluster, client with its queues and blocks, the job of each thread, own server | what the user does, one per block, answer, retry and callback, one per stage of a stop and of the server's start |
| `OscGroupClient` | `OscGroupClient.cpp` | peers with their endpoints, the clock, the datagrams until now | one per message, the timer |

`MemoryDB` and `UserList` are what the servers promise, one command at a time.
`RemoteServer` and `LocalServer` EXTEND them, use their actions for what the executor
does, and are shown to implement them (`ImplementsMemoryDB`, `ImplementsUserList`):
the store's variables are the same, all other variables are hidden.

Both stores in turn implement `VersionedList` (`ImplementsVersionedList`). The refinement maps
`list` to what `makeSnapShot` would copy now (in `MemoryDB` the tree below the root, `copyGroupToDTO`;
in `UserList` the group and the users, without the password), `version` to the store's version,
and `published` to the snapshot. Every command is a `Publish` or a stutter: a change that is not
published, or is published under an old version, would be neither. That is what lets
clients compare versions only, which `AMRemoteMesher` and `AMLocalMesher` do.

`AMLocalMesher` composes the elector with the client: setting `clusterState` runs
the observers at once, in the thread that sets it, so that a call of Bonjour's (`Resolved`)
goes on in `registerLocalGroup` within its step. What blocks on the way is a *stage* of its own: a thread has a job
(`thread[t]`), and the other threads run between the stages of it.

* A stop (`AMLocalMesher.m:91-97, 403-421`): the server is terminated and the heartbeat cancelled (`cancel`: its thread's end is waited for),
  then the queue's operations are cancelled (`CancelOperations`), then `unregisterSelf` blocks for an answer (`unregister`), then the
  fields are cleared and the state is `kClusterStopped` (`served`), and only then the elector withdraws the service (`withdraw`). A
  restart starts the mesher again after that (`start`). On the main thread nothing else of that thread runs meanwhile; a
  stop on a queue's thread (`AMLocalMesher.m:526`) lets Bonjour, blocks, timers and the user in at every stage.
* The local server is launched two seconds after its task was made (`AMLocalMesher.m:134`): `Published` makes the task,
  `Launch` launches it. To terminate a task that was made and not launched raises an exception that
  nobody catches: `ProgramEnds`.
* Observers of one change are notified in an order that Foundation leaves open: whether the elector stops before or
  after the client is a choice (`electorLast`). As they are registered, it stops after it.
* A queue that a stop gave up goes on with what it has begun: `Queues` has one for the session and one for the session before.

Correspondence worth knowing:

* Nodes are named by their ids, since every pointer is reached through an index.
  A node that left its index is garbage, and its record is back at its initial value.
* `age` stands for `timestamp`: the time since, no further than the timeout tells
  apart. Time passes by `Tick`. The sweep tests `>=` in `MemoryDB.go` and `>` in
  `UserList.go`; the models keep the difference.
* A nil dereference, or a write to the root's nil map, panics in the executor and so
  ends the process: `exec.pc = "dead"`, `dead`. Go ends the process when it notices
  that a map is read and written at once: `fatal`.
* `tryRemoveTimeoutUser` ignores that `DeleteUser` may refuse. It then spins at the same
  user for ever, and the model does too.
* `EmptiedFrom` and `Reached` are least fixed points where the code loops and recurses.
* A request of a client is a step that starts it, one in which the server executes it, one in
  which its callback runs, and one of the main thread for each block the callback dispatched.
  A stop is two steps in `AMRemoteMesher`: the requests are cancelled, then
  `unregisterSelf` is sent and waited for while everything else goes on.
* `trouble` in `AMRemoteMesher`, `pinged` and `lastSign` in `OscGroupClient`, and `told` in
  `AMLocalMesher` are history: no guard reads `pinged`, `lastSign` and `told`, and `trouble` only bounds.
* Threads of the application: `idle` in `AMLeaderElecter` says that a browser or a service was
  scheduled in a run loop that nobody runs (the queue's thread): it never calls back.
* `UnusedRequests` adds the requests that the server handles and the application never
  makes: `/groups/delete`, an update that names a group, `/message/send`.

Operators that follow a comment beginning with "Mutant:" are not part of the model. Each is
a variant of the definition below it with a plausible error. PROJECT.json pairs
every property with one that breaks it, which shows that the property says
something about that definition.

## 3. Runs

| run | configuration | what it shows |
|---|---|---|
| `store_app` | 3 groups, 2 users, timeout 2, 7 versions, the app's requests | links and time list agree; nothing is orphaned; no request panics the executor; who is hidden is in a merged cycle; leaving the cycle shows the group again; the store implements `VersionedList`; a heartbeat leaves nobody that timed out; a user that leaves leaves no empty group |
| `store_all` | 2 groups, 2 users, every request | a heartbeat is answered unless the process ends or the sweep meets a user of a deleted group |
| `store_move_in_place` | as `store_app` | a counterexample: `MoveGroup` into the present super group is no no-op |
| `remote_server` | 1 group, 1 user, 2 HTTP goroutines, pipe of 1 | the goroutines implement `MemoryDB`; answers find their receivers; a client never gets a list older than the version it was told; every request is answered while the process lives |
| `local_store` | 2 groups, users, profiles, passwords | the first group stays; only a server without a group panics; the store implements `VersionedList` |
| `local_server` | 1 group, 1 user, 1 HTTP goroutine, pipe of 1 | the goroutines implement `UserList`; answered and unanswered commands do not get mixed up; clients read their writes; requests are answered, silent users removed although ticks are dropped, and nobody else but who asks for it |
| `heartbeat` | local delegate, 2 cancellers | the thread sends one more beat at most, wakes its canceller unless that one did not wait yet; a list is asked for at every fifth failure |
| `heartbeat_remote` | remote delegate | a counterexample: the remote delegate does not ask at the fifth failure |
| `remote_client` | 1 client and 1 peer, 2 groups, 1 thing that goes wrong | what the client shows of itself and of the list is what the server holds, but for the races and losses its properties name |
| `local_mesher` | 1 other machine, 2 addresses per host, 2 queues, 3 events | a published service has a server, or a thread that will launch it or withdraw the service; a started client beats where it is registered; every search ends; a client joins or tells |
| `local_mesher_stop` | as `local_mesher` | a counterexample: a stopped mesher starts again without a search |
| `osc_client` | 1 peer, 3 addresses, 10 seconds, 4 datagrams, short periods | packets go only where the peer pinged from; links are kept open; silent peers are purged, and only they |

Three of them show where the code differs from what its comments and documents say.

* `MemoryDB.go:150` reads the group's own id where the super group's is meant, so
  the early return of line 152 ("alread in") is never taken: a move in place
  publishes a new version of an unchanged list, and every client fetches it.
* `AMRemoteMesher.m:615` sets the failure counter to 0 when a datagram was *sent*, so
  that the counter seldom gets to 5, and the list that line 627 says is
  requested "every 5 times" is not. `AMLocalMesher.m:672` has that assignment
  commented out, and the property holds there.
* `AMLeaderElecter.m:173`: the timer of a search repeats and is never invalidated, and what it
  calls looks neither at the state nor for a browser. Five seconds after the user stopped a search it
  publishes a service, the local server starts, and the mesher registers. The design document says
  that a mesher leaves STOP for SEARCH, on an event of the user's.

Further observations, which contradict nothing that is written, but which the properties
had to make room for. Each was met as a counterexample to a stronger form.

* A registration that ends while its client is stopped still meshes it (`trouble` "stopped"), and nothing takes
  it back. A user that the server swept as silent stays meshed in its own eyes.
* A list without groups is dropped (`AMRemoteMesher.m:471`) after its version was stored.
* When the search fails to resolve a service the client publishes its own at once; the document
  has it go back to searching. The service stays in the list, and with it in the list the
  timer does nothing: if the publication fails as well the search never ends (`Stranded`).
* A failed list request restarts the search on the queue's thread, where no run loop runs:
  such a search never ends either (`OnTheQueuesThread`).
* The same restart lets the main thread in. When the user starts the mesher after the queue's thread set
  `kClusterStopped`, and before the elector saw it, the new search is stopped with the old one (`CutOff`). Between the end of
  the server and the end of its service, while the unregistration waits for its timeout, other machines
  find a service without a server (`Withdrawing`), as they do in the two seconds before a launch.
* What another thread put into the client's fields while a stop was blocked is lost with them
  (`ClearClient`): a heartbeat thread then goes on that nobody can cancel (`stray`).
* `_retryCount` goes back to 0 only with a success or a new queue. After the addresses
  were used up, every further registration of the session fails at once.
* An OSC client whose link was silent for three periods forces the establishment at every
  poll, since each poll sets the count back to 0.

### Bounds, and why they are enough

* Three groups are the least with a chain (root, group, group, group) in which the removal
  of empty groups goes on for two levels, and with a cycle that a third group is outside of.
  Two users are the least for which the order of `timeSort` matters and for a group that
  stays when one leaves.
* `MaxVersion` bounds the commands (each successful one publishes one version); heartbeats and
  sweeps are taken at every version, so that no sweep is cut off. 7 versions are
  six commands: three groups, two users and one move or removal, or fewer
  groups and more moves. The theorems below need no bound.
* `AcceptVersion` stops requests that change something early enough that none that is under way
  meets `MaxVersion`; `AcceptAssumption` says how early. Otherwise a request might be stuck at
  the bound, which would look like a server that does not answer. In `remote_server` such requests
  arrive at the first version only, and with the sweeps take it up to version 5; heartbeats and requests for the list are received at
  every version, so that a client is told of each of them and asks for the list afterwards. A list that
  is one version behind what was told is told apart from one that is not (the mutant of `ListAsNewAsTold`). In
  `local_server` all HTTP requests stop at `AcceptVersion`, which lets in two versions to be told of.
* A pipe of one command is full most of the time, which is the hard case of the code's 10.
* Profiles matter only in whether an update changes something: `store_all` and `local_store` have two. The other runs have one, since
  versions change with every update there, and the theorems hold for any number.
* `remote_client`: one client with everything it can do, at a database that a second user changes too
  (`PeerAsks`, `Sweep`), which is all that another client could do to this one. `AcceptVersion`, `EditVersion` and
  `PeerVersion` let the client go online, edit, and be interfered with in its first versions, while `MaxVersion` is never
  met. `MaxTrouble = 1`: each property excuses named troubles; one at a time shows that
  every other single trouble is harmless.
* `local_mesher`: two addresses let a registration give one up for the next, and two queues let one that was given up go on
  beside its successor. Events are starts, stops, restarts, changes of the preference and of the network, failures of a
  server that is up, and questions of a heartbeat that is answered. Three are enough for a start with
  a stop during a retry and a new start; for a preference that changes between two reads of it; and for
  a server that leaves, which makes the queue's thread stop the mesher, while the user stops
  and starts it (68 364 states). One other service: services differ only
  in name, and Bonjour reports each by itself.
* `osc_client`: the periods keep the order of the real ones (idle at most active, retry below purge), 10
  seconds are two purges long, four datagrams are a peer that is told, pings, moves and pings again. Three
  addresses are one for each endpoint. The theorems need no bound.
* In `AMHeartBeat` the failure counters go on at 6 after 10: only whether they are at least
  5, and their value modulo 5, is ever used.

`CHECK_DEADLOCK FALSE` is set where the system may stop: after a panic, after
`fatal`, at the version bound with nothing under way, when the heartbeat thread and its
cancellers ended, when the clock and the events are used up, or when a mesher waits in a loop that never runs.

### Fairness

* Executor and HTTP/UDP goroutines: weak fairness, since the Go scheduler runs what can
  run. Sends to the pipe: strong fairness, since a channel admits waiting senders in
  the order in which they came.
* The timer's clock ticks (weak fairness) in `LocalServer`, where a timer drives the sweep; not
  in `MemoryDB`, where nothing but heartbeats does.
* `AMHeartBeat`: each thread runs while it can; locks are granted in the end. No answer has
  to arrive and no wait has to end without a signal.
* `AMLocalMesher`: each queue's thread, the main thread with its jobs and blocks, and Bonjour's calls go on
  (weak fairness of each: a job's stages end by themselves or by a request's timeout). The user, the network, and the heartbeat's questions owe nothing.
  `AMRemoteMesher` and `OscGroupClient` state no fairness: all said about them is safety.
* Clients owe nothing anywhere: no request has to be made.

## 4. Proofs

Every safety property that a passing run checks is also a theorem, for every value of the constants that
the modules' assumptions admit: all invariants, all action properties and the four refinements. The theorems listed in
PROJECT.json are the ones to read first; the rest are the lemmas they rest on. The modules stand on
each other as the specifications do:

    MemoryDB_proofs  <--EXTENDS--  RemoteServer_proofs        UserList_proofs <--EXTENDS-- LocalServer_proofs
           ^
           +--INSTANCE (P!...)--  AMRemoteMesher_proofs       AMLocalMesher_proofs, AMHeartBeat_proofs,
                                                              OscGroupClient_proofs: on their own

### The global mesher's database (`MemoryDB_proofs`)

For every set of groups, users and profiles, every timeout, version bound and kind of request:

* `InvHolds`: `Spec => []Inv`, where `Inv` is types, `ListedOnce`, `TimeSorted` and `SnapShotCurrent`
  together. `ListedOnce` and `TimeSorted` are not inductive without the types, and the action
  properties below need several parts at once. One lemma per command
  (`AddNewGroupKeepsInv`, ..., `TickKeepsInv`), put together in `NextKeepsInv`.
* `TypeCorrect`, `ListedOnceHolds`, `TimeSortedHolds`, `SnapShotCurrentHolds` follow.
* `AnsweredHeartbeatSweptHolds`: a heartbeat ends at a user that is alive at the front of
  `timeSort`, and by `TimeSorted` nobody behind it is older.
* `AppNeverOrphans`: if `UnusedRequests` is FALSE then `NoOrphans` and `NoPanic` always hold.
  `AppInv` adds `NoOrphans` to `Inv`; the lemma behind it is that `EmptiedFrom` goes up
  from empty group to empty group and takes none that something else refers to
  (`EmptiedFromProperties`, `RemovalOrphansNothing`). `AppNeverPanics` is the other half.
* `RemovalLeavesNoEmptyGroup`: `tryRemoveEmptyGroup` stops at the first super group that is
  not empty, so that any group which a removal leaves empty was empty before. `EmptiedFrom` is a least fixed point;
  `EmptiedFromClimbs` says that what it takes is a path: with each group also the group above if that
  lost its last contents, and only one at the upper end, since of two the path to one would be closed without the other.
* `UnmergedGroupShows`: moving a group back below the root puts it into `Reached`, and so into the snapshot.
* `OnlyCyclesHide`: `Reached`, the way down that `copyGroupToDTO` takes, and `Above`, the way up that
  `HiddenOnlyInCycle` is stated with, are fixed points over opposite links. `ReachedFromAbove` shows that they
  are converse to each other wherever nothing is orphaned, from `ListedOnce` and `NoOrphans`.
* `DatabaseImplementsVersionedList`: `Spec => ImplementsVersionedList`. `SnapShotCurrent` maps the
  initial state; a step of the database leaves all that is listed alone or ends in `makeSnapShot`,
  which takes the next version (`Inv` gives the types in which the two records agree).

The assumptions are those that `MemoryDB` states for its constants: the root is no group, users
and groups are different ids, the timeout is positive, bounds are numbers.

### The global mesher's goroutines (`RemoteServer_proofs`)

For any finite numbers of HTTP goroutines and users, and any capacity of the pipe:

* `ServerInv` is `AppInv` of the database together with `ServerTypeOK` and
  * `Waiting`: a goroutine that waits has its command in the pipe, once, or is being served, and whoever has is waiting.
    `AnswersMatch` alone is not inductive, since it says nothing of a command while it is in the pipe;
  * `HasRequest`, `ExecutorPlace`: a command in the pipe is a request, and the executor is between two iterations of a sweep
    exactly while it serves a heartbeat;
  * `ToldPublished` and `ListAsNewAsTold`: no version was reported that is not published yet. What a goroutine
    read under the lock stays at least what was told when its request came in, though the executor publishes before it
    takes the lock;
  * `Budget`: how far `global_version` can still get. A request publishes at most once, and may add a user whose
    removal publishes once more; so does the end of a sweep. It shows that the guard at `MaxVersion`, which
    is a bound of the model and not of the code, never disables a command (`CommandAccepted`): without it the
    theorems would be about a server that stops there. For any `AcceptVersion`, `AcceptAssumption` holds
    with a `MaxVersion` that is large enough, so that it excludes no behaviour of the code.
* `ServerImplementsDatabase`: every step of a goroutine is a step of `AppNext` or leaves the database alone.
* `AnswersAlwaysMatch`, `ListNeverBehind`, `ServerNeverOrphans`: with concurrent requests the executor does not
  panic either (`fatal`, the map that is read while it is written, is not ruled out: the code allows it).
* By the refinement, what was proved of the database holds of the server: `ServerPublishesVersions` (two refinements
  composed), `ServerSweeps`, `ServerHidesOnlyCycles`.

### The local server's store (`UserList_proofs`)

For every set of groups, users, profiles and passwords and every timeout:

* `StoreInv`: types, `SnapShotCurrent` and `PanicsOnlyWithoutGroup` are inductive together. A removal that
  would panic is ruled out because a server without a group has no users, and
  `PublishUsersKeepsInv` treats the commands that end in `makeSnapShot` alike.
* `StoreTypeCorrect`, `StoreSnapShotCurrent`, `StorePanicsOnlyWithoutGroup` follow.
* `StoreImplementsVersionedList`: each step publishes under the next version or leaves all that is
  published alone (`NextPublishes`).
* `StoreGroupStays`: no command replaces a group that exists (`NextKeepsGroup`).
* `RemovalLeavesOthers` and `OthersTakeNobodyAway` are for the server below: users get lost in `RemoveUsers` only, and
  those are the one who asked or the ones that timed out.

### The local server's goroutines (`LocalServer_proofs`)

* `ServerInv` is built in the same way, over `Inv` of `UserList_proofs`. `Waiting` speaks of the commands with an answer
  only, since heartbeats and checks are sent without waiting for one; `Budget` counts the commands in the
  pipe by their places, because several without an answer may be of one goroutine.
* `ServerImplementsStore`, `AnswersAlwaysMatch`, `ListNeverBehind`, `ServerPanicsOnlyWithoutGroup`, and
  by the refinement `ServerPublishesVersions` and `ServerKeepsGroup`.
* `ServerSweepsSilent`: `OnlySilentUsersSwept`, that whoever leaves was silent for longer than the timeout or is named by the
  `user_delete` that is executed. It is stated here and not of the store, where a step does not say
  which command it executes: there the removal of one user at his request and a sweep of that user are the same step.

### The heartbeat thread (`AMHeartBeat_proofs`)

For any number of threads that cancel it:

* `HeartBeatInv`: types, `SignalMeansEnded`, `OneBeatAfterCancel` and `LateByPlace`, which says what was
  sent since the cancellation by where the thread is. `OneBeatAfterCancel` alone is not inductive:
  from a state with one late beat that is about to send another it would fail, and
  `LateByPlace` says that there is none.
* `HeartBeatTypeCorrect`, `HeartBeatSignalMeansEnded`, `HeartBeatOneBeatAfterCancel` follow.
* `LocalMesherAsks`: with the local delegate `AsksEveryFiveFailures` holds, as its counter equals the
  failures since the last answer. For the remote delegate the run `heartbeat_remote` refutes it.

### The OSC client's peers (`OscGroupClient_proofs`)

For every set of users and addresses, all periods that `PeriodAssumption` allows, and any number of datagrams:

* `OscInvariant`: `IInv` is types and, for every peer in the table, `PeerInv`. The run's invariants say something
  of the endpoint in use only, after the timer; that is not inductive, because a message may put any other
  endpoint into use, and the clock may tick. `PeerInv` adds what holds at any time of every endpoint from which the
  peer pinged: its address is in `pinged` (`FromPinged`), the table remembers the last sign of the peer but
  for `MaxSeconds` (`Remembers`), and while the link is being established each was pinged in the last period
  (`PhasePinged`), so that any of them may come into use.
* One lemma for what each helper leaves of `PeerInv` (`SendPingsEffect`, `PollEffect`, `RestartEffect`,
  `SetEndpointEffect`, `ForwardedEffect`, `PingEffect`, `InfoEffect`), one per action, put together in `StepInv`.
* `OscForwardsWherePinged`, `OscLinkKeptOpen`, `OscSilentPeersGone` and `OscPurgedOnlyWhenSilent` follow.

### The local side of a mesher (`AMLocalMesher_proofs`)

For any other machines, any number of addresses per host, of request queues and of events:

* `ServiceMeansServer`: `PublishedServerRuns`. Only `Published` publishes, and gives the main thread the job of launching the server;
  only a thread that is going to withdraw the service, or stopped the elector in the same step, ends the server.
  That it withdraws the service before it has another job needs the types of the threads' jobs. A
  service without a server that no thread has in hand does not occur.
* `HeartbeatMeansRegistered`: `BeatsWhereRegistered` is about a started client at rest. The invariant says the same of one
  that is busy, in terms of what is under way:
  * the last registration in the queue is for the address in use (`Regular`, by `LastUserWhereUsed`);
  * a client that has a queue and did not give up (`told`) has another registration in the queue, or a thread is at a stage at whose
    end the client is stopped or registers again (`Leaves`), or its heartbeat goes where the user is registered
    or a block is still to run (`BeatRight`), and the block "selfRegistered" will start its heartbeat
    where the user is registered or another block asks for a registration (`UsedRight`). Together they are `Right`.

  A client without a queue promises nothing: blocks are not taken back by a stop and run in the next session. `QueueAssumption`
  is that there is a queue, and that no queue is the main thread.
* The elector's list of services has no type in `TypeOK`: nothing proved depends on it, and what
  `SelectSeq` leaves of a sequence is an induction.

### The clients of the global mesher (`AMRemoteMesher_proofs`)

For any number of clients, peers and groups, and whatever goes wrong. `DatabaseAssumption` repeats
what `MemoryDB` assumes of its constants. What a command does to users and groups is taken from
`MemoryDB_proofs` (its lemmas `AddNewGroupOutcome` to `QuietOutcome`), where the proofs need not look at
the forest again.

* `ClientsRegular`: types, the database's `AppInv`, and `Orderly`, the order in which a client registers. At most one
  registration is under way at a time, in the queue, on the wire, or as a block of the main thread, and none while
  the client is not "Meshing", until it is stopped while it registers.
* `OfflineStays`: a client that is off does not mesh, unless it was stopped while it registered: until then `Orderly` leaves
  no answer and no block that could mesh it.
* `MeshedRegistered`: a client that says "meshed" is registered or its trouble says why not. `Known` strengthens it to
  `Claims`: a client that is meshed, has the block that will say so, or holds the answer that will dispatch
  it. Only the sweep and late requests, which are troubles, remove a user under its client (`OwnIndex`, `OthersKnown`).
* `UnmeshedGone`: after going offline the user is unregistered, and no request that was on its way registers it again. `Registration`
  adds that a client that is registered while it is off still has something under way (`Pending`), and that
  whatever is under way names the group the client is in (`WaitsInGroup`).
* `KnownListShown`: the client that stored the server's present version shows that list. `Shown` looks at the last block that
  shows a list (`WillShow`): blocks run in order, the list of that one is the one stored, and nothing older can
  come behind it, because an answer is compared with the stored version when it arrives (`NotNewer`).
* `RegistrationArrives`: a client does not get stuck at "Meshing", unless one of the troubles that `CannotMesh` names
  happened. `Progress` lists the places in which the registration may be, each of which leads to the next as
  long as the group is there that the first request registered; `Quiet` says that nothing of an earlier session
  gets in between.

These invariants are as they are because of the troubles that the properties name: each part says up to which
trouble it holds. TLC checked each of them (`ClientInv`, `KnownInv`, `RegisteredInv`, `ShownInv`, `ProgressInv`) on the instance of
`remote_client`, with the bounds for edits and peers one lower, before it was proved; the invariants of the other proof modules
on the instances of their runs.

### Only model-checked

Liveness is out of the prover's reach, here and in general where `ENABLED` is needed: `HeartbeatAnswered`,
`RequestsAnswered` (of both servers), `SilentUserRemoved`, `CancelReturns`, `SearchEnds` and `JoinsOrTells`. All
else that passes is proved. The three violations are of course runs only. Type invariants and
`SnapShotCurrent` are the other way round: proved, and no run repeats them.

## 5. Not modelled, and why

* Requests whose group id is the root's id `""`, except as the target of a move and
  in an update of a user: group ids are UUIDs that the clients make.
* Steps of the wall clock. Both servers compare readings of it; ages only grow.
* Messages: `/message/send` panics (it is modelled as that), `/message/receive` sends no command.
* Observers that are notified of one state while one of them sets the next: each takes every state once. In
  `AMLocalMesher` the order of the elector and the client at a stop is open; in `AMRemoteMesher` the order is that of the registration.
* In `AMLocalMesher`, a request that a cancelled operation still sends, and `updateMyself` and
  `updateGroupInfo`, which are sent once and change nothing in the client. `AMRemoteMesher` has
  both (`late`, `Edit`). Not more queues than `Queues` at a time: a third session waits until one that was given up is empty.
* `AMRemoteMesher.stopMesher` on any thread but the main one. The restart on the local request queue's thread (`AMLocalMesher.m:526`)
  reaches the remote side, too, and stops it beside the main thread. Most of what that adds is what the trouble
  "stopped" stands for already: the answers, blocks and registrations that were under way.
* In `AMHeartBeat`, turns of the loop without a delegate or without data (`AMHeartBeat.m:96-107`): they
  go back to the test of the flag and do nothing else.
* In `AMRemoteMesher`, `requestPublicIp` and its timer (socket I/O); heartbeats that fail and the
  end of the thread are in `AMHeartBeat`, the local side is up or down.
* In `OscGroupClient`, what the server says of users of other groups (it is ignored), the
  alive message's contents and the aliveness of the server; a clock that goes back.
* Core data, audio, echo server, task launcher, logger, preferences, notifications, StatusNet client
  and user interface: holders of data, wrappers around other programs, or views. No order of
  events between them is at stake, so that a model would only repeat them.
* Most C and C++ of the repository is third-party (`jack`, `GCDAsync*.h`, `GTL`, `oscpack`, `md5`, the frameworks' headers):
  `OscGroupClient.cpp` is the only file of it with logic of Artsmesh's own, and is modelled.
  The core is in Go and Objective-C, which is where the other modules are.
* What JSON and HTTP carry is reduced to ids and one profile.

## 6. Plan

The modules of the earlier plans are done, and so are the proofs of the safety properties. What is left:

1. A type for the elector's list of services in `AMLocalMesher_proofs`, with a lemma on `SelectSeq` that does without an
   induction, should something proved come to depend on it.
2. Theorems about more than one session of a client: whether a list that is shown is ever older than the
   one shown before, for which `Shown` would have to compare `liveGroups` with the versions still to be shown.
3. Two clients in `remote_client` in place of a client and a peer, should a reduction make it small enough. The
   theorems cover any number.
