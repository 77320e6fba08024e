------------------------- MODULE AMLocalMesher_proofs -------------------------
(***************************************************************************)
(* Theorems about the local side of a mesher, for any number of machines,  *)
(* addresses, request queues and events.                                   *)
(***************************************************************************)
EXTENDS AMLocalMesher, SequenceTheorems, TLAPS

Hosts == Services \cup {Self, NoHost}
Retries == {"retryGroup", "retrySelf"}
Blocks == Retries \cup {"groupRegistered", "selfRegistered"}
Operations == [kind : {"group", "user", "list"}, at : Hosts]

ClientSet ==
  [queue : Queues \cup {NoQueue}, operations : [Queues -> Seq(Operations)],
   blocks : Seq(Blocks), retryCount : Nat, tryAddr : Hosts, usedAddr : Hosts,
   heartbeat : Hosts, stray : BOOLEAN, told : BOOLEAN]

(* The stages at whose end the client is stopped, or registers again.      *)
Leaving == {"sleep", "launch", "cancel", "unregister", "served"}

Jobs ==
  [at : Leaving \cup {"ready", "withdraw", "start", "ended"},
   what : Retries \cup {"none", "stop", "restart", "client"},
   withdraws : BOOLEAN, host : Hosts]

ThreadsOK ==
  /\ thread \in [Threads -> Jobs]
  /\ \A t \in Threads : thread[t].at = "sleep" => thread[t].what \in Retries

(* The elector's list of services is left out: nothing here depends on it. *)
TypeOK ==
  /\ clusterState \in {"Stopped", "Stopping", "AutoDiscovering", "ServerStarting",
                       "ClientRegistering", "Started"}
  /\ LSConfig \in LSConfigs
  /\ "myMesherService" \in DOMAIN elector
  /\ localServerHost \in Hosts
  /\ lan \subseteq Services
  /\ ThreadsOK
  /\ lsTask \in {"none", "created", "running"}
  /\ registered \subseteq Hosts

(* The user is registered where the address of the registration was last   *)
(* agreed on: a later agreement asks for a registration of its own.        *)
LastUserWhereUsed(ops, used) ==
  \A i \in 1..Len(ops) :
     /\ ops[i].kind = "user"
     /\ \A j \in 1..Len(ops) : j > i => ops[j].kind # "user"
     => ops[i].at = used

Regular(c) ==
  /\ c \in ClientSet
  /\ c.queue # NoQueue => LastUserWhereUsed(c.operations[c.queue], c.usedAddr)

(* A request that will lead to a registration.                             *)
Asks(ops) == \E i \in 1..Len(ops) : ops[i].kind # "list"

Leaves(thr) == \E t \in Threads : thr[t].at \in Leaving

Knows(host, reg) == host = NoHost \/ host \in reg

(* The heartbeat that a block is to start goes where the user is           *)
(* registered, unless another block asks for a registration.               *)
UsedRight(c, reg) ==
  \/ Knows(c.usedAddr, reg)
  \/ \E i \in 1..Len(c.blocks) : c.blocks[i] # "selfRegistered"

BeatRight(c, reg) == Knows(c.heartbeat, reg) \/ c.blocks # <<>>

(* A client without a queue is right whatever its blocks will do to it,    *)
(* one that found no address and says so promises nothing.                 *)
Right(c, thr, reg) ==
  c.queue # NoQueue /\ ~c.told
    => \/ Asks(c.operations[c.queue])
       \/ Leaves(thr)
       \/ UsedRight(c, reg) /\ BeatRight(c, reg)

IInv ==
  /\ TypeOK
  /\ PublishedServerRuns
  /\ Regular(client)
  /\ Right(client, thread, registered)
-----------------------------------------------------------------------------
(***************************************************************************)
(* Requests.                                                               *)
(***************************************************************************)
(* A request behind the others: that of a user makes up for those that are *)
(* elsewhere.                                                              *)
LEMMA AppendRequest ==
  ASSUME NEW ops \in Seq(Operations), NEW e \in Operations, NEW used,
         IF e.kind = "user" THEN e.at = used ELSE LastUserWhereUsed(ops, used)
  PROVE  /\ Append(ops, e) \in Seq(Operations)
         /\ LastUserWhereUsed(Append(ops, e), used)
         /\ Asks(ops) => Asks(Append(ops, e))
         /\ e.kind # "list" => Asks(Append(ops, e))
<1> DEFINE more == Append(ops, e)
<1>1. /\ more \in Seq(Operations) /\ Len(more) = Len(ops) + 1
      /\ \A i \in 1..Len(ops) : more[i] = ops[i]
      /\ more[Len(ops) + 1] = e /\ Len(ops) \in Nat
  BY AppendProperties, LenProperties
<1> HIDE DEF more
<1>2. LastUserWhereUsed(more, used)
  <2> SUFFICES ASSUME NEW i \in 1..Len(more), more[i].kind = "user",
                      \A j \in 1..Len(more) : j > i => more[j].kind # "user"
               PROVE  more[i].at = used
    BY DEF LastUserWhereUsed
  <2>1. CASE i = Len(ops) + 1
    BY <1>1, <2>1
  <2>2. CASE i \in 1..Len(ops)
    <3>1. \A j \in 1..Len(ops) : j > i => ops[j].kind # "user"
      BY <1>1
    <3>2. e.kind # "user"
      BY <1>1, <2>2
    <3> QED BY <1>1, <2>2, <3>1, <3>2 DEF LastUserWhereUsed
  <2> QED BY <1>1, <2>1, <2>2
<1>3. Asks(ops) => Asks(more)
  BY <1>1 DEF Asks
<1>4. e.kind # "list" => Asks(more)
  BY <1>1 DEF Asks
<1> QED BY <1>1, <1>2, <1>3, <1>4 DEF more

(* The first request is answered.  When that of a user was the last one of *)
(* the registration, it was for the address in use.                        *)
LEMMA TakeRequest ==
  ASSUME NEW ops \in Seq(Operations), ops # <<>>, NEW used
  PROVE  /\ Tail(ops) \in Seq(Operations)
         /\ Head(ops) \in Operations
         /\ LastUserWhereUsed(ops, used) => LastUserWhereUsed(Tail(ops), used)
         /\ Head(ops).kind = "list" /\ Asks(ops) => Asks(Tail(ops))
         /\ /\ LastUserWhereUsed(ops, used)
            /\ Head(ops).kind = "user"
            /\ ~Asks(Tail(ops))
            => Head(ops).at = used
<1> DEFINE rest == Tail(ops)
           o == Head(ops)
<1>1. /\ rest \in Seq(Operations) /\ Len(rest) = Len(ops) - 1
      /\ Len(rest) \in Nat
      /\ \A i \in 1..Len(rest) : rest[i] = ops[i + 1]
      /\ o \in Operations /\ o = ops[1]
  BY HeadTailProperties, LenProperties
<1> HIDE DEF rest, o
<1>2. \A i \in 1..Len(ops) : i # 1 => i - 1 \in 1..Len(rest) /\ ops[i] = rest[i - 1]
  BY <1>1
<1>3. ASSUME LastUserWhereUsed(ops, used)
      PROVE  LastUserWhereUsed(rest, used)
  <2> SUFFICES ASSUME NEW i \in 1..Len(rest), rest[i].kind = "user",
                      \A j \in 1..Len(rest) : j > i => rest[j].kind # "user"
               PROVE  rest[i].at = used
    BY DEF LastUserWhereUsed
  <2>1. i + 1 \in 1..Len(ops) /\ rest[i] = ops[i + 1]
    BY <1>1
  <2>2. ASSUME NEW j \in 1..Len(ops), j > i + 1
        PROVE  ops[j].kind # "user"
    <3>1. j - 1 \in 1..Len(rest) /\ j - 1 > i /\ ops[j] = rest[j - 1]
      BY <1>1, <2>2
    <3> QED BY <3>1
  <2> QED BY <1>3, <2>1, <2>2 DEF LastUserWhereUsed
<1>4. o.kind = "list" /\ Asks(ops) => Asks(rest)
  BY <1>1, <1>2 DEF Asks
<1>5. ASSUME LastUserWhereUsed(ops, used), o.kind = "user", ~Asks(rest)
      PROVE  o.at = used
  <2>1. \A j \in 1..Len(ops) : j > 1 => ops[j].kind # "user"
    BY <1>2, <1>5 DEF Asks
  <2>2. 1 \in 1..Len(ops)
    BY <1>1
  <2> QED BY <1>1, <1>5, <2>1, <2>2 DEF LastUserWhereUsed
<1> QED BY <1>1, <1>3, <1>4, <1>5 DEF rest, o

-----------------------------------------------------------------------------
(***************************************************************************)
(* What the client's operations make of it.                                *)
(***************************************************************************)
(* Nothing but the requests and the address in use matters to Regular.     *)
LEMMA SameRegular ==
  ASSUME NEW c, Regular(c), NEW r \in ClientSet, r.queue = c.queue,
         r.operations = c.operations, r.usedAddr = c.usedAddr
  PROVE  Regular(r)
BY DEF Regular

(* Neither a client whose registration goes on nor one without a queue     *)
(* has anything to show yet.                                               *)
LEMMA StillRight ==
  ASSUME NEW c, NEW thr, NEW reg,
         \/ c.queue = NoQueue
         \/ c.told
         \/ Asks(c.operations[c.queue])
         \/ \E t \in Threads : thr[t].at \in Leaving
  PROVE  Right(c, thr, reg)
BY DEF Right, Leaves

(* addOperation: a request is appended to a queue that is there.           *)
LEMMA AddOperation ==
  ASSUME NEW c \in ClientSet,
         NEW kind \in {"group", "user", "list"}, NEW at \in Hosts,
         IF kind = "user" THEN at = c.usedAddr ELSE Regular(c)
  PROVE  LET r == addOperation(c, kind, at) IN
         /\ Regular(r)
         /\ r.queue = c.queue /\ r.told = c.told /\ r.blocks = c.blocks
         /\ r.usedAddr = c.usedAddr /\ r.heartbeat = c.heartbeat
         /\ Asks(c.operations[c.queue]) /\ c.queue # NoQueue
              => Asks(r.operations[r.queue])
         /\ kind # "list" => r.queue = NoQueue \/ Asks(r.operations[r.queue])
<1>1. CASE c.queue = NoQueue
  BY <1>1 DEF addOperation, Regular
<1>2. CASE c.queue # NoQueue
  <2> DEFINE e == [kind |-> kind, at |-> at]
             q == c.queue
             ops == c.operations[q]
             more == Append(ops, e)
             r == [c EXCEPT !.operations = [c.operations EXCEPT ![q] = more]]
  <2>1. q \in Queues /\ ops \in Seq(Operations) /\ c.operations \in [Queues -> Seq(Operations)]
    BY <1>2 DEF ClientSet
  <2>2. e \in Operations /\ e.kind = kind /\ e.at = at
    BY DEF Operations
  <2>3. r = addOperation(c, kind, at)
    BY <1>2 DEF addOperation
  <2> HIDE DEF e
  <2>4. IF e.kind = "user" THEN e.at = c.usedAddr
        ELSE LastUserWhereUsed(ops, c.usedAddr)
    BY <1>2, <2>2 DEF Regular
  <2> HIDE DEF ops
  <2>5. /\ more \in Seq(Operations)
        /\ LastUserWhereUsed(more, c.usedAddr)
        /\ Asks(ops) => Asks(more)
        /\ kind # "list" => Asks(more)
    BY <2>1, <2>2, <2>4, AppendRequest
  <2> HIDE DEF more
  <2>6. /\ r \in ClientSet /\ r.operations[r.queue] = more
        /\ r.queue = q /\ r.told = c.told /\ r.blocks = c.blocks
        /\ r.usedAddr = c.usedAddr /\ r.heartbeat = c.heartbeat
    BY <2>1, <2>5 DEF ClientSet
  <2> HIDE DEF r
  <2>7. Regular(r)
    BY <2>5, <2>6 DEF Regular
  <2> QED BY <2>3, <2>5, <2>6, <2>7 DEF ops
<1> QED BY <1>1, <1>2

(* registerLocalGroup: a request for the group, in the queue that is there *)
(* or in a new one, or the user is told that there is no address.          *)
LEMMA RegisterGroup ==
  ASSUME client \in ClientSet, QueueBound,
         NEW c, Regular(c), c.queue = client.queue,
         c.operations = client.operations, NEW host \in Hosts
  PROVE  LET r == registerLocalGroup(c, host) IN
         /\ Regular(r)
         /\ r.told \/ Asks(r.operations[r.queue])
<1> DEFINE manual == LSConfig \in Services
           at == IF manual THEN LSConfig ELSE host
           count == IF manual THEN c.retryCount ELSE c.retryCount + 1
           counted == [c EXCEPT !.tryAddr = at, !.retryCount = count]
           new == [counted EXCEPT !.queue = NewQueue, !.retryCount = 0,
                                  !.told = FALSE]
           queued == IF c.queue # NoQueue THEN counted ELSE new
           told == [c EXCEPT !.tryAddr = NoHost, !.told = TRUE]
<1>1. c \in ClientSet /\ count \in Nat /\ at \in Hosts
  BY DEF Regular, ClientSet, Hosts
<1>2. CASE ~manual /\ (host = NoHost \/ c.retryCount >= AddressCount)
  <2>1. registerLocalGroup(c, host) = told
    BY <1>2 DEF registerLocalGroup
  <2>2. /\ told \in ClientSet /\ told.told
        /\ told.queue = c.queue /\ told.operations = c.operations
        /\ told.usedAddr = c.usedAddr
    BY <1>1 DEF ClientSet, Hosts
  <2> HIDE DEF told
  <2> QED BY <2>1, <2>2, SameRegular
<1>3. CASE ~(~manual /\ (host = NoHost \/ c.retryCount >= AddressCount))
  <2>1. registerLocalGroup(c, host) = addOperation(queued, "group", at)
    BY <1>3 DEF registerLocalGroup
  <2> HIDE DEF at, count, manual
  <2>2. /\ counted \in ClientSet /\ counted.queue = c.queue
        /\ counted.operations = c.operations /\ counted.usedAddr = c.usedAddr
    BY <1>1 DEF ClientSet
  <2> HIDE DEF counted
  <2>3. Regular(queued) /\ queued.queue # NoQueue
    <3>1. CASE c.queue # NoQueue
      BY <2>2, <3>1, SameRegular
    <3>2. CASE c.queue = NoQueue
      <4>1. PICK q \in Queues : Idle(q)
        BY <3>2 DEF QueueBound
      <4>2. NewQueue \in Queues /\ Idle(NewQueue)
        BY <4>1 DEF NewQueue
      <4>3. new.queue \in Queues /\ new.operations[new.queue] = <<>>
        BY <2>2, <4>2 DEF ClientSet, Idle
      <4>4. new \in ClientSet
        BY <2>2, <4>2 DEF ClientSet
      <4>5. LastUserWhereUsed(<<>>, new.usedAddr)
        BY DEF LastUserWhereUsed
      <4> HIDE DEF new
      <4> QED BY <3>2, <4>3, <4>4, <4>5, QueueAssumption DEF Regular
    <3> QED BY <3>1, <3>2
  <2> HIDE DEF queued
  <2>4. queued \in ClientSet
    BY <2>3 DEF Regular
  <2> QED BY <1>1, <2>1, <2>3, <2>4, AddOperation
<1> QED BY <1>2, <1>3

(* dispatch: a block behind the others.                                    *)
LEMMA Dispatch ==
  ASSUME NEW c, Regular(c), NEW block \in Blocks, NEW reg
  PROVE  LET r == dispatch(c, block) IN
         /\ Regular(r)
         /\ r.queue = c.queue /\ r.told = c.told /\ r.operations = c.operations
         /\ BeatRight(r, reg)
         /\ UsedRight(c, reg) => UsedRight(r, reg)
         /\ Knows(c.usedAddr, reg) => UsedRight(r, reg)
         /\ block # "selfRegistered" => UsedRight(r, reg)
<1> DEFINE bs == Append(c.blocks, block)
           r == [c EXCEPT !.blocks = bs]
<1>1. c \in ClientSet /\ c.blocks \in Seq(Blocks)
  BY DEF Regular, ClientSet
<1>2. /\ bs \in Seq(Blocks) /\ Len(bs) = Len(c.blocks) + 1 /\ bs # <<>>
      /\ \A i \in 1..Len(c.blocks) : bs[i] = c.blocks[i]
      /\ bs[Len(c.blocks) + 1] = block /\ Len(c.blocks) \in Nat
  BY <1>1, AppendProperties, LenProperties
<1>3. r = dispatch(c, block)
  BY DEF dispatch
<1> HIDE DEF bs
<1>4. /\ r \in ClientSet /\ r.blocks = bs
      /\ r.queue = c.queue /\ r.told = c.told /\ r.operations = c.operations
      /\ r.usedAddr = c.usedAddr
  BY <1>1, <1>2 DEF ClientSet
<1> HIDE DEF r
<1>5. Regular(r)
  BY <1>4, SameRegular
<1>6. block # "selfRegistered" => UsedRight(r, reg)
  BY <1>2, <1>4 DEF UsedRight
<1>7. UsedRight(c, reg) => UsedRight(r, reg)
  BY <1>2, <1>4 DEF UsedRight
<1> QED BY <1>2, <1>3, <1>4, <1>5, <1>6, <1>7 DEF BeatRight, UsedRight

(* The main thread takes the first block.  One that starts the heartbeat   *)
(* is not the one that asks for a registration.                            *)
LEMMA TakeBlock ==
  ASSUME NEW c, Regular(c), c.blocks # <<>>, NEW reg
  PROVE  LET r == [c EXCEPT !.blocks = Tail(@)] IN
         /\ Head(c.blocks) \in Blocks
         /\ Regular(r)
         /\ r.queue = c.queue /\ r.told = c.told /\ r.operations = c.operations
         /\ r.usedAddr = c.usedAddr /\ r.heartbeat = c.heartbeat
         /\ Head(c.blocks) = "selfRegistered" /\ UsedRight(c, reg)
              => /\ UsedRight(r, reg)
                 /\ Knows(c.usedAddr, reg) \/ r.blocks # <<>>
<1> DEFINE bs == Tail(c.blocks)
           r == [c EXCEPT !.blocks = bs]
<1>1. c \in ClientSet /\ c.blocks \in Seq(Blocks)
  BY DEF Regular, ClientSet
<1>2. /\ bs \in Seq(Blocks) /\ Len(bs) = Len(c.blocks) - 1 /\ Len(bs) \in Nat
      /\ \A i \in 1..Len(bs) : bs[i] = c.blocks[i + 1]
      /\ Head(c.blocks) \in Blocks /\ Head(c.blocks) = c.blocks[1]
  BY <1>1, HeadTailProperties, LenProperties
<1>3. r = [c EXCEPT !.blocks = Tail(@)]
  OBVIOUS
<1> HIDE DEF bs
<1>4. /\ r \in ClientSet /\ r.blocks = bs
      /\ r.queue = c.queue /\ r.told = c.told /\ r.operations = c.operations
      /\ r.usedAddr = c.usedAddr /\ r.heartbeat = c.heartbeat
  BY <1>1, <1>2 DEF ClientSet
<1> HIDE DEF r
<1>5. Regular(r)
  BY <1>4, SameRegular
<1>6. ASSUME Head(c.blocks) = "selfRegistered", UsedRight(c, reg),
             ~Knows(c.usedAddr, reg)
      PROVE  UsedRight(r, reg) /\ r.blocks # <<>>
  <2>1. PICK i \in 1..Len(c.blocks) : c.blocks[i] # "selfRegistered"
    BY <1>6 DEF UsedRight
  <2>2. i - 1 \in 1..Len(bs) /\ bs[i - 1] = c.blocks[i]
    BY <1>2, <1>6, <2>1
  <2>3. bs # <<>>
    BY <2>2
  <2> QED BY <1>4, <2>1, <2>2, <2>3 DEF UsedRight
<1> QED BY <1>2, <1>3, <1>4, <1>5, <1>6 DEF UsedRight

(* Done: a queue goes on to its next request.                              *)
LEMMA TakeOperation ==
  ASSUME Regular(client), NEW q \in Queues, client.operations[q] # <<>>
  PROVE  /\ Regular(Done(q))
         /\ Done(q).queue = client.queue /\ Done(q).told = client.told
         /\ Done(q).blocks = client.blocks
         /\ Done(q).usedAddr = client.usedAddr
         /\ Done(q).heartbeat = client.heartbeat
         /\ Host(q) \in Hosts
         /\ LET own == client.operations[client.queue]
                rest == Done(q).operations[client.queue]
            IN /\ q # client.queue => rest = own
               /\ Head(client.operations[q]).kind = "list" /\ client.queue # NoQueue
                    => (Asks(own) => Asks(rest))
               /\ /\ q = client.queue
                  /\ Head(client.operations[q]).kind = "user"
                  => Asks(rest) \/ Host(q) = client.usedAddr
<1> DEFINE ops == client.operations[q]
           rest == Tail(ops)
           r == [client EXCEPT !.operations = [client.operations EXCEPT ![q] = rest]]
<1>1. /\ client \in ClientSet /\ ops \in Seq(Operations) /\ q # NoQueue
      /\ client.operations \in [Queues -> Seq(Operations)]
  BY QueueAssumption DEF Regular, ClientSet
<1>2. r = Done(q)
  BY DEF Done
<1>3. q = client.queue => LastUserWhereUsed(ops, client.usedAddr)
  BY <1>1 DEF Regular
<1> HIDE DEF ops
<1>4. /\ rest \in Seq(Operations) /\ Head(ops) \in Operations
      /\ q = client.queue => LastUserWhereUsed(rest, client.usedAddr)
      /\ Head(ops).kind = "list" /\ Asks(ops) => Asks(rest)
      /\ /\ q = client.queue
         /\ Head(ops).kind = "user"
         => Asks(rest) \/ Head(ops).at = client.usedAddr
  BY <1>1, <1>3, TakeRequest DEF ops
<1> HIDE DEF rest
<1>5. /\ r \in ClientSet /\ r.operations[q] = rest
      /\ \A p \in Queues : p # q => r.operations[p] = client.operations[p]
      /\ r.queue = client.queue /\ r.told = client.told
      /\ r.blocks = client.blocks /\ r.usedAddr = client.usedAddr
      /\ r.heartbeat = client.heartbeat
  BY <1>1, <1>4 DEF ClientSet
<1>6. q # client.queue
        => r.operations[client.queue] = client.operations[client.queue]
  BY <1>1 DEF ClientSet
<1> HIDE DEF r
<1>7. Regular(r)
  <2>1. CASE q = client.queue
    BY <1>4, <1>5, <2>1 DEF Regular
  <2>2. CASE q # client.queue
    BY <1>5, <1>6, <2>2 DEF Regular
  <2> QED BY <2>1, <2>2
<1>8. Head(ops).at \in Hosts
  BY <1>4 DEF Operations
<1>9. Head(client.operations[q]).kind = "list" /\ client.queue # NoQueue
        => (Asks(client.operations[client.queue]) => Asks(r.operations[client.queue]))
  <2>1. CASE q = client.queue
    BY <1>4, <1>5, <2>1 DEF ops
  <2> QED BY <1>6, <2>1
<1> QED BY <1>2, <1>4, <1>5, <1>6, <1>7, <1>8, <1>9 DEF Host, ops
-----------------------------------------------------------------------------
(***************************************************************************)
(* The elector and the threads.                                            *)
(***************************************************************************)
HasService(e) == "myMesherService" \in DOMAIN e

(* Whatever the elector does on its own, it publishes nothing by itself.   *)
NotPublishedBy(e, f) ==
  HasService(f) /\ (f.myMesherService = "published" => e.myMesherService = "published")

(* What the parts of the elector's methods make of its service.            *)
LEMMA ElectorParts ==
  ASSUME NEW e, HasService(e), NEW t
  PROVE  /\ NotPublishedBy(e, e)
         /\ NotPublishedBy(e, browseLocalMesher(e, t))
         /\ NotPublishedBy(e, publishLocalMesher(e, t))
         /\ NotPublishedBy(e, stopBrowser(e))
         /\ NotPublishedBy(e, stopElector(e))
         /\ stopElector(e).myMesherService = "none"
         /\ NotPublishedBy(e, kickoffElectProcess(e, t))
BY DEF HasService, NotPublishedBy, browseLocalMesher, publishLocalMesher,
       stopBrowser, stopElector, kickoffElectProcess

(* What Bonjour calls, save a publication that succeeds.                   *)
LEMMA BonjourDoesNotPublish ==
  ASSUME HasService(elector), BonjourCalls \/ BonjourFails
  PROVE  NotPublishedBy(elector, elector')
<1>1. CASE BonjourCalls
  BY <1>1 DEF BonjourCalls, netServiceBrowserWillSearch, didFindService,
     didNotResolve, didRemoveService, onSearchTimeout, HasService,
     NotPublishedBy, publishLocalMesher, stopBrowser
<1>2. CASE BonjourFails
  BY <1>2 DEF BonjourFails, didRemoveOtherService, didNotPublish, HasService,
     NotPublishedBy, publishLocalMesher, browseLocalMesher
<1> QED BY <1>1, <1>2

(* What the other lemmas use of the types.                                 *)
LEMMA Types ==
  ASSUME IInv
  PROVE  /\ TypeOK /\ HasService(elector) /\ Regular(client)
         /\ client \in ClientSet /\ client.usedAddr \in Hosts
         /\ client.heartbeat \in Hosts /\ client.tryAddr \in Hosts
         /\ localServerHost \in Hosts /\ registered \subseteq Hosts
         /\ thread \in [Threads -> Jobs] /\ "main" \in Threads
         /\ \A q \in Queues : q \in Threads /\ q # NoQueue /\ q # "main"
         /\ LSConfig \in Services => LSConfig \in Hosts
BY QueueAssumption DEF IInv, TypeOK, ThreadsOK, HasService, Regular, ClientSet, Threads,
   Hosts

(* One thread goes on.  As long as it neither launches the server nor      *)
(* forgets to withdraw the service, the service has its server.            *)
LEMMA JobStep ==
  ASSUME TypeOK, PublishedServerRuns, NEW t \in Threads, NEW job \in Jobs,
         job.at = "sleep" => job.what \in Retries,
         thread' = [thread EXCEPT ![t] = job]
  PROVE  /\ ThreadsOK'
         /\ thread'[t] = job
         /\ /\ lsTask' = lsTask /\ NotPublishedBy(elector, elector')
            /\ thread[t].at # "launch"
            /\ Withdrawing(thread[t]) => Withdrawing(job)
            => PublishedServerRuns'
         /\ thread[t].at \notin Leaving /\ Leaves(thread) => Leaves(thread')
         /\ job.at \in Leaving => Leaves(thread')
<1>1. /\ thread' \in [Threads -> Jobs]
      /\ thread'[t] = job /\ \A u \in Threads : u # t => thread'[u] = thread[u]
  BY DEF TypeOK, ThreadsOK
<1>2. ThreadsOK'
  BY <1>1 DEF ThreadsOK, TypeOK
<1>3. ASSUME lsTask' = lsTask, NotPublishedBy(elector, elector'),
             thread[t].at # "launch",
             Withdrawing(thread[t]) => Withdrawing(job)
      PROVE  PublishedServerRuns'
  <2> SUFFICES ASSUME elector.myMesherService = "published",
                      lsTask # "running"
               PROVE  \/ thread'["main"].at = "launch"
                      \/ \E u \in Threads : Withdrawing(thread'[u])
    BY <1>3 DEF PublishedServerRuns, NotPublishedBy
  <2>1. CASE thread["main"].at = "launch"
    BY <1>1, <1>3, <2>1 DEF Threads
  <2>2. ASSUME NEW u \in Threads, Withdrawing(thread[u])
        PROVE  Withdrawing(thread'[u])
    BY <1>1, <1>3, <2>2
  <2> QED BY <2>1, <2>2 DEF PublishedServerRuns
<1>4. thread[t].at \notin Leaving /\ Leaves(thread) => Leaves(thread')
  BY <1>1 DEF Leaves
<1>5. job.at \in Leaving => Leaves(thread')
  BY <1>1 DEF Leaves
<1> QED BY <1>1, <1>2, <1>3, <1>4, <1>5

(* No thread goes from one stage to another.                               *)
LEMMA NoJobStep ==
  ASSUME TypeOK, PublishedServerRuns, UNCHANGED <<thread, lsTask>>,
         NotPublishedBy(elector, elector')
  PROVE  ThreadsOK' /\ PublishedServerRuns'
BY DEF TypeOK, ThreadsOK, PublishedServerRuns, NotPublishedBy
-----------------------------------------------------------------------------
(***************************************************************************)
(* Each step keeps the invariant.                                          *)
(***************************************************************************)
(* The client that init makes has nothing to show yet.                     *)
LEMMA NewClientRight ==
  ASSUME NEW thr, NEW reg
  PROVE  Regular(NewClient) /\ Right(NewClient, thr, reg)
<1>1. /\ NewClient \in ClientSet /\ NewClient.usedAddr = NoHost
      /\ NewClient.heartbeat = NoHost
      /\ \A q \in Queues : NewClient.operations[q] = <<>>
  <2>1. <<>> \in Seq(Operations) /\ <<>> \in Seq(Blocks)
    OBVIOUS
  <2>2. (CHOOSE q \in Queues : TRUE) \in Queues
    BY QueueAssumption
  <2> QED BY <2>1, <2>2 DEF NewClient, ClientSet, Hosts
<1>2. LastUserWhereUsed(<<>>, NewClient.usedAddr)
  BY DEF LastUserWhereUsed
<1> QED BY <1>1, <1>2 DEF Regular, ClientSet, Right, UsedRight, BeatRight, Knows

(* The initial states.                                                     *)
LEMMA InitRight == Init => IInv
<1> SUFFICES ASSUME Init PROVE IInv
  OBVIOUS
<1>1. TypeOK /\ PublishedServerRuns
  BY DEF Init, TypeOK, ThreadsOK, PublishedServerRuns, NewElector, LSConfigs,
     Hosts, Ready, Jobs
<1>2. client = NewClient
  BY DEF Init
<1> QED BY <1>1, <1>2, NewClientRight DEF IInv

(* The first stage of a stop: either the service is withdrawn now, or the  *)
(* thread is going to.                                                     *)
LEMMA StopMesherKeeps ==
  ASSUME IInv, NEW t \in Threads, NEW c, Regular(c),
         NEW what \in {"stop", "restart"}, stopMesher(t, c, what),
         UNCHANGED <<networkVars, localServerHost>>
  PROVE  IInv'
<1>1. PICK last \in BOOLEAN :
         /\ elector' = IF last THEN elector ELSE stopElector(elector)
         /\ stopLocalClient(t, c, what, last)
  BY DEF stopMesher
<1> DEFINE job == [at |-> "cancel", what |-> what, withdraws |-> last,
                   host |-> c.heartbeat]
           r == [c EXCEPT !.heartbeat = NoHost]
<1>2. /\ TypeOK /\ PublishedServerRuns /\ HasService(elector)
      /\ c \in ClientSet /\ c.heartbeat \in Hosts
  BY Types DEF IInv, Regular, ClientSet
<1>3. /\ job \in Jobs /\ job.at = "cancel" /\ job.withdraws = last
      /\ thread' = [thread EXCEPT ![t] = job] /\ client' = r
  BY <1>1, <1>2 DEF Jobs, Leaving, stopLocalClient
<1> HIDE DEF job
<1>4. ThreadsOK' /\ thread'[t] = job /\ Leaves(thread')
  BY <1>2, <1>3, JobStep DEF Leaving
<1>5. /\ r \in ClientSet /\ r.queue = c.queue /\ r.operations = c.operations
      /\ r.usedAddr = c.usedAddr
  BY <1>2 DEF ClientSet, Hosts
<1> HIDE DEF r
<1>6. Regular(client') /\ Right(client', thread', registered')
  BY <1>3, <1>4, <1>5, SameRegular DEF Right
<1>7. HasService(elector') /\ (~last => elector'.myMesherService = "none")
  BY <1>1, <1>2, ElectorParts DEF NotPublishedBy
<1>8. PublishedServerRuns'
  BY <1>3, <1>4, <1>7 DEF PublishedServerRuns, Withdrawing
<1>9. TypeOK'
  BY <1>2, <1>4, <1>7 DEF TypeOK, HasService, stopMesher, stopLocalServer,
     networkVars
<1> QED BY <1>6, <1>8, <1>9 DEF IInv

(* startMesher: a client that was right before it registers, or says that  *)
(* it cannot, or is as it was.                                             *)
LEMMA StartClient ==
  ASSUME IInv, NEW t, startMesher(t), NEW thr, Leaves(thread) => Leaves(thr)
  PROVE  /\ clusterState' \in {"AutoDiscovering", "ClientRegistering"}
         /\ NotPublishedBy(elector, elector')
         /\ Regular(client')
         /\ Right(client', thr, registered)
<1>1. NotPublishedBy(elector, elector')
  BY Types, ElectorParts DEF startMesher
<1>2. CASE LSConfig \in Services
  <2>1. /\ clusterState' = "ClientRegistering" /\ QueueBound
        /\ client' = registerLocalGroup(client, localServerHost)
    BY <1>2 DEF startMesher
  <2>2. /\ Regular(client')
        /\ client'.told \/ Asks(client'.operations[client'.queue])
    BY <2>1, Types, RegisterGroup
  <2> QED BY <1>1, <2>1, <2>2 DEF Right
<1>3. CASE LSConfig \notin Services
  <2>1. clusterState' = "AutoDiscovering" /\ client' = client
    BY <1>3 DEF startMesher
  <2>2. Regular(client) /\ Right(client, thr, registered)
    BY DEF IInv, Right
  <2> QED BY <1>1, <2>1, <2>2
<1> QED BY <1>2, <1>3

(* The user's actions.                                                     *)
LEMMA UserKeeps == IInv /\ (UserStarts \/ UserStops \/ UserRestarts) => IInv'
<1> SUFFICES ASSUME IInv, UserStarts \/ UserStops \/ UserRestarts PROVE IInv'
  OBVIOUS
<1>1. CASE UserStarts
  <2>1. /\ clusterState' \in {"AutoDiscovering", "ClientRegistering"}
        /\ NotPublishedBy(elector, elector')
        /\ Regular(client') /\ Right(client', thread, registered)
    BY <1>1, StartClient DEF UserStarts
  <2>2. UNCHANGED <<networkVars, localServerHost, thread, lsTask, registered>>
    BY <1>1 DEF UserStarts
  <2>3. ThreadsOK' /\ PublishedServerRuns'
    BY <2>1, <2>2, NoJobStep DEF IInv
  <2>4. TypeOK'
    BY <2>1, <2>2, <2>3 DEF IInv, TypeOK, networkVars, NotPublishedBy, HasService
  <2> QED BY <2>1, <2>2, <2>3, <2>4 DEF IInv
<1>2. CASE UserStops
  BY <1>2, Types, StopMesherKeeps DEF UserStops
<1>3. CASE UserRestarts
  BY <1>3, Types, StopMesherKeeps DEF UserRestarts
<1> QED BY <1>1, <1>2, <1>3

(* The state of the client, the server and the service is not touched.     *)
LEMMA OthersKeep ==
  IInv /\ (SelectLSConfig \/ BonjourCalls \/ BonjourFails \/ NetworkChanges)
    => IInv'
<1> SUFFICES ASSUME IInv,
                    SelectLSConfig \/ BonjourCalls \/ BonjourFails \/ NetworkChanges
             PROVE  IInv'
  OBVIOUS
<1>1. UNCHANGED <<clusterState, client, thread, lsTask, registered, localServerHost>>
  BY DEF SelectLSConfig, BonjourCalls, BonjourFails, NetworkChanges, threadVars
<1>2. NotPublishedBy(elector, elector')
  <2>1. CASE SelectLSConfig \/ NetworkChanges
    BY <2>1, Types, ElectorParts DEF SelectLSConfig, NetworkChanges
  <2> QED BY <2>1, Types, BonjourDoesNotPublish
<1>3. LSConfig' \in LSConfigs /\ lan' \subseteq Services
  <2>1. LSConfig \in LSConfigs /\ lan \subseteq Services
    BY DEF IInv, TypeOK
  <2> QED BY <2>1 DEF SelectLSConfig, BonjourCalls, BonjourFails,
          NetworkChanges, networkVars
<1>4. ThreadsOK' /\ PublishedServerRuns'
  BY <1>1, <1>2, NoJobStep DEF IInv
<1>5. TypeOK'
  BY <1>1, <1>2, <1>3, <1>4 DEF IInv, TypeOK, NotPublishedBy, HasService
<1> QED BY <1>1, <1>4, <1>5 DEF IInv
(* A step of one thread that changes no more than the client, and the      *)
(* state, and adds to or takes from the users of a server.                 *)
LEMMA ThreadStepKeeps ==
  ASSUME IInv, NEW t \in Threads, NEW job \in Jobs,
         job.at = "sleep" => job.what \in Retries,
         thread' = [thread EXCEPT ![t] = job],
         thread[t].at # "launch", Withdrawing(thread[t]) => Withdrawing(job),
         UNCHANGED <<networkVars, elector, localServerHost, lsTask>>,
         clusterState' \in {"Stopped", clusterState}, registered' \subseteq Hosts,
         Regular(client'), Right(client', thread', registered')
  PROVE  IInv'
<1>1. TypeOK /\ PublishedServerRuns /\ NotPublishedBy(elector, elector')
  BY Types DEF IInv, NotPublishedBy
<1>2. ThreadsOK' /\ PublishedServerRuns'
  BY <1>1, JobStep
<1>3. TypeOK'
  BY <1>1, <1>2 DEF TypeOK, NotPublishedBy, HasService, networkVars
<1> QED BY <1>2, <1>3 DEF IInv

(* While a thread is on its way to stop the client it promises nothing.    *)
LEMMA CancelKeeps ==
  ASSUME IInv, NEW t \in Threads, CancelOperations(t) \/ UnregisterSelf(t)
  PROVE  IInv'
<1>1. PICK at \in {"unregister", "served"}, host \in Hosts :
         /\ thread' = [thread EXCEPT ![t] = [thread[t] EXCEPT !.at = at, !.host = host]]
         /\ thread[t].at \in {"cancel", "unregister"}
  BY Types DEF CancelOperations, UnregisterSelf, Stage, Hosts
<1> DEFINE job == [thread[t] EXCEPT !.at = at, !.host = host]
<1>2. thread[t] \in Jobs
  BY Types
<1>3. /\ job \in Jobs /\ job.at = at /\ job.withdraws = thread[t].withdraws
      /\ thread' = [thread EXCEPT ![t] = job]
  BY <1>1, <1>2 DEF Jobs, Leaving
<1> HIDE DEF job
<1>4. Withdrawing(thread[t]) => Withdrawing(job)
  BY <1>1, <1>3 DEF Withdrawing
<1>5. Leaves(thread')
  BY <1>1, <1>3, JobStep DEF IInv, Leaving
<1>6. registered' \subseteq Hosts
  BY Types DEF CancelOperations, UnregisterSelf
<1>7. Regular(client')
  <2>1. CASE client' = client
    BY <2>1, Types
  <2>2. CASE /\ client.queue # NoQueue
             /\ client' = [client EXCEPT !.operations[client.queue] = <<>>]
    <3>1. /\ client.queue \in Queues /\ client \in ClientSet
          /\ <<>> \in Seq(Operations)
      BY <2>2, Types DEF ClientSet
    <3>2. /\ client' \in ClientSet /\ client'.queue = client.queue
          /\ client'.operations[client'.queue] = <<>>
      BY <2>2, <3>1 DEF ClientSet
    <3>3. LastUserWhereUsed(<<>>, client'.usedAddr)
      BY DEF LastUserWhereUsed
    <3> QED BY <3>2, <3>3 DEF Regular
  <2> QED BY <2>1, <2>2 DEF CancelOperations, UnregisterSelf
<1>8. Right(client', thread', registered')
  BY <1>5 DEF Right
<1>9. UNCHANGED <<networkVars, elector, localServerHost, lsTask, clusterState>>
  BY DEF CancelOperations, UnregisterSelf
<1> QED BY <1>1, <1>3, <1>4, <1>6, <1>7, <1>8, <1>9, ThreadStepKeeps

(* A client without a queue promises nothing either.                       *)
LEMMA ClearKeeps == ASSUME IInv, NEW t \in Threads, ClearClient(t) PROVE IInv'
<1> DEFINE job == IF thread[t].withdraws THEN [thread[t] EXCEPT !.at = "withdraw"]
                  ELSE Stopped(t)
           stray == client.stray \/ client.heartbeat # NoHost
           r == [client EXCEPT !.queue = NoQueue, !.heartbeat = NoHost,
                               !.stray = stray, !.told = FALSE]
<1>1. thread[t] \in Jobs /\ client \in ClientSet /\ thread \in [Threads -> Jobs]
  BY Types
<1>2. thread[t].at = "served"
  BY DEF ClearClient
<1>3. thread' = [thread EXCEPT ![t] = job]
  BY <1>1 DEF ClearClient
<1>4. job \in Jobs /\ job.at \in {"withdraw", "start", "ready"}
  BY <1>1 DEF Jobs, Stopped, Ready, Hosts
<1>5. Withdrawing(thread[t]) => Withdrawing(job)
  BY <1>1 DEF Withdrawing, Jobs
<1> HIDE DEF job
<1>6. client' = r
  BY DEF ClearClient
<1>7. stray \in BOOLEAN
  BY <1>1 DEF ClientSet
<1> HIDE DEF stray
<1>8. r \in ClientSet /\ r.queue = NoQueue
  BY <1>1, <1>7 DEF ClientSet, Hosts
<1> HIDE DEF r
<1>9. Regular(client') /\ Right(client', thread', registered')
  BY <1>6, <1>8 DEF Regular, Right
<1>10. /\ UNCHANGED <<networkVars, elector, localServerHost, lsTask, registered>>
       /\ clusterState' = "Stopped"
  BY DEF ClearClient
<1>11. registered' \subseteq Hosts
  BY <1>10, Types
<1> QED BY <1>2, <1>3, <1>4, <1>5, <1>9, <1>10, <1>11, ThreadStepKeeps

(* The elector's part of a stop takes the service away.                    *)
LEMMA WithdrawKeeps == ASSUME IInv, NEW t \in Threads, WithdrawService(t) PROVE IInv'
<1>1. /\ Stopped(t) \in Jobs /\ Stopped(t).at \in {"start", "ready"}
      /\ thread' = [thread EXCEPT ![t] = Stopped(t)]
      /\ thread[t].at = "withdraw"
  BY DEF WithdrawService, Stopped, Ready, Jobs, Hosts
<1>2. /\ UNCHANGED <<networkVars, clusterState, localServerHost, client, lsTask,
                     registered>>
      /\ elector' = stopElector(elector)
  BY DEF WithdrawService
<1>3. HasService(elector') /\ elector'.myMesherService = "none"
  BY <1>2, Types, ElectorParts DEF NotPublishedBy
<1>4. ThreadsOK' /\ (Leaves(thread) => Leaves(thread'))
  BY <1>1, JobStep DEF IInv, Leaving
<1>5. TypeOK' /\ PublishedServerRuns'
  BY <1>2, <1>3, <1>4 DEF IInv, TypeOK, PublishedServerRuns, HasService,
     networkVars
<1>6. Regular(client') /\ Right(client', thread', registered')
  BY <1>2, <1>4 DEF IInv, Right
<1> QED BY <1>5, <1>6 DEF IInv

(* The second half of a restart.                                           *)
LEMMA RestartKeeps == ASSUME IInv, NEW t \in Threads, Restart(t) PROVE IInv'
<1>1. /\ Ready \in Jobs /\ Ready.at = "ready"
      /\ thread' = [thread EXCEPT ![t] = Ready]
      /\ thread[t].at = "start"
  BY DEF Restart, Ready, Jobs, Hosts
<1>2. UNCHANGED <<networkVars, localServerHost, lsTask, registered>>
  BY DEF Restart
<1>3. /\ ThreadsOK' /\ (Leaves(thread) => Leaves(thread'))
      /\ NotPublishedBy(elector, elector') => PublishedServerRuns'
  BY <1>1, <1>2, JobStep DEF IInv, Leaving, Withdrawing
<1>4. /\ clusterState' \in {"AutoDiscovering", "ClientRegistering", clusterState}
      /\ NotPublishedBy(elector, elector')
      /\ Regular(client') /\ Right(client', thread', registered)
  <2>1. CASE clusterState = "Stopped"
    BY <1>3, <2>1, StartClient DEF Restart
  <2>2. CASE clusterState # "Stopped"
    BY <1>3, <2>2, Types, ElectorParts DEF Restart, IInv, Right
  <2> QED BY <2>1, <2>2
<1>5. TypeOK'
  BY <1>2, <1>3, <1>4 DEF IInv, TypeOK, NotPublishedBy, HasService, networkVars
<1> QED BY <1>2, <1>3, <1>4, <1>5 DEF IInv

(* Every stage of a stop, whichever thread stops.                          *)
LEMMA StopNextKeeps == ASSUME IInv, NEW t \in Threads, StopNext(t) PROVE IInv'
BY CancelKeeps, ClearKeeps, WithdrawKeeps, RestartKeeps DEF StopNext
(* A step that changes no more than the client, and the state, and adds    *)
(* users to a server.                                                      *)
LEMMA ClientStepKeeps ==
  ASSUME IInv, UNCHANGED <<networkVars, elector, localServerHost, thread, lsTask>>,
         clusterState' \in {clusterState, "Started"}, registered' \subseteq Hosts,
         Regular(client'), Right(client', thread, registered')
  PROVE  IInv'
BY DEF IInv, TypeOK, ThreadsOK, PublishedServerRuns, networkVars

(* A request whose callback puts a block among those of the main thread.   *)
LEMMA RegisteredKeeps ==
  ASSUME IInv, NEW q \in Queues, GroupRegistered(q) \/ SelfRegistered(q)
  PROVE  IInv'
<1> USE DEF Retries, Blocks
<1>1. /\ client.operations[q] # <<>>
      /\ UNCHANGED <<networkVars, localServerHost, clusterState, elector, thread,
                     lsTask>>
  BY DEF GroupRegistered, SelfRegistered, Answered
<1>2. /\ Regular(client) /\ Regular(Done(q))
      /\ Done(q).queue = client.queue /\ Done(q).told = client.told
      /\ Done(q).blocks = client.blocks /\ Done(q).usedAddr = client.usedAddr
      /\ Host(q) \in Hosts
  BY <1>1, Types, TakeOperation
<1> DEFINE d == Done(q)
<1>3. CASE GroupRegistered(q)
  <2>1. client' = dispatch(d, "groupRegistered") /\ registered' = registered
    BY <1>3 DEF GroupRegistered
  <2> HIDE DEF d
  <2>2. /\ Regular(client') /\ BeatRight(client', registered)
        /\ UsedRight(client', registered)
    BY <1>2, <2>1, Dispatch DEF d
  <2>3. registered' \subseteq Hosts /\ Right(client', thread, registered')
    BY <2>1, <2>2, Types DEF Right
  <2> QED BY <1>1, <2>2, <2>3, ClientStepKeeps
<1>4. CASE SelfRegistered(q)
  <2>1. /\ client' = dispatch(d, "selfRegistered")
        /\ registered' = registered \cup {Host(q)}
        /\ Head(client.operations[q]).kind = "user"
    BY <1>4 DEF SelfRegistered, Answered
  <2> HIDE DEF d
  <2>2. /\ Regular(client')
        /\ client'.queue = d.queue /\ client'.told = d.told
        /\ client'.operations = d.operations
        /\ BeatRight(client', registered')
        /\ UsedRight(d, registered') => UsedRight(client', registered')
    BY <1>2, <2>1, Dispatch DEF d
  <2>3. ASSUME client.queue # NoQueue, ~client.told,
               ~Asks(d.operations[client.queue]), ~Leaves(thread)
        PROVE  UsedRight(d, registered')
    <3>1. CASE q = client.queue
      <4>1. Host(q) = client.usedAddr
        BY <1>1, <2>1, <2>3, <3>1, Types, TakeOperation DEF d
      <4> QED BY <1>2, <2>1, <4>1 DEF d, UsedRight, Knows
    <3>2. CASE q # client.queue
      <4>1. ~Asks(client.operations[client.queue])
        BY <1>1, <2>3, <3>2, Types, TakeOperation DEF d
      <4>2. UsedRight(client, registered)
        BY <2>3, <4>1 DEF IInv, Right
      <4> QED BY <1>2, <2>1, <4>2 DEF d, UsedRight, Knows
    <3> QED BY <3>1, <3>2
  <2>4. Right(client', thread, registered')
    BY <1>2, <2>2, <2>3 DEF Right, d
  <2>5. registered' \subseteq Hosts
    BY <1>2, <2>1, Types
  <2> QED BY <1>1, <2>2, <2>4, <2>5, ClientStepKeeps
<1> QED BY <1>3, <1>4

(* A registration that failed is tried again, or stops the client.         *)
LEMMA NotRegisteredKeeps ==
  ASSUME IInv, NEW q \in Queues, GroupNotRegistered(q) \/ SelfNotRegistered(q)
  PROVE  IInv'
<1>1. /\ client.operations[q] # <<>> /\ thread[q] = Ready /\ q \in Threads
      /\ UNCHANGED <<networkVars, localServerHost, clusterState, elector, lsTask,
                     registered>>
  BY Types DEF GroupNotRegistered, SelfNotRegistered, Answered
<1>2. /\ Regular(Done(q)) /\ Done(q).heartbeat = client.heartbeat
      /\ Done(q) \in ClientSet /\ client.heartbeat \in Hosts
  BY <1>1, Types, TakeOperation DEF Regular
<1> DEFINE d == Done(q)
<1>3. \E job \in Jobs, at \in Hosts, beat \in Hosts :
         /\ job.at \in {"sleep", "cancel"}
         /\ job.at = "sleep" => job.what \in Retries
         /\ thread' = [thread EXCEPT ![q] = job]
         /\ client' = [d EXCEPT !.tryAddr = at, !.heartbeat = beat]
  <2>1. CASE GroupNotRegistered(q) /\ LSConfig \in Services
    <3> DEFINE job == [at |-> "cancel", what |-> "client", withdraws |-> FALSE,
                       host |-> d.heartbeat]
    <3>1. /\ job \in Jobs /\ job.at = "cancel"
          /\ thread' = [thread EXCEPT ![q] = job]
          /\ client' = [d EXCEPT !.tryAddr = LSConfig, !.heartbeat = NoHost]
      BY <1>2, <2>1 DEF GroupNotRegistered, stopLocalClient, Jobs, Leaving,
         ClientSet
    <3> HIDE DEF job, d
    <3> QED BY <2>1, <3>1 DEF Hosts
  <2>2. ASSUME NEW block \in Retries, Sleep(q, block), NEW at \in Hosts,
               client' = [d EXCEPT !.tryAddr = at]
        PROVE  \E job \in Jobs, host \in Hosts, beat \in Hosts :
                  /\ job.at \in {"sleep", "cancel"}
                  /\ job.at = "sleep" => job.what \in Retries
                  /\ thread' = [thread EXCEPT ![q] = job]
                  /\ client' = [d EXCEPT !.tryAddr = host, !.heartbeat = beat]
    <3> DEFINE job == [Ready EXCEPT !.at = "sleep", !.what = block]
    <3>1. /\ job \in Jobs /\ job.at = "sleep" /\ job.what = block
          /\ thread' = [thread EXCEPT ![q] = job]
      BY <2>2 DEF Sleep, Ready, Jobs, Leaving, Hosts
    <3>2. client' = [d EXCEPT !.tryAddr = at, !.heartbeat = d.heartbeat]
      BY <1>2, <2>2 DEF ClientSet
    <3> HIDE DEF job, d
    <3>3. d.heartbeat \in Hosts
      BY <1>2 DEF d
    <3> QED BY <3>1, <3>2, <3>3
  <2>3. CASE GroupNotRegistered(q) /\ LSConfig \notin Services
    BY <2>2, <2>3 DEF GroupNotRegistered, Retries, Hosts
  <2>4. CASE SelfNotRegistered(q)
    <3>1. client' = [d EXCEPT !.tryAddr = d.tryAddr] /\ d.tryAddr \in Hosts
      BY <1>2, <2>4 DEF SelfNotRegistered, ClientSet
    <3>2. Sleep(q, "retrySelf")
      BY <2>4 DEF SelfNotRegistered
    <3> HIDE DEF d
    <3> QED BY <2>2, <3>1, <3>2 DEF Retries
  <2> QED BY <2>1, <2>3, <2>4
<1>4. PICK job \in Jobs, at \in Hosts, beat \in Hosts :
         /\ job.at \in {"sleep", "cancel"}
         /\ job.at = "sleep" => job.what \in Retries
         /\ thread' = [thread EXCEPT ![q] = job]
         /\ client' = [d EXCEPT !.tryAddr = at, !.heartbeat = beat]
  BY <1>3
<1>5. Regular(client')
  <2>1. /\ client' \in ClientSet /\ client'.queue = d.queue
        /\ client'.operations = d.operations /\ client'.usedAddr = d.usedAddr
    BY <1>2, <1>4 DEF ClientSet
  <2> QED BY <1>2, <2>1, SameRegular
<1>6. Leaves(thread')
  BY <1>1, <1>4, JobStep DEF IInv, Leaving
<1>7. Right(client', thread', registered')
  BY <1>6 DEF Right
<1>8. thread[q].at # "launch" /\ ~Withdrawing(thread[q])
  BY <1>1 DEF Ready, Withdrawing
<1>9. registered' \subseteq Hosts
  BY <1>1, Types
<1> QED BY <1>1, <1>4, <1>5, <1>7, <1>8, <1>9, ThreadStepKeeps
(* A list that arrives changes nothing; a retry puts its block among those *)
(* of the main thread.                                                     *)
LEMMA ListAndWakeUpKeep ==
  ASSUME IInv, NEW q \in Queues, UserListAnswered(q) \/ WakeUp(q)
  PROVE  IInv'
<1>1. CASE UserListAnswered(q)
  <2>1. /\ client.operations[q] # <<>>
        /\ Head(client.operations[q]).kind = "list"
        /\ client' = Done(q)
        /\ UNCHANGED <<networkVars, localServerHost, clusterState, elector,
                       thread, lsTask, registered>>
    BY <1>1 DEF UserListAnswered, Answered
  <2>2. /\ Regular(client')
        /\ client'.queue = client.queue /\ client'.told = client.told
        /\ client'.blocks = client.blocks
        /\ client'.usedAddr = client.usedAddr
        /\ client'.heartbeat = client.heartbeat
        /\ client.queue # NoQueue /\ Asks(client.operations[client.queue])
             => Asks(client'.operations[client.queue])
    BY <2>1, Types, TakeOperation
  <2>3. Right(client', thread, registered')
    BY <2>1, <2>2 DEF IInv, Right, UsedRight, BeatRight
  <2> QED BY <2>1, <2>2, <2>3, Types, ClientStepKeeps
<1>2. CASE WakeUp(q)
  <2>1. /\ thread[q].at = "sleep" /\ q \in Threads
        /\ thread' = [thread EXCEPT ![q] = Ready]
        /\ client' = dispatch(client, thread[q].what)
        /\ UNCHANGED <<networkVars, clusterState, elector, localServerHost,
                       lsTask, registered>>
    BY <1>2, Types DEF WakeUp
  <2>2. thread[q].what \in Retries
    BY <2>1, Types DEF TypeOK, ThreadsOK
  <2>3. /\ Regular(client') /\ BeatRight(client', registered)
        /\ UsedRight(client', registered)
    BY <2>1, <2>2, Types, Dispatch DEF Retries, Blocks
  <2>4. Right(client', thread', registered')
    BY <2>1, <2>3 DEF Right
  <2>5. Ready \in Jobs /\ Ready.at # "sleep"
    BY DEF Ready, Jobs, Hosts
  <2>6. ~Withdrawing(thread[q]) /\ registered' \subseteq Hosts
    BY <2>1, Types DEF Withdrawing
  <2> QED BY <2>1, <2>3, <2>4, <2>5, <2>6, ThreadStepKeeps
<1> QED BY <1>1, <1>2

(* A list that does not arrive ends the session, or the program.           *)
LEMMA ListFailsKeeps ==
  ASSUME IInv, NEW q \in Queues, UserListFails(q) \/ ProgramEnds(q)
  PROVE  IInv'
<1>1. client.operations[q] # <<>> /\ UNCHANGED <<networkVars, localServerHost>>
  BY DEF UserListFails, ProgramEnds, Answered
<1>2. CASE UserListFails(q)
  <2>1. Regular(Done(q))
    BY <1>1, Types, TakeOperation
  <2> QED BY <1>1, <1>2, <2>1, Types, StopMesherKeeps DEF UserListFails
<1>3. CASE ProgramEnds(q)
  <2>1. /\ thread' = [t \in Threads |-> [Ready EXCEPT !.at = "ended"]]
        /\ client' = NewClient /\ elector' = NewElector
        /\ clusterState' = "Stopped" /\ lsTask' = "none"
        /\ registered' = registered
    BY <1>3 DEF ProgramEnds
  <2>2. ThreadsOK'
    BY <2>1 DEF ThreadsOK, Ready, Jobs, Hosts
  <2>3. TypeOK' /\ PublishedServerRuns'
    BY <1>1, <2>1, <2>2, Types DEF TypeOK, NewElector, PublishedServerRuns,
       networkVars
  <2> QED BY <2>1, <2>3, NewClientRight DEF IInv
<1> QED BY <1>2, <1>3

(* A question for the list waits in the queue like any other request.      *)
LEMMA HeartbeatAsksKeeps == IInv /\ HeartbeatAsks => IInv'
<1> SUFFICES ASSUME IInv, HeartbeatAsks PROVE IInv'
  OBVIOUS
<1>1. /\ client' = addOperation(client, "list", client.usedAddr)
      /\ client.queue # NoQueue
      /\ UNCHANGED <<networkVars, clusterState, elector, localServerHost, thread,
                     lsTask, registered>>
  BY DEF HeartbeatAsks, requestUserList
<1>2. /\ Regular(client')
      /\ client'.queue = client.queue /\ client'.told = client.told
      /\ client'.blocks = client.blocks /\ client'.usedAddr = client.usedAddr
      /\ client'.heartbeat = client.heartbeat
      /\ Asks(client.operations[client.queue])
           => Asks(client'.operations[client'.queue])
  BY <1>1, Types, AddOperation
<1>3. Right(client', thread, registered')
  BY <1>1, <1>2 DEF IInv, Right, UsedRight, BeatRight
<1> QED BY <1>1, <1>2, <1>3, Types, ClientStepKeeps

(* RunBlock: the heartbeat starts where the user is registered, and any    *)
(* other block asks for a registration.                                    *)
LEMMA RunBlockKeeps == IInv /\ RunBlock => IInv'
<1> SUFFICES ASSUME IInv, RunBlock PROVE IInv'
  OBVIOUS
<1> DEFINE c == [client EXCEPT !.blocks = Tail(@)]
           block == Head(client.blocks)
           agreed == [c EXCEPT !.retryCount = 0, !.usedAddr = c.tryAddr]
<1>1. /\ client.blocks # <<>> /\ QueueBound
      /\ UNCHANGED <<networkVars, elector, localServerHost, thread, lsTask,
                     registered>>
      /\ clusterState' \in {clusterState, "Started"}
      /\ block = "groupRegistered" => client' = registerSelf(agreed)
      /\ block = "selfRegistered" => client' = startHeartbeat([c EXCEPT !.retryCount = 0])
      /\ block = "retryGroup" => client' = registerLocalGroup(c, localServerHost)
      /\ block = "retrySelf" => client' = registerSelf(c)
  BY DEF RunBlock
<1>2. /\ block \in Blocks /\ Regular(c) /\ c \in ClientSet
      /\ c.queue = client.queue /\ c.told = client.told
      /\ c.operations = client.operations
      /\ c.usedAddr = client.usedAddr /\ c.heartbeat = client.heartbeat
      /\ block = "selfRegistered" /\ UsedRight(client, registered)
           => /\ UsedRight(c, registered)
              /\ Knows(client.usedAddr, registered) \/ c.blocks # <<>>
  BY <1>1, Types, TakeBlock DEF Regular
<1> HIDE DEF c, block
<1>3. Regular(client') /\ Right(client', thread, registered')
  <2>1. CASE block \in {"groupRegistered", "retrySelf"}
    <3> DEFINE d == IF block = "retrySelf" THEN c ELSE agreed
    <3>1. d \in ClientSet /\ d.usedAddr \in Hosts
      BY <1>2 DEF ClientSet
    <3>2. client' = addOperation(d, "user", d.usedAddr)
      BY <1>1, <2>1 DEF registerSelf
    <3> HIDE DEF d
    <3>3. /\ Regular(client')
          /\ client'.queue = NoQueue \/ Asks(client'.operations[client'.queue])
      BY <3>1, <3>2, AddOperation
    <3> QED BY <3>3 DEF Right
  <2>2. CASE block = "retryGroup"
    <3>1. /\ Regular(client')
          /\ client'.told \/ Asks(client'.operations[client'.queue])
      BY <1>1, <1>2, <2>2, Types, RegisterGroup
    <3> QED BY <3>1 DEF Right
  <2>3. CASE block = "selfRegistered"
    <3>1. /\ client' \in ClientSet
          /\ client'.queue = c.queue /\ client'.operations = c.operations
          /\ client'.usedAddr = c.usedAddr /\ client'.heartbeat = c.usedAddr
          /\ client'.blocks = c.blocks /\ client'.told = c.told
      <4>1. client' = [c EXCEPT !.retryCount = 0, !.heartbeat = c.usedAddr]
        BY <1>1, <1>2, <2>3 DEF startHeartbeat, ClientSet
      <4> QED BY <1>2, <4>1 DEF ClientSet
    <3>2. UsedRight(client, registered)
            => UsedRight(client', registered) /\ BeatRight(client', registered)
      BY <1>2, <2>3, <3>1 DEF UsedRight, BeatRight
    <3>3. Right(client', thread, registered')
      BY <1>1, <1>2, <3>1, <3>2 DEF IInv, Right
    <3> QED BY <1>2, <3>1, <3>3, SameRegular
  <2> QED BY <1>2, <2>1, <2>2, <2>3 DEF Blocks, Retries
<1>4. registered' \subseteq Hosts
  BY <1>1, Types
<1> QED BY <1>1, <1>3, <1>4, ClientStepKeeps

(* Bonjour found a server, or published that of this machine, which the    *)
(* main thread then launches.                                              *)
LEMMA FoundKeeps == IInv /\ (Resolved \/ Published \/ Launch) => IInv'
<1> SUFFICES ASSUME IInv, Resolved \/ Published \/ Launch PROVE IInv'
  OBVIOUS
<1>1. CASE Resolved
  <2>1. PICK s \in Services : netServiceDidResolveAddress(s)
    BY <1>1 DEF Resolved
  <2>2. /\ clusterState' = "ClientRegistering" /\ localServerHost' = s /\ QueueBound
        /\ client' = registerLocalGroup(client, s)
        /\ UNCHANGED <<networkVars, thread, lsTask, registered>>
    BY <1>1, <2>1 DEF Resolved, netServiceDidResolveAddress
  <2>3. NotPublishedBy(elector, elector')
    BY <2>1, Types DEF netServiceDidResolveAddress, NotPublishedBy, HasService,
       stopBrowser
  <2>4. ThreadsOK' /\ PublishedServerRuns'
    BY <2>2, <2>3, NoJobStep DEF IInv
  <2>5. /\ Regular(client')
        /\ client'.told \/ Asks(client'.operations[client'.queue])
    BY <2>2, Types, RegisterGroup DEF Hosts
  <2>6. TypeOK'
    BY <2>2, <2>3, <2>4 DEF IInv, TypeOK, NotPublishedBy, HasService, Hosts,
       networkVars
  <2> QED BY <2>4, <2>5, <2>6 DEF IInv, Right
<1>2. CASE Published
  <2> DEFINE job == [thread["main"] EXCEPT !.at = "launch"]
  <2>1. /\ clusterState' = "ServerStarting" /\ localServerHost' = Self
        /\ lsTask' = "created" /\ registered' = registered \ {Self}
        /\ thread' = [thread EXCEPT !["main"] = job]
        /\ UNCHANGED <<networkVars, client>>
    BY <1>2, Types DEF Published, netServiceDidPublish, stopLocalServer
  <2>2. job \in Jobs /\ job.at = "launch"
    BY Types DEF Jobs, Leaving
  <2> HIDE DEF job
  <2>3. ThreadsOK' /\ thread'["main"] = job /\ Leaves(thread')
    BY <2>1, <2>2, Types, JobStep DEF IInv, Leaving
  <2>4. HasService(elector')
    BY <1>2, Types DEF Published, netServiceDidPublish, HasService
  <2>5. TypeOK' /\ PublishedServerRuns'
    BY <2>1, <2>2, <2>3, <2>4 DEF IInv, TypeOK, PublishedServerRuns, HasService,
       Hosts, networkVars
  <2> QED BY <2>1, <2>3, <2>5 DEF IInv, Right
<1>3. CASE Launch
  <2>1. /\ clusterState' = "ClientRegistering" /\ QueueBound
        /\ lsTask' = "running"
        /\ thread' = [thread EXCEPT !["main"] = Ready]
        /\ client' = registerLocalGroup(client, localServerHost)
        /\ UNCHANGED <<networkVars, elector, localServerHost, registered>>
    BY <1>3 DEF Launch
  <2>2. Ready \in Jobs /\ Ready.at # "sleep"
    BY DEF Ready, Jobs, Hosts
  <2>3. ThreadsOK'
    BY <2>1, <2>2, Types, JobStep DEF IInv
  <2>4. /\ Regular(client')
        /\ client'.told \/ Asks(client'.operations[client'.queue])
    BY <2>1, Types, RegisterGroup
  <2>5. TypeOK' /\ PublishedServerRuns'
    BY <2>1, <2>3 DEF IInv, TypeOK, PublishedServerRuns, networkVars
  <2> QED BY <2>4, <2>5 DEF IInv, Right
<1> QED BY <1>1, <1>2, <1>3

(* Every step of the machine keeps the invariant.                          *)
LEMMA StepKeeps == IInv /\ [Next]_vars => IInv'
<1> SUFFICES ASSUME IInv, [Next]_vars PROVE IInv'
  OBVIOUS
<1>1. ASSUME NEW q \in Queues, QueueNext(q) PROVE IInv'
  BY <1>1, Types, RegisteredKeeps, NotRegisteredKeeps, ListAndWakeUpKeep,
     ListFailsKeeps, StopNextKeeps DEF QueueNext
<1>2. CASE MainNext
  BY <1>2, Types, StopNextKeeps, FoundKeeps, RunBlockKeeps DEF MainNext
<1>3. CASE BonjourNext
  BY <1>3, FoundKeeps, OthersKeep DEF BonjourNext
<1>4. CASE UNCHANGED vars
  BY <1>4 DEF vars, threadVars, IInv, TypeOK, ThreadsOK, PublishedServerRuns
<1> QED BY <1>1, <1>2, <1>3, <1>4, UserKeeps, OthersKeep, HeartbeatAsksKeeps
        DEF Next

(* The invariant always holds.                                             *)
LEMMA Invariance == Spec => []IInv
<1>1. Init => IInv
  BY InitRight
<1>2. IInv /\ [Next]_vars => IInv'
  BY StepKeeps
<1> QED BY <1>1, <1>2, PTL DEF Spec

(* netServiceDidPublish starts the server, and while it is not running the *)
(* service is published only until the main thread launches it or the      *)
(* thread that ended it has come to the elector.                           *)
THEOREM ServiceMeansServer == Spec => []PublishedServerRuns
<1>1. IInv => PublishedServerRuns
  BY DEF IInv
<1> QED BY <1>1, Invariance, PTL

(* Whatever was retried, restarted or given up, a heartbeat that is the    *)
(* last word of registration goes where the user is registered.            *)
THEOREM HeartbeatMeansRegistered == Spec => []BeatsWhereRegistered
<1>1. IInv => BeatsWhereRegistered
  <2> SUFFICES ASSUME IInv, clusterState = "Started", AtRest, SessionIntact,
                      Up(client.heartbeat)
               PROVE  client.heartbeat \in registered
    BY DEF BeatsWhereRegistered
  <2>1. client \in ClientSet /\ client.queue \in Queues /\ ~client.told
    BY Types DEF SessionIntact, ClientSet
  <2>2. client.operations[client.queue] \in Seq(Operations)
    BY <2>1 DEF ClientSet
  <2>3. ~Asks(client.operations[client.queue])
    BY <2>1, <2>2 DEF AtRest, Asks
  <2>4. ~Leaves(thread) /\ client.blocks = <<>>
    BY DEF AtRest, Leaves, Leaving, Ready
  <2>5. Knows(client.heartbeat, registered)
    BY <2>1, <2>3, <2>4, QueueAssumption DEF IInv, Right, BeatRight
  <2>6. client.heartbeat # NoHost
    BY HostAssumption DEF Up, IInv, TypeOK
  <2> QED BY <2>5, <2>6 DEF Knows
<1> QED BY <1>1, Invariance, PTL
=============================================================================
