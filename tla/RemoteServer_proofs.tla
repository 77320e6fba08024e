------------------------- MODULE RemoteServer_proofs -------------------------
(***************************************************************************)
(* What the goroutines of the global mesher keep, for any number of them   *)
(* and any capacity of the pipe.  The invariant has the database's own     *)
(* (AppInv of MemoryDB_proofs) as a part: the goroutines only ever do what *)
(* AppNext allows.                                                         *)
(***************************************************************************)
EXTENDS RemoteServer, MemoryDB_proofs, FiniteSetTheorems

Thread == [pc : {"ready", "send", "wait", "version", "lookup", "list", "locked"},
           req : HttpRequests \cup {[action |-> "none"]},
           got : Nat, atLeast : Nat]

ServerTypeOK ==
  /\ pipe \in Seq(Threads)
  /\ thread \in [Threads -> Thread]
  /\ serving \in [thread : Threads \cup {NoThread},
                  stage : {"none", "taken", "heartbeat", "respond"}]
  /\ told \in Nat
  /\ fatal \in BOOLEAN

(* A goroutine that is not at its start has a request; the loop that       *)
(* answers heartbeats has nothing else.                                    *)
HasRequest ==
  \A t \in Threads : thread[t].pc # "ready" =>
     thread[t].req \in IF t = UdpThread THEN Heartbeats ELSE HttpRequests

(* The executor is in a heartbeat of the database exactly in the stage     *)
(* that is named so, and it serves nobody exactly when it takes a command. *)
ExecutorPlace ==
  /\ serving.stage = "heartbeat" <=> exec.pc = "heartbeat"
  /\ serving.thread = NoThread <=> serving.stage = "none"

(* Who waits has its command in the pipe, once, or with the executor.      *)
Waiting ==
  /\ \A i, j \in 1..Len(pipe) : i # j => pipe[i] # pipe[j]
  /\ \A i \in 1..Len(pipe) :
        thread[pipe[i]].pc = "wait" /\ pipe[i] # serving.thread
  /\ serving.thread # NoThread => thread[serving.thread].pc = "wait"
  /\ \A t \in Threads : thread[t].pc = "wait" =>
        serving.thread = t \/ \E i \in 1..Len(pipe) : pipe[i] = t

(* No goroutine was told of a version that is not there yet.               *)
ToldPublished ==
  /\ told =< global_version
  /\ \A t \in Threads : /\ thread[t].atLeast =< global_version
                        /\ thread[t].got =< global_version

(* The HTTP requests to change something that the executor has not         *)
(* executed yet.                                                           *)
Unserved ==
  {t \in HttpThreads : /\ thread[t].pc \in {"send", "wait"}
                       /\ thread[t].req.action # "user_heartbeat"
                       /\ serving.thread = t => serving.stage = "taken"}

Unpublished == IF exec.pc = "heartbeat" /\ exec.swept THEN 1 ELSE 0

(* How far the version can still get without another request: each request *)
(* under way publishes once and may add a user, whose removal publishes    *)
(* once more, and so does the heartbeat that removed users at its end.     *)
Budget ==
  global_version + 3 * Cardinality(Unserved) + 2 * Cardinality(userIndex) + Unpublished
    =< AcceptVersion + 3 * Cardinality(HttpThreads) + 2 * Cardinality(Users) + 1

ServerInv ==
  /\ AppInv
  /\ ServerTypeOK
  /\ HasRequest
  /\ ExecutorPlace
  /\ Waiting
  /\ ToldPublished
  /\ ListAsNewAsTold
  /\ Budget
-----------------------------------------------------------------------------
(* Who counts the goroutines in some state counts no more than there are.  *)
LEMMA HttpCount ==
  ASSUME NEW T \in SUBSET HttpThreads
  PROVE  /\ IsFiniteSet(T) /\ Cardinality(T) \in Nat
         /\ Cardinality(HttpThreads) \in Nat
         /\ Cardinality(T) =< Cardinality(HttpThreads)
BY AcceptAssumption, FS_Subset, FS_CardinalityType

(* The same for the users.                                                 *)
LEMMA UserCount ==
  ASSUME NEW T \in SUBSET Users
  PROVE  /\ IsFiniteSet(T) /\ Cardinality(T) \in Nat
         /\ Cardinality(Users) \in Nat
         /\ Cardinality(T) =< Cardinality(Users)
BY AcceptAssumption, FS_Subset, FS_CardinalityType

(* A smaller set of goroutines is counted with a smaller number.           *)
LEMMA SmallerCount ==
  ASSUME NEW T \in SUBSET HttpThreads, NEW S \in SUBSET T
  PROVE  Cardinality(S) =< Cardinality(T) /\ Cardinality(S) \in Nat
BY HttpCount, FS_Subset

(* Changing where one goroutine is.                                        *)
LEMMA ThreadChange ==
  ASSUME ServerTypeOK, NEW t \in Threads, NEW v \in Thread,
         thread' = [thread EXCEPT ![t] = v]
  PROVE  /\ thread' \in [Threads -> Thread]
         /\ thread'[t] = v
         /\ \A s \in Threads : s # t => thread'[s] = thread[s]
BY DEF ServerTypeOK

(* The server starts sound.                                                *)
LEMMA ServerInitInv == ServerInit => ServerInv
<1> SUFFICES ASSUME ServerInit PROVE ServerInv
  OBVIOUS
<1>1. AppInv /\ global_version = 1 /\ userIndex = {} /\ exec = IdleExec
  BY AppInit DEF ServerInit, Init
<1>2. Idle \in Thread
  BY DEF Idle, Thread
<1>3. /\ \A t \in Threads : thread[t] = Idle
      /\ pipe = <<>> /\ serving = NotServing /\ told = 0 /\ fatal = FALSE
      /\ thread = [t \in Threads |-> Idle]
  BY DEF ServerInit
<1>4. ServerTypeOK
  <2>1. pipe \in Seq(Threads) /\ told \in Nat
    BY <1>3
  <2>4. fatal \in BOOLEAN
    BY <1>3
  <2>2. thread \in [Threads -> Thread]
    BY <1>2, <1>3
  <2>3. serving \in [thread : Threads \cup {NoThread},
                    stage : {"none", "taken", "heartbeat", "respond"}]
    BY <1>3 DEF NotServing
  <2> QED BY <2>1, <2>2, <2>3, <2>4 DEF ServerTypeOK
<1>5. HasRequest /\ ExecutorPlace /\ Waiting /\ ListAsNewAsTold
  BY <1>1, <1>3, ThreadAssumption
     DEF HasRequest, ExecutorPlace, Waiting, ListAsNewAsTold, Idle, NotServing,
         IdleExec, Threads
<1>6. ToldPublished
  BY <1>1, <1>3 DEF ToldPublished, Idle
<1>7. Budget
  <2>1. Unserved = {}
    BY <1>3 DEF Unserved, Threads, Idle
  <2>2. Unpublished = 0
    BY <1>1 DEF Unpublished, IdleExec
  <2>3. Cardinality({}) = 0
    BY FS_EmptySet
  <2>4. Cardinality(HttpThreads) \in Nat /\ Cardinality(Users) \in Nat
    BY AcceptAssumption, FS_CardinalityType
  <2> QED BY <1>1, <2>1, <2>2, <2>3, <2>4, AcceptAssumption DEF Budget
<1> QED BY <1>1, <1>4, <1>5, <1>6, <1>7 DEF ServerInv
-----------------------------------------------------------------------------
(***************************************************************************)
(* The steps of the goroutines, which leave the database alone.            *)
(***************************************************************************)
(* What is said of the database alone stays true.                          *)
LEMMA QuietDatabase ==
  ASSUME ServerInv, UNCHANGED vars
  PROVE  /\ AppInv'
         /\ global_version' = global_version /\ exec' = exec
         /\ userIndex' = userIndex /\ Unpublished' = Unpublished
         /\ global_version \in Nat /\ Cardinality(userIndex) \in Nat
         /\ Cardinality(userIndex) =< Cardinality(Users)
         /\ Unpublished \in {0, 1}
<1>1. AppInv'
  BY NextKeepsApp DEF ServerInv
<1>2. userIndex \in SUBSET Users /\ global_version \in Nat
  BY DEF ServerInv, AppInv, Inv, TypeOK
<1> QED BY <1>1, <1>2, UserCount DEF vars, Unpublished

(* No new request, no larger need of versions.                             *)
LEMMA QuietBudget ==
  ASSUME ServerInv, UNCHANGED vars, Unserved' \subseteq Unserved
  PROVE  Budget'
<1> DEFINE T == Unserved
           S == Unserved'
<1>1. T \in SUBSET HttpThreads /\ S \in SUBSET T
  BY DEF Unserved
<1>2. Budget
  BY DEF ServerInv
<1> HIDE DEF T, S
<1>3. /\ Cardinality(S) =< Cardinality(T) /\ Cardinality(S) \in Nat
      /\ Cardinality(T) \in Nat /\ Cardinality(HttpThreads) \in Nat
  BY <1>1, SmallerCount, HttpCount
<1>4. Cardinality(Users) \in Nat
  BY AcceptAssumption, FS_CardinalityType
<1> QED BY <1>2, <1>3, <1>4, QuietDatabase, AcceptAssumption DEF Budget, T, S

(* A goroutine moves that neither waited nor waits then: it takes a        *)
(* request, or goes on after its answer.                                   *)
LEMMA MoveKeepsInv ==
  ASSUME ServerInv, UNCHANGED <<vars, pipe, serving>>,
         NEW t \in Threads, NEW v \in Thread,
         thread' = [thread EXCEPT ![t] = v],
         thread[t].pc # "wait", v.pc # "wait",
         v.pc # "ready" => v.req \in IF t = UdpThread THEN Heartbeats ELSE HttpRequests,
         v.atLeast =< global_version, v.got =< global_version,
         t \in HttpThreads /\ v.pc = "locked" => v.got >= v.atLeast,
         t \in HttpThreads /\ v.pc = "send" =>
            v.req.action = "user_heartbeat" \/ global_version < AcceptVersion,
         told' \in Nat, told' =< global_version, fatal' \in BOOLEAN
  PROVE  ServerInv'
<1>1. /\ thread' \in [Threads -> Thread] /\ thread'[t] = v
      /\ \A s \in Threads : s # t => thread'[s] = thread[s]
  BY ThreadChange DEF ServerInv
<1>2. /\ AppInv' /\ UNCHANGED <<global_version, exec, userIndex, pipe, serving>>
  BY QuietDatabase
<1>3. ServerTypeOK'
  BY <1>1 DEF ServerInv, ServerTypeOK
<1>4. HasRequest'
  BY <1>1 DEF ServerInv, HasRequest
<1>5. ExecutorPlace'
  BY <1>2 DEF ServerInv, ExecutorPlace
<1>6. Waiting'
  <2>1. \A i \in 1..Len(pipe) : pipe[i] \in Threads /\ pipe[i] # t
    BY DEF ServerInv, ServerTypeOK, Waiting
  <2>2. serving.thread # NoThread => serving.thread \in Threads /\ serving.thread # t
    BY DEF ServerInv, ServerTypeOK, Waiting
  <2> QED BY <1>1, <1>2, <2>1, <2>2 DEF ServerInv, Waiting
<1>7. ToldPublished'
  BY <1>1, <1>2 DEF ServerInv, ToldPublished
<1>8. ListAsNewAsTold'
  BY <1>1 DEF ServerInv, ListAsNewAsTold, Threads
<1>9. Budget'
  <2>1. CASE t \in HttpThreads /\ v.pc = "send" /\ v.req.action # "user_heartbeat"
    <3> DEFINE S == Unserved'
    <3>1. S \in SUBSET HttpThreads
      BY DEF Unserved
    <3> HIDE DEF S
    <3>2. /\ Cardinality(S) =< Cardinality(HttpThreads) /\ Cardinality(S) \in Nat
          /\ Cardinality(HttpThreads) \in Nat
      BY <3>1, HttpCount
    <3>3. Cardinality(Users) \in Nat
      BY AcceptAssumption, FS_CardinalityType
    <3> QED BY <2>1, <3>2, <3>3, QuietDatabase, AcceptAssumption DEF Budget, S
  <2>2. CASE ~(t \in HttpThreads /\ v.pc = "send" /\ v.req.action # "user_heartbeat")
    <3>1. Unserved' \subseteq Unserved
      BY <1>1, <1>2, <2>2 DEF Unserved, Threads
    <3> QED BY <3>1, QuietBudget
  <2> QED BY <2>1, <2>2
<1> QED BY <1>2, <1>3, <1>4, <1>5, <1>6, <1>7, <1>8, <1>9 DEF ServerInv

(* A request arrives at a goroutine.                                       *)
LEMMA ReceiveKeepsInv ==
  ASSUME ServerInv, NEW t \in Threads, Receive(t)
  PROVE  ServerInv'
<1>1. PICK r \in IF t = UdpThread THEN Heartbeats ELSE HttpRequests :
         /\ r.action # "user_heartbeat" => global_version < AcceptVersion
         /\ thread' = [thread EXCEPT ![t] = [pc |-> "send", req |-> r, got |-> 0,
                                             atLeast |-> told]]
  BY DEF Receive
<1> DEFINE v == [pc |-> "send", req |-> r, got |-> 0, atLeast |-> told]
<1>2. thread' = [thread EXCEPT ![t] = v]
  BY <1>1
<1>3. r \in HttpRequests
  BY DEF HttpRequests
<1>4. v \in Thread
  BY <1>3 DEF Thread, ServerInv, ServerTypeOK
<1>5. /\ v.pc = "send" /\ v.req = r /\ v.got = 0 /\ v.atLeast = told
      /\ told \in Nat /\ told =< global_version /\ global_version \in Nat
      /\ fatal \in BOOLEAN
  BY DEF ServerInv, ServerTypeOK, ToldPublished, AppInv, Inv, TypeOK
<1>6. UNCHANGED <<vars, pipe, serving, told, fatal>> /\ thread[t].pc = "ready"
  BY DEF Receive
<1> HIDE DEF v
<1>7. /\ UNCHANGED <<vars, pipe, serving>>
      /\ thread[t].pc # "wait" /\ v.pc # "wait"
      /\ v.req \in IF t = UdpThread THEN Heartbeats ELSE HttpRequests
      /\ v.atLeast =< global_version /\ v.got =< global_version
      /\ v.pc # "locked"
      /\ v.req.action = "user_heartbeat" \/ global_version < AcceptVersion
      /\ told' \in Nat /\ told' =< global_version /\ fatal' \in BOOLEAN
  BY <1>1, <1>5, <1>6
<1> QED BY <1>2, <1>4, <1>7, MoveKeepsInv

(* What the invariant says of one goroutine.                               *)
LEMMA ThreadFacts ==
  ASSUME ServerInv, NEW t \in Threads
  PROVE  /\ thread[t] \in Thread
         /\ thread[t].atLeast =< global_version /\ thread[t].got =< global_version
         /\ thread[t].pc # "ready" =>
               thread[t].req \in IF t = UdpThread THEN Heartbeats ELSE HttpRequests
         /\ told \in Nat /\ told =< global_version /\ fatal \in BOOLEAN
         /\ global_version \in Nat /\ snapShot.Version = global_version
BY DEF ServerInv, ServerTypeOK, HasRequest, ToldPublished, AppInv, Inv, TypeOK,
       SnapShotCurrent

(* A goroutine whose answer has come reads the list or the version.        *)
LEMMA ReadKeepsInv ==
  ASSUME ServerInv, NEW t \in Threads, RLockList(t) \/ (ReadVersion /\ t = UdpThread)
  PROVE  ServerInv'
<1> DEFINE v == [thread[t] EXCEPT !.pc = IF RLockList(t) THEN "locked" ELSE "lookup",
                                  !.got = snapShot.Version]
<1>1. /\ thread' = [thread EXCEPT ![t] = v]
      /\ thread[t].pc \in {"list", "version"}
      /\ UNCHANGED <<vars, pipe, serving, told, fatal>>
  BY DEF RLockList, ReadVersion
<1>2. /\ v \in Thread /\ v.req = thread[t].req /\ v.got = global_version
      /\ v.atLeast = thread[t].atLeast /\ v.pc \in {"locked", "lookup"}
  BY ThreadFacts DEF Thread
<1> HIDE DEF v
<1>3. /\ v.pc # "wait" /\ v.pc # "send"
      /\ v.req \in IF t = UdpThread THEN Heartbeats ELSE HttpRequests
      /\ v.atLeast =< global_version /\ v.got =< global_version
      /\ v.got >= v.atLeast
      /\ told' \in Nat /\ told' =< global_version /\ fatal' \in BOOLEAN
  BY <1>1, <1>2, ThreadFacts
<1> QED BY <1>1, <1>2, <1>3, MoveKeepsInv

(* A goroutine is done with its request.                                   *)
LEMMA DoneKeepsInv ==
  ASSUME ServerInv, NEW t \in Threads, RUnlockList(t) \/ (LookupUser /\ t = UdpThread)
  PROVE  ServerInv'
<1>1. CASE UNCHANGED thread
  <2>1. /\ thread' = [thread EXCEPT ![t] = thread[t]]
        /\ thread[t].pc \in {"locked", "lookup"}
        /\ UNCHANGED <<vars, pipe, serving>>
    BY <1>1 DEF RUnlockList, LookupUser, ServerInv, ServerTypeOK
  <2>2. /\ told' \in Nat /\ told' =< global_version /\ fatal' \in BOOLEAN
    BY <1>1, ThreadFacts DEF RUnlockList, LookupUser, Thread
  <2>3. t \in HttpThreads /\ thread[t].pc = "locked"
           => thread[t].got >= thread[t].atLeast
    BY DEF ServerInv, ListAsNewAsTold
  <2> QED BY <2>1, <2>2, <2>3, ThreadFacts, MoveKeepsInv
<1>2. CASE thread' = [thread EXCEPT ![t] = Idle]
  <2>1. /\ thread[t].pc \in {"locked", "lookup"}
        /\ UNCHANGED <<vars, pipe, serving>>
    BY DEF RUnlockList, LookupUser
  <2>2. Idle \in Thread /\ Idle.pc = "ready" /\ Idle.got = 0 /\ Idle.atLeast = 0
    BY DEF Idle, Thread
  <2>3. /\ told' \in Nat /\ told' =< global_version /\ fatal' \in BOOLEAN
    BY ThreadFacts DEF RUnlockList, LookupUser, Thread
  <2>4. Idle.got =< global_version /\ Idle.atLeast =< global_version
    BY <2>2, ThreadFacts
  <2>5. thread[t].pc # "wait" /\ Idle.pc # "wait" /\ Idle.pc # "send"
        /\ Idle.pc # "locked"
    BY <2>1, <2>2
  <2> HIDE DEF Idle
  <2> QED BY <1>2, <2>1, <2>2, <2>3, <2>4, <2>5, MoveKeepsInv
<1> QED BY <1>1, <1>2 DEF RUnlockList, LookupUser

(* What Append, Head and Tail do to a sequence.                            *)
LEMMA AppendElements ==
  ASSUME NEW S, NEW s \in Seq(S), NEW e \in S
  PROVE  /\ Append(s, e) \in Seq(S) /\ Len(Append(s, e)) = Len(s) + 1
         /\ \A i \in 1..Len(s) : Append(s, e)[i] = s[i]
         /\ Append(s, e)[Len(s) + 1] = e
         /\ Len(s) \in Nat
OBVIOUS

(* What is left after taking the first was there before.                   *)
LEMMA TailElements ==
  ASSUME NEW S, NEW s \in Seq(S), s # <<>>
  PROVE  /\ Tail(s) \in Seq(S) /\ Len(Tail(s)) = Len(s) - 1
         /\ \A i \in 1..(Len(s) - 1) : Tail(s)[i] = s[i + 1]
         /\ Head(s) = s[1] /\ Head(s) \in S /\ 1 \in 1..Len(s)
         /\ Len(s) \in Nat
OBVIOUS

(* A command goes into the pipe, and its goroutine waits from then on.     *)
LEMMA SendKeepsInv ==
  ASSUME ServerInv, NEW t \in Threads, Send(t)
  PROVE  ServerInv'
<1> DEFINE v == [thread[t] EXCEPT !.pc = "wait"]
<1>1. /\ thread' = [thread EXCEPT ![t] = v]
      /\ thread[t].pc = "send" /\ pipe' = Append(pipe, t)
      /\ UNCHANGED <<vars, serving, told, fatal>>
  BY DEF Send, Goto
<1>2. /\ v \in Thread /\ v.req = thread[t].req /\ v.pc = "wait"
      /\ v.got = thread[t].got /\ v.atLeast = thread[t].atLeast
  BY ThreadFacts DEF Thread
<1> HIDE DEF v
<1>3. /\ thread' \in [Threads -> Thread] /\ thread'[t] = v
      /\ \A s \in Threads : s # t => thread'[s] = thread[s]
  BY <1>1, <1>2, ThreadChange DEF ServerInv
<1>4. /\ AppInv' /\ UNCHANGED <<global_version, exec, userIndex>>
  BY <1>1, QuietDatabase
<1>5. /\ pipe' \in Seq(Threads) /\ Len(pipe') = Len(pipe) + 1
      /\ \A i \in 1..Len(pipe) : pipe'[i] = pipe[i]
      /\ pipe'[Len(pipe) + 1] = t /\ Len(pipe) \in Nat
  BY <1>1, AppendElements DEF ServerInv, ServerTypeOK
<1>6. ServerTypeOK'
  BY <1>1, <1>3, <1>5 DEF ServerInv, ServerTypeOK
<1>7. HasRequest' /\ ExecutorPlace'
  BY <1>1, <1>2, <1>3, <1>4, ThreadFacts DEF ServerInv, HasRequest, ExecutorPlace
<1>8. Waiting'
  <2>1. \A i \in 1..Len(pipe) :
           pipe[i] \in Threads /\ pipe[i] # t /\ pipe[i] # serving.thread
           /\ thread[pipe[i]].pc = "wait"
    BY <1>1 DEF ServerInv, ServerTypeOK, Waiting
  <2>2. serving.thread # NoThread => /\ serving.thread \in Threads
                                     /\ serving.thread # t
                                     /\ thread[serving.thread].pc = "wait"
    BY <1>1 DEF ServerInv, ServerTypeOK, Waiting
  <2>3. \A i \in 1..Len(pipe') : i \in 1..Len(pipe) \/ i = Len(pipe) + 1
    BY <1>5
  <2>4. t # serving.thread
    BY <2>2, ThreadAssumption
  <2>5. \A i, j \in 1..Len(pipe') : i # j => pipe'[i] # pipe'[j]
    BY <1>5, <2>1, <2>3 DEF ServerInv, Waiting
  <2>6. \A i \in 1..Len(pipe') :
           thread'[pipe'[i]].pc = "wait" /\ pipe'[i] # serving'.thread
    BY <1>1, <1>2, <1>3, <1>5, <2>1, <2>3, <2>4
  <2>7. serving'.thread # NoThread => thread'[serving'.thread].pc = "wait"
    BY <1>1, <1>3, <2>2
  <2>8. ASSUME NEW s \in Threads, thread'[s].pc = "wait"
        PROVE  serving'.thread = s \/ \E i \in 1..Len(pipe') : pipe'[i] = s
    <3>1. CASE s = t
      <4>1. Len(pipe) + 1 \in 1..Len(pipe')
        BY <1>5
      <4> QED BY <3>1, <4>1, <1>5
    <3>2. CASE s # t
      <4>1. serving.thread = s \/ \E i \in 1..Len(pipe) : pipe[i] = s
        BY <3>2, <2>8, <1>3 DEF ServerInv, Waiting
      <4>2. \A i \in 1..Len(pipe) : i \in 1..Len(pipe')
        BY <1>5
      <4> QED BY <4>1, <4>2, <1>1, <1>5
    <3> QED BY <3>1, <3>2
  <2> QED BY <2>5, <2>6, <2>7, <2>8 DEF Waiting
<1>9. ToldPublished' /\ ListAsNewAsTold'
  BY <1>1, <1>2, <1>3, <1>4 DEF ServerInv, ToldPublished, ListAsNewAsTold, Threads
<1>10. Budget'
  <2>1. Unserved' \subseteq Unserved
    BY <1>1, <1>2, <1>3 DEF Unserved, Threads
  <2> QED BY <2>1, <1>1, QuietBudget
<1> QED BY <1>4, <1>6, <1>7, <1>8, <1>9, <1>10 DEF ServerInv

(* The executor takes the first command from the pipe.                     *)
LEMMA TakeCommandKeepsInv ==
  ASSUME ServerInv, TakeCommand
  PROVE  ServerInv'
<1> DEFINE t == Head(pipe)
<1>1. /\ serving = [thread |-> NoThread, stage |-> "none"]
      /\ serving' = [thread |-> t, stage |-> "taken"]
      /\ pipe # <<>> /\ pipe' = Tail(pipe)
      /\ UNCHANGED <<vars, thread, told, fatal>>
  BY DEF TakeCommand, NotServing
<1>2. /\ pipe' \in Seq(Threads) /\ Len(pipe') = Len(pipe) - 1
      /\ \A i \in 1..(Len(pipe) - 1) : pipe'[i] = pipe[i + 1]
      /\ t = pipe[1] /\ t \in Threads /\ 1 \in 1..Len(pipe) /\ Len(pipe) \in Nat
  BY <1>1, TailElements DEF ServerInv, ServerTypeOK
<1> HIDE DEF t
<1>3. /\ AppInv' /\ UNCHANGED <<global_version, exec, userIndex>>
  BY <1>1, QuietDatabase
<1>4. ServerTypeOK'
  BY <1>1, <1>2 DEF ServerInv, ServerTypeOK
<1>5. HasRequest' /\ ToldPublished' /\ ListAsNewAsTold'
  BY <1>1, <1>3 DEF ServerInv, HasRequest, ToldPublished, ListAsNewAsTold
<1>6. ExecutorPlace'
  BY <1>1, <1>2, <1>3, ThreadAssumption DEF ServerInv, ExecutorPlace
<1>7. Waiting'
  <2>1. \A i \in 1..Len(pipe') : i + 1 \in 1..Len(pipe) /\ pipe'[i] = pipe[i + 1]
                                 /\ i + 1 # 1
    BY <1>2
  <2>2. \A i, j \in 1..Len(pipe') : i # j => i + 1 # j + 1
    OBVIOUS
  <2>3. \A i, j \in 1..Len(pipe') : i # j => pipe'[i] # pipe'[j]
    BY <2>1, <2>2 DEF ServerInv, Waiting
  <2>4. \A i \in 1..Len(pipe') :
           thread'[pipe'[i]].pc = "wait" /\ pipe'[i] # serving'.thread
    BY <1>1, <1>2, <2>1 DEF ServerInv, Waiting
  <2>5. thread'[serving'.thread].pc = "wait"
    BY <1>1, <1>2 DEF ServerInv, Waiting
  <2>6. ASSUME NEW s \in Threads, thread'[s].pc = "wait"
        PROVE  serving'.thread = s \/ \E i \in 1..Len(pipe') : pipe'[i] = s
    <3>1. PICK i \in 1..Len(pipe) : pipe[i] = s
      BY <1>1, <2>6, ThreadAssumption DEF ServerInv, Waiting
    <3>2. CASE i = 1
      BY <3>1, <3>2, <1>1, <1>2
    <3>3. CASE i # 1
      <4>1. i - 1 \in 1..Len(pipe') /\ pipe'[i - 1] = pipe[i]
        BY <3>3, <1>2
      <4> QED BY <3>1, <4>1
    <3> QED BY <3>2, <3>3
  <2> QED BY <2>3, <2>4, <2>5, <2>6 DEF Waiting
<1>8. Budget'
  <2>1. Unserved' \subseteq Unserved
    BY <1>1, ThreadAssumption DEF Unserved, Threads
  <2> QED BY <2>1, <1>1, QuietBudget
<1> QED BY <1>3, <1>4, <1>5, <1>6, <1>7, <1>8 DEF ServerInv

(* The goroutine that waits gets its answer.                               *)
LEMMA RespondKeepsInv ==
  ASSUME ServerInv, Respond
  PROVE  ServerInv'
<1> DEFINE t == serving.thread
           v == IF t = UdpThread THEN [thread[t] EXCEPT !.pc = "version"]
                ELSE IF ReadsList(t) THEN [thread[t] EXCEPT !.pc = "list"]
                ELSE Idle
<1>1. /\ thread' = [thread EXCEPT ![t] = v]
      /\ serving.stage = "respond" /\ thread[t].pc = "wait"
      /\ serving' = [thread |-> NoThread, stage |-> "none"]
      /\ UNCHANGED <<vars, pipe, told, fatal>>
  BY DEF Respond, NotServing
<1>2. t \in Threads
  BY <1>1 DEF ServerInv, ServerTypeOK, ExecutorPlace
<1>3. /\ v \in Thread /\ v.pc \in {"version", "list", "ready"}
      /\ v.pc # "ready" => v.req = thread[t].req
      /\ v.got =< global_version /\ v.atLeast =< global_version
  <2>1. Idle \in Thread /\ Idle.pc = "ready" /\ Idle.got = 0 /\ Idle.atLeast = 0
    BY DEF Idle, Thread
  <2> QED BY <1>2, <2>1, ThreadFacts DEF Thread
<1> HIDE DEF v
<1>4. /\ thread' \in [Threads -> Thread] /\ thread'[t] = v
      /\ \A s \in Threads : s # t => thread'[s] = thread[s]
  BY <1>1, <1>2, <1>3, ThreadChange DEF ServerInv
<1>5. /\ AppInv' /\ UNCHANGED <<global_version, exec, userIndex>>
  BY <1>1, QuietDatabase
<1>6. ServerTypeOK'
  BY <1>1, <1>4 DEF ServerInv, ServerTypeOK
<1>7. HasRequest'
  BY <1>1, <1>2, <1>3, <1>4, ThreadFacts DEF ServerInv, HasRequest
<1>8. ExecutorPlace'
  BY <1>1, <1>5 DEF ServerInv, ExecutorPlace
<1>9. Waiting'
  <2>1. \A i \in 1..Len(pipe) : /\ pipe[i] \in Threads /\ pipe[i] # t
                                /\ thread[pipe[i]].pc = "wait"
    BY DEF ServerInv, ServerTypeOK, Waiting
  <2>2. \A i \in 1..Len(pipe) : pipe[i] # NoThread
    BY <2>1, ThreadAssumption
  <2> QED BY <1>1, <1>3, <1>4, <2>1, <2>2 DEF ServerInv, Waiting
<1>10. ToldPublished'
  BY <1>1, <1>3, <1>4, <1>5 DEF ServerInv, ToldPublished
<1>11. ListAsNewAsTold'
  BY <1>3, <1>4 DEF ServerInv, ListAsNewAsTold, Threads
<1>12. Budget'
  <2>1. Unserved' \subseteq Unserved
    BY <1>1, <1>2, <1>3, <1>4, ThreadAssumption DEF Unserved, Threads
  <2> QED BY <2>1, <1>1, QuietBudget
<1> QED BY <1>5, <1>6, <1>7, <1>8, <1>9, <1>10, <1>11, <1>12 DEF ServerInv
-----------------------------------------------------------------------------
(***************************************************************************)
(* The steps of the executor that change the database.                     *)
(***************************************************************************)
(* A command of the app publishes at most once and adds at most one user.  *)
LEMMA CommandEffect ==
  ASSUME AppInv, Command
  PROVE  /\ exec' = exec
         /\ global_version' \in {global_version, global_version + 1}
         /\ \/ userIndex' \subseteq userIndex
            \/ \E u \in Users : userIndex' = userIndex \cup {u}
<1> DEFINE Quiet == exec' = exec /\ userIndex' = userIndex
           Adds == exec' = exec /\ \E u \in Users : userIndex' = userIndex \cup {u}
           Removes == exec' = exec /\ userIndex' \subseteq userIndex
<1>1. exec'.pc # "dead"
  BY CommandKeepsApp DEF NoPanic
<1>2. ~Panic
  BY <1>1 DEF Panic, IdleExec
<1>3. \A r : Refuse(r) => Quiet /\ global_version' = global_version
  BY DEF Refuse, Answer, dbVars, userVars
<1>4. \A r : Answer(r) => exec' = exec
  BY DEF Answer
<1>5. makeSnapShot => global_version' = global_version + 1
  BY DEF makeSnapShot
<1>6. ASSUME NEW g \in Groups, NEW d \in Profiles,
             AddNewGroup(g, Root, d) \/ UpdataGroup(g, d)
      PROVE  Quiet /\ global_version' \in {global_version, global_version + 1}
  BY <1>3, <1>4, <1>5, <1>6 DEF AddNewGroup, UpdataGroup, userVars
<1>7. ASSUME NEW g \in Groups, NEW to \in GroupIds, MoveGroup(g, to)
      PROVE  Quiet /\ global_version' \in {global_version, global_version + 1}
  BY <1>2, <1>3, <1>4, <1>5, <1>7 DEF MoveGroup, userVars
<1>8. ASSUME NEW u \in Users, NEW g \in Groups, NEW d \in Profiles,
             AddNewUser(u, g, d)
      PROVE  Quiet \/ Adds
  BY <1>3, <1>4, <1>8 DEF AddNewUser
<1>9. ASSUME NEW u \in Users, NEW g \in Groups, NEW d \in Profiles,
             AddNewUser(u, g, d)
      PROVE  global_version' \in {global_version, global_version + 1}
  BY <1>3, <1>5, <1>9 DEF AddNewUser
<1>10. ASSUME NEW u \in Users, NEW d \in Profiles, UpdataUser(u, Root, d)
       PROVE  Quiet /\ global_version' \in {global_version, global_version + 1}
  BY <1>3, <1>4, <1>5, <1>10 DEF UpdataUser
<1>11. ASSUME NEW u \in Users, NEW g \in Groups, DeleteUser(u, g)
       PROVE  Removes /\ global_version' \in {global_version, global_version + 1}
  BY <1>2, <1>3, <1>4, <1>5, <1>11 DEF DeleteUser, RemoveUser
<1> HIDE DEF Quiet, Adds, Removes
<1>12. /\ Quiet \/ Adds \/ Removes
       /\ global_version' \in {global_version, global_version + 1}
  BY <1>6, <1>7, <1>8, <1>9, <1>10, <1>11 DEF Command
<1> QED BY <1>12 DEF Quiet, Adds, Removes

(* An iteration of the sweep removes one user and publishes once.          *)
LEMMA SweepEffect ==
  ASSUME AppInv, tryRemoveTimeoutUser
  PROVE  /\ exec'.pc = "heartbeat" /\ exec'.swept = TRUE
         /\ global_version' = global_version + 1
         /\ \E u \in userIndex : userIndex' = userIndex \ {u}
<1> DEFINE u == Head(timeSort)
<1>1. u \in userIndex /\ u \in Users
  BY HeadListed DEF tryRemoveTimeoutUser, FrontTimedOut, AppInv
<1>2. userGroup[u] \in groupIndex /\ userGroup[u] \in GroupIds
  BY <1>1 DEF AppInv, NoOrphans, Inv, TypeOK
<1>3. RemoveUser(u, userGroup[u]) /\ exec' = [exec EXCEPT !.swept = TRUE]
  BY <1>1, <1>2, NoUserRemovalPanic DEF tryRemoveTimeoutUser
<1>4. exec'.pc = exec.pc /\ exec'.swept = TRUE
  <2>1. exec \in ExecType
    BY DEF AppInv, Inv, TypeOK, ExecType
  <2> QED BY <1>3, <2>1 DEF ExecType
<1>5. exec.pc = "heartbeat"
  BY DEF tryRemoveTimeoutUser
<1> HIDE DEF u
<1> QED BY <1>1, <1>3, <1>4, <1>5 DEF RemoveUser, makeSnapShot

(* A step of the database keeps the invariant if the executor's place      *)
(* follows it and the budget is kept: the goroutines stay where they are.  *)
LEMMA DatabaseStepKeepsInv ==
  ASSUME ServerInv, [AppNext]_vars, UNCHANGED <<pipe, thread, told, fatal>>,
         NEW s \in {"none", "taken", "heartbeat", "respond"},
         serving' = [thread |-> serving.thread, stage |-> s],
         s = "none" <=> serving.stage = "none",
         s = "heartbeat" <=> exec'.pc = "heartbeat",
         global_version' >= global_version,
         Budget'
  PROVE  ServerInv'
<1>1. AppInv'
  BY NextKeepsApp DEF ServerInv
<1>2. ServerTypeOK'
  BY DEF ServerInv, ServerTypeOK
<1>3. HasRequest' /\ ExecutorPlace' /\ Waiting' /\ ListAsNewAsTold'
  BY DEF ServerInv, HasRequest, ExecutorPlace, Waiting, ListAsNewAsTold
<1>4. ToldPublished'
  <2>1. /\ told \in Nat
        /\ \A t \in Threads : thread[t].atLeast \in Nat /\ thread[t].got \in Nat
    BY DEF ServerInv, ServerTypeOK, Thread
  <2>2. global_version \in Nat /\ global_version' \in Nat
    BY <1>1 DEF ServerInv, AppInv, Inv, TypeOK
  <2> QED BY <2>1, <2>2 DEF ServerInv, ToldPublished
<1> QED BY <1>1, <1>2, <1>3, <1>4 DEF ServerInv

(* Whom the executor serves while it serves somebody.                      *)
LEMMA ServedFacts ==
  ASSUME ServerInv, serving.stage # "none"
  PROVE  /\ serving.thread \in Threads /\ thread[serving.thread].pc = "wait"
         /\ thread[serving.thread].req \in
               IF serving.thread = UdpThread THEN Heartbeats ELSE HttpRequests
         /\ serving.stage # "heartbeat" => exec.pc = "idle"
         /\ serving = [thread |-> serving.thread, stage |-> serving.stage]
<1>1. serving.thread \in Threads /\ thread[serving.thread].pc = "wait"
  BY DEF ServerInv, ServerTypeOK, ExecutorPlace, Waiting
<1>2. serving.stage # "heartbeat" => exec.pc = "idle"
  BY DEF ServerInv, ExecutorPlace, AppInv, NoPanic, Inv, TypeOK
<1>3. serving = [thread |-> serving.thread, stage |-> serving.stage]
  BY DEF ServerInv, ServerTypeOK
<1> QED BY <1>1, <1>2, <1>3, ThreadFacts

(* What a request makes the executor do is a heartbeat or a command.       *)
LEMMA ExecuteRequest ==
  ASSUME NEW r \in HttpRequests, Execute(r)
  PROVE  \/ Command /\ r.action # "user_heartbeat"
         \/ /\ UNCHANGED dbVars /\ Heartbeat
            /\ exec'.pc = "heartbeat" /\ exec'.swept = FALSE
<1> USE DEF HttpRequests, UserRequests, GroupRequests, Heartbeats
<1>1. CASE r.action = "group_new" /\ AddNewGroup(r.group, Root, r.data)
  <2>1. r.group \in Groups /\ r.data \in Profiles
    BY <1>1
  <2> QED BY <1>1, <2>1 DEF Command
<1>2. CASE r.action = "group_update" /\ UpdataGroup(r.group, r.data)
  <2>1. r.group \in Groups /\ r.data \in Profiles
    BY <1>2
  <2> QED BY <1>2, <2>1 DEF Command
<1>3. CASE r.action = "group_move" /\ MoveGroup(r.group, r.superGroup)
  <2>1. r.group \in Groups /\ r.superGroup \in GroupIds
    BY <1>3
  <2> QED BY <1>3, <2>1 DEF Command
<1>4. CASE r.action = "user_new" /\ AddNewUser(r.user, r.group, r.data)
  <2>1. r.user \in Users /\ r.group \in Groups /\ r.data \in Profiles
    BY <1>4
  <2> QED BY <1>4, <2>1 DEF Command
<1>5. CASE r.action = "user_update" /\ UpdataUser(r.user, Root, r.data)
  <2>1. r.user \in Users /\ r.data \in Profiles
    BY <1>5
  <2> QED BY <1>5, <2>1 DEF Command
<1>6. CASE r.action = "user_delete" /\ DeleteUser(r.user, r.group)
  <2>1. r.user \in Users /\ r.group \in Groups
    BY <1>6
  <2> QED BY <1>6, <2>1 DEF Command
<1>7. CASE r.action = "user_heartbeat" /\ UserHeartbeat(r.user, r.group)
  <2>1. r.user \in Users /\ r.group \in Groups
    BY <1>7
  <2>2. Heartbeat
    BY <1>7, <2>1 DEF Heartbeat
  <2>3. UNCHANGED dbVars /\ exec'.pc = "heartbeat" /\ exec'.swept = FALSE
    BY <1>7 DEF UserHeartbeat
  <2> QED BY <2>2, <2>3
<1> QED BY <1>1, <1>2, <1>3, <1>4, <1>5, <1>6, <1>7 DEF Execute

(* How many there are to count.                                            *)
LEMMA BudgetTypes ==
  ASSUME ServerInv
  PROVE  /\ global_version \in Nat /\ Unpublished \in {0, 1}
         /\ Unserved \in SUBSET HttpThreads /\ userIndex \in SUBSET Users
         /\ IsFiniteSet(Unserved) /\ IsFiniteSet(userIndex)
         /\ Cardinality(Unserved) \in Nat /\ Cardinality(userIndex) \in Nat
         /\ Cardinality(HttpThreads) \in Nat /\ Cardinality(Users) \in Nat
         /\ Cardinality(Unserved) =< Cardinality(HttpThreads)
         /\ Cardinality(userIndex) =< Cardinality(Users)
<1>1. Unserved \in SUBSET HttpThreads
  BY DEF Unserved
<1>2. userIndex \in SUBSET Users /\ global_version \in Nat
  BY DEF ServerInv, AppInv, Inv, TypeOK
<1>3. Unpublished \in {0, 1}
  BY DEF Unpublished
<1> QED BY <1>1, <1>2, <1>3, HttpCount, UserCount

(* A command that is executed below the budget meets no MaxVersion.        *)
LEMMA CommandAccepted ==
  ASSUME ServerInv, serving.stage = "taken", serving.thread # UdpThread,
         thread[serving.thread].req.action # "user_heartbeat"
  PROVE  Accepts
<1>1. serving.thread \in Unserved
  BY ServedFacts DEF Unserved, Threads
<1>2. Cardinality(Unserved) # 0
  BY <1>1, BudgetTypes, FS_EmptySet
<1>3. exec.pc = "idle"
  BY ServedFacts
<1>4. Budget
  BY DEF ServerInv
<1> DEFINE w == Cardinality(Unserved)
           u == Cardinality(userIndex)
           H == Cardinality(HttpThreads)
           U == Cardinality(Users)
           p == Unpublished
<1>5. /\ w \in Nat /\ u \in Nat /\ H \in Nat /\ U \in Nat /\ p \in Nat
      /\ w # 0 /\ global_version \in Nat
  BY <1>2, BudgetTypes
<1>6. global_version + 3 * w + 2 * u + p =< AcceptVersion + 3 * H + 2 * U + 1
  BY <1>4 DEF Budget
<1>7. /\ AcceptVersion \in Nat /\ MaxVersion \in Nat
      /\ AcceptVersion + 3 * (H + U) + 1 =< MaxVersion
  BY AcceptAssumption, VersionAssumption
<1> HIDE DEF w, u, H, U, p
<1>8. global_version < MaxVersion
  BY <1>5, <1>6, <1>7
<1> QED BY <1>3, <1>8 DEF Accepts

(* The executor executes the command it took.                              *)
LEMMA ExecuteCommandKeepsInv ==
  ASSUME ServerInv, ExecuteCommand
  PROVE  [AppNext]_vars /\ ServerInv'
<1> DEFINE t == serving.thread
           s == IF exec'.pc = "heartbeat" THEN "heartbeat" ELSE "respond"
<1>1. /\ serving.stage = "taken" /\ Execute(thread[t].req)
      /\ serving' = [serving EXCEPT !.stage = s]
      /\ UNCHANGED <<pipe, thread, told, fatal>>
  BY DEF ExecuteCommand
<1>2. serving' = [thread |-> t, stage |-> s]
  BY <1>1, ServedFacts
<1>3. /\ t \in Threads /\ exec.pc = "idle"
      /\ thread[t].req \in IF t = UdpThread THEN Heartbeats ELSE HttpRequests
      /\ thread[t].pc = "wait"
  BY <1>1, ServedFacts
<1>4. thread[t].req \in HttpRequests
  BY <1>3 DEF HttpRequests
<1> HIDE DEF t, s
<1>5. CASE Command /\ t # UdpThread /\ thread[t].req.action # "user_heartbeat"
  <2>1. AppNext
    BY <1>1, <1>5, CommandAccepted DEF AppNext, t
  <2>2. /\ exec' = exec
        /\ global_version' \in {global_version, global_version + 1}
        /\ \/ userIndex' \subseteq userIndex
           \/ \E u \in Users : userIndex' = userIndex \cup {u}
    BY <1>5, CommandEffect DEF ServerInv
  <2>3. s = "respond"
    BY <1>3, <2>2 DEF s
  <2>4. t \in HttpThreads /\ t \in Unserved
    BY <1>1, <1>3, <1>5 DEF Unserved, Threads, t
  <2>5. Unserved' = Unserved \ {t}
    BY <1>1, <1>2, <2>3 DEF Unserved, t
  <2>6. Cardinality(Unserved \ {t}) = Cardinality(Unserved) - 1
    BY <2>4, BudgetTypes, FS_RemoveElement
  <2>7. /\ Cardinality(userIndex') =< Cardinality(userIndex) + 1
        /\ Cardinality(userIndex') \in Nat
    <3>1. CASE userIndex' \subseteq userIndex
      <4>1. userIndex' \in SUBSET userIndex
        BY <3>1
      <4>2. IsFiniteSet(userIndex') /\ Cardinality(userIndex') =< Cardinality(userIndex)
        BY <4>1, BudgetTypes, FS_Subset
      <4> QED BY <4>2, BudgetTypes, FS_CardinalityType
    <3>2. CASE \E u \in Users : userIndex' = userIndex \cup {u}
      <4>1. PICK u \in Users : userIndex' = userIndex \cup {u}
        BY <3>2
      <4>2. Cardinality(userIndex') = IF u \in userIndex THEN Cardinality(userIndex)
                                      ELSE Cardinality(userIndex) + 1
        BY <4>1, BudgetTypes, FS_AddElement
      <4>3. Cardinality(userIndex) \in Nat
        BY BudgetTypes
      <4> QED BY <4>2, <4>3
    <3> QED BY <3>1, <3>2, <2>2
  <2>8. Unpublished' = Unpublished
    BY <2>2 DEF Unpublished
  <2>9. Budget'
    <3>1. Budget
      BY DEF ServerInv
    <3> QED BY <3>1, <2>2, <2>5, <2>6, <2>7, <2>8, BudgetTypes, AcceptAssumption
            DEF Budget
  <2>10. global_version' >= global_version
    BY <2>2, BudgetTypes
  <2>11. exec'.pc # "heartbeat"
    BY <1>3, <2>2
  <2> QED BY <1>1, <1>2, <2>1, <2>3, <2>9, <2>10, <2>11, DatabaseStepKeepsInv
          DEF t
<1>6. CASE UNCHANGED dbVars /\ Heartbeat /\ exec'.pc = "heartbeat" /\ exec'.swept = FALSE
  <2>1. AppNext
    BY <1>3, <1>6 DEF AppNext
  <2>2. global_version' = global_version /\ userIndex' = userIndex
    BY <1>6 DEF dbVars, userVars
  <2>3. s = "heartbeat"
    BY <1>6 DEF s
  <2>4. Unserved' \in SUBSET Unserved
    BY <1>1, <1>2, <2>3 DEF Unserved, t
  <2>5. Cardinality(Unserved') =< Cardinality(Unserved) /\ Cardinality(Unserved') \in Nat
    <3> DEFINE S == Unserved
               T == Unserved'
    <3>1. S \in SUBSET HttpThreads /\ T \in SUBSET S
      BY <2>4 DEF Unserved
    <3> HIDE DEF S, T
    <3>2. Cardinality(T) =< Cardinality(S) /\ Cardinality(T) \in Nat
      BY <3>1, SmallerCount
    <3> QED BY <3>2 DEF S, T
  <2>6. Unpublished' = 0
    BY <1>6 DEF Unpublished
  <2>7. Budget'
    <3>1. Budget
      BY DEF ServerInv
    <3> QED BY <3>1, <2>2, <2>5, <2>6, BudgetTypes, AcceptAssumption DEF Budget
  <2>8. global_version' >= global_version
    BY <2>2, BudgetTypes
  <2> QED BY <1>1, <1>2, <1>6, <2>1, <2>3, <2>7, <2>8, DatabaseStepKeepsInv DEF t
<1>7. t = UdpThread => thread[t].req.action = "user_heartbeat"
  BY <1>3 DEF Heartbeats
<1> DEFINE r == thread[t].req
<1>8. r \in HttpRequests /\ Execute(r)
  BY <1>1, <1>4
<1> HIDE DEF r
<1>9. \/ Command /\ r.action # "user_heartbeat"
      \/ /\ UNCHANGED dbVars /\ Heartbeat
         /\ exec'.pc = "heartbeat" /\ exec'.swept = FALSE
  BY <1>8, ExecuteRequest
<1>10. Command /\ r.action # "user_heartbeat"
         => t # UdpThread /\ thread[t].req.action # "user_heartbeat"
  BY <1>7 DEF r
<1> QED BY <1>5, <1>6, <1>9, <1>10

(* One iteration of a running heartbeat's sweep.                           *)
LEMMA SweepKeepsServerInv ==
  ASSUME ServerInv, Sweep
  PROVE  [AppNext]_vars /\ ServerInv'
<1>1. /\ serving.stage = "heartbeat" /\ tryRemoveTimeoutUser
      /\ UNCHANGED <<pipe, thread, serving, told, fatal>>
  BY DEF Sweep, serverVars
<1>2. AppNext
  BY <1>1 DEF AppNext
<1>3. /\ exec'.pc = "heartbeat" /\ exec'.swept = TRUE
      /\ global_version' = global_version + 1
      /\ \E u \in userIndex : userIndex' = userIndex \ {u}
  BY <1>1, SweepEffect DEF ServerInv
<1>4. Cardinality(userIndex') = Cardinality(userIndex) - 1
  <2>1. PICK u \in userIndex : userIndex' = userIndex \ {u}
    BY <1>3
  <2> QED BY <2>1, BudgetTypes, FS_RemoveElement
<1>5. Unserved' = Unserved
  BY <1>1 DEF Unserved
<1>6. Unpublished' = 1
  BY <1>3 DEF Unpublished
<1>7. Budget'
  <2>1. Budget
    BY DEF ServerInv
  <2> QED BY <2>1, <1>3, <1>4, <1>5, <1>6, BudgetTypes, AcceptAssumption DEF Budget
<1>8. global_version' >= global_version
  BY <1>3, BudgetTypes
<1>9. serving' = [thread |-> serving.thread, stage |-> "heartbeat"]
  BY <1>1, ServedFacts
<1> QED BY <1>1, <1>2, <1>3, <1>7, <1>8, <1>9, DatabaseStepKeepsInv

(* The end of a heartbeat.                                                 *)
LEMMA FinishKeepsServerInv ==
  ASSUME ServerInv, Finish
  PROVE  [AppNext]_vars /\ ServerInv'
<1>1. /\ serving.stage = "heartbeat" /\ FinishHeartbeat
      /\ serving' = [serving EXCEPT !.stage = "respond"]
      /\ UNCHANGED <<pipe, thread, told, fatal>>
  BY DEF Finish
<1>2. AppNext
  BY <1>1 DEF AppNext
<1>3. /\ exec'.pc = "idle" /\ userIndex' = userIndex
      /\ global_version' = global_version + Unpublished
  <2>1. exec.pc = "heartbeat" /\ exec' = IdleExec /\ userIndex' = userIndex
    BY <1>1 DEF FinishHeartbeat
  <2>2. ASSUME exec.swept PROVE global_version' = global_version + Unpublished
    <3>1. makeSnapShot
      BY <1>1, <2>2, Zenon DEF FinishHeartbeat
    <3>2. Unpublished = 1
      BY <2>1, <2>2, Zenon DEF Unpublished
    <3> QED BY <3>1, <3>2 DEF makeSnapShot
  <2>3. ASSUME ~exec.swept PROVE global_version' = global_version + Unpublished
    <3>1. NoSnapShot
      BY <1>1, <2>3, Zenon DEF FinishHeartbeat
    <3>2. Unpublished = 0
      BY <2>1, <2>3, Zenon DEF Unpublished
    <3> QED BY <3>1, <3>2, BudgetTypes DEF NoSnapShot
  <2>4. exec'.pc = "idle"
    BY <2>1 DEF IdleExec
  <2> QED BY <2>1, <2>2, <2>3, <2>4
<1>4. serving' = [thread |-> serving.thread, stage |-> "respond"]
  BY <1>1, ServedFacts
<1>5. Unserved' = Unserved
  BY <1>1, <1>4 DEF Unserved
<1>6. Unpublished' = 0
  BY <1>3 DEF Unpublished
<1>7. Budget'
  <2>1. Budget
    BY DEF ServerInv
  <2> QED BY <2>1, <1>3, <1>5, <1>6, BudgetTypes, AcceptAssumption DEF Budget
<1>8. global_version' >= global_version
  BY <1>3, BudgetTypes
<1> QED BY <1>1, <1>2, <1>3, <1>4, <1>7, <1>8, DatabaseStepKeepsInv

(* Time passes between the goroutines' steps.                              *)
LEMMA ClockTickKeepsInv ==
  ASSUME ServerInv, ClockTick
  PROVE  [AppNext]_vars /\ ServerInv'
<1>1. Tick /\ UNCHANGED <<pipe, thread, serving, told, fatal>>
  BY DEF ClockTick, serverVars
<1>2. AppNext
  BY <1>1 DEF AppNext
<1>3. UNCHANGED <<exec, global_version, userIndex>>
  BY <1>1 DEF Tick
<1>4. Budget'
  BY <1>1, <1>3 DEF ServerInv, Budget, Unserved, Unpublished
<1>5. serving' = [thread |-> serving.thread, stage |-> serving.stage]
  BY <1>1 DEF ServerInv, ServerTypeOK
<1>6. serving.stage \in {"none", "taken", "heartbeat", "respond"}
  BY DEF ServerInv, ServerTypeOK
<1>7. global_version' >= global_version
  BY <1>3, BudgetTypes
<1>8. serving.stage = "heartbeat" <=> exec'.pc = "heartbeat"
  BY <1>3 DEF ServerInv, ExecutorPlace
<1> QED BY <1>1, <1>2, <1>4, <1>5, <1>6, <1>7, <1>8, DatabaseStepKeepsInv
-----------------------------------------------------------------------------
(***************************************************************************)
(* All steps together.                                                     *)
(***************************************************************************)
(* Every step of the server is a step of the database that one of the      *)
(* app's requests causes, or leaves the database alone; and it keeps the   *)
(* invariant.                                                              *)
LEMMA ServerNextKeepsInv ==
  ASSUME ServerInv, [ServerNext]_allVars
  PROVE  [AppNext]_vars /\ ServerInv'
<1>1. ASSUME NEW t \in Threads, Receive(t) \/ Server(t)
      PROVE  [AppNext]_vars /\ ServerInv'
  <2>1. UNCHANGED vars
    BY <1>1 DEF Receive, Server, Send, RLockList, RUnlockList
  <2> QED BY <1>1, <2>1, ReceiveKeepsInv, SendKeepsInv, ReadKeepsInv, DoneKeepsInv
          DEF Server
<1>2. ASSUME ReadVersion \/ LookupUser
      PROVE  [AppNext]_vars /\ ServerInv'
  <2>1. UNCHANGED vars /\ UdpThread \in Threads
    BY <1>2 DEF ReadVersion, LookupUser, Threads
  <2> QED BY <1>2, <2>1, ReadKeepsInv, DoneKeepsInv
<1>3. ASSUME TakeCommand \/ Respond
      PROVE  [AppNext]_vars /\ ServerInv'
  <2>1. UNCHANGED vars
    BY <1>3 DEF TakeCommand, Respond
  <2> QED BY <1>3, <2>1, TakeCommandKeepsInv, RespondKeepsInv
<1>4. ASSUME ExecuteCommand \/ Sweep \/ Finish \/ ClockTick
      PROVE  [AppNext]_vars /\ ServerInv'
  BY <1>4, ExecuteCommandKeepsInv, SweepKeepsServerInv, FinishKeepsServerInv,
     ClockTickKeepsInv
<1>5. CASE UNCHANGED allVars
  <2>1. UNCHANGED vars /\ UNCHANGED <<pipe, thread, serving, told, fatal>>
    BY <1>5 DEF allVars, serverVars
  <2>2. ServerTypeOK' /\ HasRequest' /\ ExecutorPlace' /\ Waiting'
        /\ ToldPublished' /\ ListAsNewAsTold' /\ Budget' /\ AppInv'
    BY <2>1, QuietDatabase
       DEF ServerInv, ServerTypeOK, HasRequest, ExecutorPlace, Waiting,
           ToldPublished, ListAsNewAsTold, Budget, Unserved
  <2> QED BY <2>1, <2>2 DEF ServerInv
<1> QED BY <1>1, <1>2, <1>3, <1>4, <1>5 DEF ServerNext, Executor

(* The invariant holds in every state of the server.                       *)
LEMMA ServerInvHolds == ServerSpec => []ServerInv
<1>1. ServerInv /\ [ServerNext]_allVars => ServerInv'
  BY ServerNextKeepsInv
<1> QED BY <1>1, ServerInitInv, PTL DEF ServerSpec

(* The goroutines around the executor, whatever their number and whatever  *)
(* they interleave, change the database only as the commands do one after  *)
(* the other: the server is the database of MemoryDB, and all that is      *)
(* proved of that holds for it.                                            *)
THEOREM ServerImplementsDatabase == ServerSpec => ImplementsMemoryDB
<1>1. ServerInit => Init
  BY DEF ServerInit
<1>2. ServerInv /\ [ServerNext]_allVars => [Next]_vars
  BY ServerNextKeepsInv, AppSteps
<1> QED BY <1>1, <1>2, ServerInvHolds, PTL DEF ServerSpec, Spec, ImplementsMemoryDB

(* Every command is answered to the one goroutine that waits for it: the   *)
(* executor, which blocks until its answer is taken, never waits for a     *)
(* goroutine that is gone.                                                 *)
THEOREM AnswersAlwaysMatch == ServerSpec => []AnswersMatch
<1>1. ASSUME ServerInv PROVE AnswersMatch
  <2> SUFFICES ASSUME NEW t \in Threads
               PROVE  Cardinality({i \in DOMAIN pipe : pipe[i] = t})
                        + (IF serving.thread = t THEN 1 ELSE 0)
                      = IF thread[t].pc = "wait" THEN 1 ELSE 0
    BY DEF AnswersMatch
  <2> DEFINE at == {i \in DOMAIN pipe : pipe[i] = t}
  <2>5. pipe \in Seq(Threads) /\ Waiting
    BY <1>1 DEF ServerInv, ServerTypeOK
  <2>1. DOMAIN pipe = 1..Len(pipe) /\ Waiting
    BY <2>5
  <2>2. t # NoThread
    BY ThreadAssumption
  <2>3. CASE \E i \in 1..Len(pipe) : pipe[i] = t
    <3>1. PICK k \in 1..Len(pipe) : pipe[k] = t
      BY <2>3
    <3>2. at = {k}
      BY <3>1, <2>1 DEF Waiting
    <3>3. Cardinality(at) = 1
      BY <3>2, FS_Singleton
    <3>4. serving.thread # t /\ thread[t].pc = "wait"
      BY <3>1, <2>1 DEF Waiting
    <3> QED BY <3>3, <3>4
  <2>4. CASE ~\E i \in 1..Len(pipe) : pipe[i] = t
    <3>1. at = {}
      BY <2>1, <2>4
    <3>2. Cardinality(at) = 0
      BY <3>1, FS_EmptySet
    <3>3. serving.thread = t <=> thread[t].pc = "wait"
      BY <2>1, <2>2, <2>4 DEF Waiting
    <3> QED BY <3>2, <3>3
  <2> QED BY <2>3, <2>4
<1> QED BY <1>1, ServerInvHolds, PTL

(* A client that was told of a version gets that one or a later one when   *)
(* it asks for the list, whatever the executor publishes meanwhile.        *)
THEOREM ListNeverBehind == ServerSpec => []ListAsNewAsTold
<1>1. ServerInv => ListAsNewAsTold
  BY DEF ServerInv
<1> QED BY <1>1, ServerInvHolds, PTL

(* The server keeps the promises of the database whatever requests are     *)
(* possible in MemoryDB: its goroutines only make the app's, so that no    *)
(* nil is dereferenced and nothing is orphaned.                            *)
THEOREM ServerNeverOrphans == ServerSpec => [](NoOrphans /\ NoPanic)
<1>1. ServerInv => NoOrphans /\ NoPanic
  BY DEF ServerInv, AppInv
<1> QED BY <1>1, ServerInvHolds, PTL

(* What clients rely on when they compare versions only: whatever the      *)
(* goroutines interleave, a list never changes under its version.          *)
THEOREM ServerPublishesVersions == ServerSpec => ImplementsVersionedList
BY ServerImplementsDatabase, DatabaseImplementsVersionedList, PTL
   DEF ImplementsMemoryDB

(* Between the other commands of the pipe, a heartbeat still removes all   *)
(* that timed out, and whoever leaves takes its empty groups along.        *)
THEOREM ServerSweeps == ServerSpec => AnsweredHeartbeatSwept /\ NoEmptyGroupLeft
BY ServerImplementsDatabase, AnsweredHeartbeatSweptHolds, RemovalLeavesNoEmptyGroup,
   PTL DEF ImplementsMemoryDB

(* A client that is missing from the server's list was merged into a       *)
(* cycle of groups, whatever was asked for at the same time.               *)
THEOREM ServerHidesOnlyCycles == ServerSpec => []HiddenOnlyInCycle
<1>1. ServerInv => HiddenOnlyInCycle
  BY CyclesHide DEF ServerInv
<1> QED BY <1>1, ServerInvHolds, PTL
=============================================================================
