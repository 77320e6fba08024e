------------------------- MODULE LocalServer_proofs -------------------------
(***************************************************************************)
(* What the goroutines of a local mesh server keep, for any number of them *)
(* and any capacity of the pipe.  The invariant has the store's own (Inv   *)
(* of UserList_proofs) as a part.                                          *)
(***************************************************************************)
EXTENDS LocalServer, UserList_proofs, FiniteSetTheorems

Requests == HttpRequests \cup {Check}

Thread == [pc : {"ready", "send", "wait", "read", "reply", "locked"},
           req : Requests \cup {[action |-> "none"]},
           got : Nat, atLeast : Nat]

ServerTypeOK ==
  /\ pipe \in Seq([from : Threads, req : Requests]) /\ Len(pipe) =< PipeSize
  /\ thread \in [Threads -> Thread]
  /\ serving \in Threads \cup {NoThread}
  /\ told \in Nat

(* What each goroutine sends: the ticker only checks, the loop that        *)
(* answers heartbeats only those.                                          *)
RequestsOf(t) ==
  IF t = UdpThread THEN Heartbeats
  ELSE IF t = TickerThread THEN {Check} ELSE HttpRequests

HasRequest ==
  \A t \in Threads : thread[t].pc = "send" => thread[t].req \in RequestsOf(t)

(* Who waits has one command that is answered in the pipe, or is served.   *)
Waiting ==
  /\ \A i, j \in 1..Len(pipe) :
        i # j /\ HasResponse(pipe[i].req) /\ HasResponse(pipe[j].req)
          => pipe[i].from # pipe[j].from
  /\ \A i \in 1..Len(pipe) : HasResponse(pipe[i].req) =>
        thread[pipe[i].from].pc = "wait" /\ pipe[i].from # serving
  /\ serving # NoThread => thread[serving].pc = "wait"
  /\ \A t \in Threads : thread[t].pc = "wait" =>
        \/ serving = t
        \/ \E i \in 1..Len(pipe) : pipe[i].from = t /\ HasResponse(pipe[i].req)

(* No goroutine was told of a version that is not there yet.               *)
ToldPublished ==
  /\ told =< version
  /\ \A t \in Threads : thread[t].atLeast =< version /\ thread[t].got =< version

(* The commands that are not taken at MaxVersion, on their way.            *)
IsCommand(r) == r.action \notin {"user_heartbeat", "check_heartbeat"}
Senders == {t \in HttpThreads : thread[t].pc = "send"}
Pending(q) == {i \in 1..Len(q) : IsCommand(q[i].req)}

(* How far the version can still get without another request: each command *)
(* publishes once and may add a user, whose removal publishes once more.   *)
Budget ==
  version + Cardinality(Registered)
    + 2 * (Cardinality(Senders) + Cardinality(Pending(pipe)))
    =< AcceptVersion + Cardinality(Users) + 2 * (Cardinality(HttpThreads) + PipeSize)

ServerInv ==
  /\ Inv
  /\ ServerTypeOK
  /\ HasRequest
  /\ Waiting
  /\ ToldPublished
  /\ ListAsNewAsTold
  /\ Budget
-----------------------------------------------------------------------------
(* Who counts some of the goroutines counts no more than there are.        *)
LEMMA HttpCount ==
  ASSUME NEW T \in SUBSET HttpThreads
  PROVE  /\ IsFiniteSet(T) /\ Cardinality(T) \in Nat
         /\ Cardinality(HttpThreads) \in Nat
         /\ Cardinality(T) =< Cardinality(HttpThreads)
BY AcceptAssumption, FS_Subset, FS_CardinalityType

(* The same for the users.                                                 *)
LEMMA UserCount ==
  ASSUME NEW T \in SUBSET Users
  PROVE  /\ IsFiniteSet(T) /\ Cardinality(T) \in Nat
         /\ Cardinality(Users) \in Nat
         /\ Cardinality(T) =< Cardinality(Users)
BY AcceptAssumption, FS_Subset, FS_CardinalityType

(* A smaller set of goroutines is counted with a smaller number.           *)
LEMMA SmallerCount ==
  ASSUME NEW T \in SUBSET HttpThreads, NEW S \in SUBSET T
  PROVE  Cardinality(S) =< Cardinality(T) /\ Cardinality(S) \in Nat
BY HttpCount, FS_Subset

(* The pipe holds no more commands than entries.                           *)
LEMMA PendingCount ==
  ASSUME NEW q, Len(q) \in Nat
  PROVE  /\ IsFiniteSet(Pending(q)) /\ Cardinality(Pending(q)) \in Nat
         /\ Cardinality(Pending(q)) =< Len(q)
<1>1. Pending(q) \in SUBSET (1..Len(q))
  BY DEF Pending
<1>2. IsFiniteSet(1..Len(q)) /\ Cardinality(1..Len(q)) = Len(q)
  <2>1. 1 \in Int /\ Len(q) \in Int
    OBVIOUS
  <2>2. /\ IsFiniteSet(1..Len(q))
        /\ Cardinality(1..Len(q)) = IF 1 > Len(q) THEN 0 ELSE Len(q) - 1 + 1
    BY <2>1, FS_Interval, Zenon
  <2> QED BY <2>2
<1> QED BY <1>1, <1>2, FS_Subset, FS_CardinalityType

(* An entry at the end of the pipe is one command more, if it is one.      *)
LEMMA AppendCount ==
  ASSUME NEW S, NEW q \in Seq(S), NEW e \in S
  PROVE  Cardinality(Pending(Append(q, e))) =
           IF IsCommand(e.req) THEN Cardinality(Pending(q)) + 1
           ELSE Cardinality(Pending(q))
<1> DEFINE n == Len(q) + 1
           p == Append(q, e)
<1>1. /\ Len(p) = n /\ Len(q) \in Nat /\ p[n] = e
      /\ \A i \in 1..Len(q) : p[i] = q[i]
  OBVIOUS
<1> HIDE DEF p
<1>2. 1..Len(p) = (1..Len(q)) \cup {n} /\ n \notin 1..Len(q)
  BY <1>1
<1>3. n \notin Pending(q) /\ IsFiniteSet(Pending(q))
  BY <1>1, <1>2, PendingCount DEF Pending
<1>4. CASE IsCommand(e.req)
  <2>1. Pending(p) = Pending(q) \cup {n}
    BY <1>1, <1>2, <1>4 DEF Pending
  <2>2. Cardinality(Pending(q) \cup {n}) = Cardinality(Pending(q)) + 1
    BY <1>3, FS_AddElement
  <2> QED BY <1>4, <2>1, <2>2 DEF p
<1>5. CASE ~IsCommand(e.req)
  <2>1. Pending(p) = Pending(q)
    BY <1>1, <1>2, <1>5 DEF Pending
  <2> QED BY <1>5, <2>1 DEF p
<1> QED BY <1>4, <1>5

(* The pipe without its first entry holds one command less, if it was one: *)
(* every entry of the rest was an entry behind the first.                  *)
LEMMA TailCount ==
  ASSUME NEW S, NEW q \in Seq(S), q # <<>>
  PROVE  /\ Cardinality(Pending(Tail(q))) \in Nat
         /\ Cardinality(Pending(Tail(q))) =<
              IF IsCommand(Head(q).req) THEN Cardinality(Pending(q)) - 1
              ELSE Cardinality(Pending(q))
<1> DEFINE p == Tail(q)
           A == Pending(p)
           B == Pending(q) \ {1}
           f == [i \in A |-> i + 1]
<1>1. /\ Len(p) = Len(q) - 1 /\ Len(q) \in Nat /\ Head(q) = q[1] /\ Len(q) >= 1
      /\ \A i \in 1..(Len(q) - 1) : p[i] = q[i + 1]
  OBVIOUS
<1> HIDE DEF p
<1>2. \A i \in A : i + 1 \in B /\ i \in Nat
  BY <1>1 DEF Pending
<1>3. f \in Injection(A, B)
  BY <1>2 DEF Injection, IsInjective
<1>4. IsFiniteSet(Pending(q)) /\ Cardinality(Pending(q)) \in Nat
  BY <1>1, PendingCount
<1>5. /\ IsFiniteSet(B)
      /\ Cardinality(B) = IF 1 \in Pending(q) THEN Cardinality(Pending(q)) - 1
                          ELSE Cardinality(Pending(q))
  BY <1>4, FS_RemoveElement
<1>6. Cardinality(A) =< Cardinality(B)
  BY <1>3, <1>5, FS_Injection
<1>7. 1 \in Pending(q) <=> IsCommand(Head(q).req)
  BY <1>1 DEF Pending
<1>8. Cardinality(A) \in Nat
  BY <1>1, PendingCount
<1> HIDE DEF A, B
<1> QED BY <1>5, <1>6, <1>7, <1>8 DEF A, p

(* What Append, Head and Tail do to a sequence.                            *)
LEMMA AppendElements ==
  ASSUME NEW S, NEW s \in Seq(S), NEW e \in S
  PROVE  /\ Append(s, e) \in Seq(S) /\ Len(Append(s, e)) = Len(s) + 1
         /\ \A i \in 1..Len(s) : Append(s, e)[i] = s[i]
         /\ Append(s, e)[Len(s) + 1] = e
         /\ Len(s) \in Nat
OBVIOUS

(* What is left after taking the first was there before.                   *)
LEMMA TailElements ==
  ASSUME NEW S, NEW s \in Seq(S), s # <<>>
  PROVE  /\ Tail(s) \in Seq(S) /\ Len(Tail(s)) = Len(s) - 1
         /\ \A i \in 1..(Len(s) - 1) : Tail(s)[i] = s[i + 1]
         /\ Head(s) = s[1] /\ Head(s) \in S /\ 1 \in 1..Len(s)
         /\ Len(s) \in Nat
OBVIOUS

(* Changing where one goroutine is.                                        *)
LEMMA ThreadChange ==
  ASSUME ServerTypeOK, NEW t \in Threads, NEW v \in Thread,
         thread' = [thread EXCEPT ![t] = v]
  PROVE  /\ thread' \in [Threads -> Thread]
         /\ thread'[t] = v
         /\ \A s \in Threads : s # t => thread'[s] = thread[s]
BY DEF ServerTypeOK

(* What the invariant says of one goroutine.                               *)
LEMMA ThreadFacts ==
  ASSUME ServerInv, NEW t \in Threads
  PROVE  /\ thread[t] \in Thread
         /\ thread[t].atLeast =< version /\ thread[t].got =< version
         /\ thread[t].pc = "send" => thread[t].req \in RequestsOf(t)
         /\ told \in Nat /\ told =< version
         /\ version \in Nat /\ snapShot.Version = version
BY DEF ServerInv, ServerTypeOK, HasRequest, ToldPublished, Inv, TypeOK,
       SnapShotCurrent, Snapshot

(* What it says of the entries of the pipe.                                *)
LEMMA PipeFacts ==
  ASSUME ServerInv
  PROVE  /\ pipe \in Seq([from : Threads, req : Requests]) /\ Len(pipe) \in Nat
         /\ \A i \in 1..Len(pipe) : /\ pipe[i] \in [from : Threads, req : Requests]
                                  /\ pipe[i].from \in Threads
                                  /\ pipe[i].req \in Requests
<1>1. pipe \in Seq([from : Threads, req : Requests])
  BY DEF ServerInv, ServerTypeOK
<1> DEFINE E == [from : Threads, req : Requests]
<1>2. \A e \in E : e.from \in Threads /\ e.req \in Requests
  OBVIOUS
<1>4. pipe \in Seq(E)
  BY <1>1
<1> HIDE DEF E
<1>5. (\A i \in 1..Len(pipe) : pipe[i] \in E) /\ Len(pipe) \in Nat
  BY <1>4
<1>3. \A i \in 1..Len(pipe) : /\ pipe[i] \in E
                              /\ pipe[i].from \in Threads /\ pipe[i].req \in Requests
  BY <1>2, <1>5
<1> QED BY <1>1, <1>3, <1>5 DEF E

(* How many there are to count.                                            *)
LEMMA BudgetTypes ==
  ASSUME ServerInv
  PROVE  /\ version \in Nat /\ Registered \in SUBSET Users
         /\ Senders \in SUBSET HttpThreads /\ IsFiniteSet(Senders)
         /\ IsFiniteSet(Registered) /\ Len(pipe) \in Nat /\ Len(pipe) =< PipeSize
         /\ Cardinality(Senders) \in Nat /\ Cardinality(Registered) \in Nat
         /\ Cardinality(Pending(pipe)) \in Nat
         /\ Cardinality(Pending(pipe)) =< PipeSize
         /\ Cardinality(HttpThreads) \in Nat /\ Cardinality(Users) \in Nat
         /\ Cardinality(Senders) =< Cardinality(HttpThreads)
         /\ Cardinality(Registered) =< Cardinality(Users)
<1>1. Senders \in SUBSET HttpThreads
  BY DEF Senders
<1>2. Registered \in SUBSET Users /\ version \in Nat
  BY DEF ServerInv, Inv, TypeOK
<1>3. Len(pipe) \in Nat /\ Len(pipe) =< PipeSize
  <2>1. pipe \in Seq([from : Threads, req : Requests]) /\ Len(pipe) =< PipeSize
    BY DEF ServerInv, ServerTypeOK
  <2> QED BY <2>1
<1>4. Cardinality(Pending(pipe)) \in Nat /\ Cardinality(Pending(pipe)) =< Len(pipe)
  BY <1>3, PendingCount
<1> QED BY <1>1, <1>2, <1>3, <1>4, HttpCount, UserCount, PipeAssumption

(* The server starts sound.                                                *)
LEMMA ServerInitInv == ServerInit => ServerInv
<1> SUFFICES ASSUME ServerInit PROVE ServerInv
  OBVIOUS
<1>1. Inv /\ version = 0 /\ Registered = {}
  BY InitInv DEF ServerInit, Init, Registered
<1>2. Idle \in Thread /\ Idle.pc = "ready" /\ Idle.got = 0 /\ Idle.atLeast = 0
  BY DEF Idle, Thread
<1>3. /\ \A t \in Threads : thread[t] = Idle
      /\ pipe = <<>> /\ serving = NoThread /\ told = 0
      /\ thread = [t \in Threads |-> Idle]
  BY DEF ServerInit
<1>4. ServerTypeOK
  <2>1. pipe \in Seq([from : Threads, req : Requests]) /\ Len(pipe) = 0
    BY <1>3
  <2>2. thread \in [Threads -> Thread]
    BY <1>2, <1>3
  <2> QED BY <1>3, <2>1, <2>2, PipeAssumption DEF ServerTypeOK
<1>5. HasRequest /\ Waiting /\ ListAsNewAsTold
  BY <1>2, <1>3 DEF HasRequest, Waiting, ListAsNewAsTold, Threads
<1>6. ToldPublished
  BY <1>1, <1>2, <1>3 DEF ToldPublished
<1>7. Budget
  <2>1. Senders = {}
    BY <1>2, <1>3 DEF Senders, Threads
  <2>2. Pending(pipe) = {}
    BY <1>3 DEF Pending
  <2>3. Cardinality({}) = 0
    BY FS_EmptySet
  <2>4. Cardinality(HttpThreads) \in Nat /\ Cardinality(Users) \in Nat
    BY AcceptAssumption, FS_CardinalityType
  <2> QED BY <1>1, <2>1, <2>2, <2>3, <2>4, AcceptAssumption, PipeAssumption DEF Budget
<1> QED BY <1>1, <1>4, <1>5, <1>6, <1>7 DEF ServerInv
-----------------------------------------------------------------------------
(***************************************************************************)
(* The steps of the goroutines, which leave the store alone.               *)
(***************************************************************************)
(* What is said of the store alone stays true.                             *)
LEMMA QuietStore ==
  ASSUME ServerInv, UNCHANGED vars
  PROVE  Inv' /\ version' = version /\ Registered' = Registered
<1>1. Inv'
  BY NextKeepsInv DEF ServerInv
<1> QED BY <1>1 DEF vars, Registered

(* A goroutine moves that neither waited nor waits then, and leaves the    *)
(* pipe alone.                                                             *)
LEMMA MoveKeepsInv ==
  ASSUME ServerInv, UNCHANGED <<vars, pipe, serving>>,
         NEW t \in Threads, NEW v \in Thread,
         thread' = [thread EXCEPT ![t] = v],
         thread[t].pc # "wait", v.pc # "wait",
         v.pc = "send" => v.req \in RequestsOf(t),
         v.pc = "send" /\ t \in HttpThreads => version < AcceptVersion,
         v.atLeast =< version, v.got =< version,
         t \in HttpThreads /\ v.pc = "locked" => v.got >= v.atLeast,
         told' \in Nat, told' =< version
  PROVE  ServerInv'
<1>1. /\ thread' \in [Threads -> Thread] /\ thread'[t] = v
      /\ \A s \in Threads : s # t => thread'[s] = thread[s]
  BY ThreadChange DEF ServerInv
<1>2. Inv' /\ version' = version /\ Registered' = Registered
  BY QuietStore
<1>3. ServerTypeOK'
  BY <1>1 DEF ServerInv, ServerTypeOK
<1>4. HasRequest'
  BY <1>1 DEF ServerInv, HasRequest
<1>5. Waiting'
  <2>1. /\ \A i \in 1..Len(pipe) : HasResponse(pipe[i].req) =>
              pipe[i].from \in Threads /\ pipe[i].from # t
        /\ serving # NoThread => serving \in Threads /\ serving # t
    BY PipeFacts DEF ServerInv, ServerTypeOK, Waiting
  <2> QED BY <1>1, <2>1 DEF ServerInv, Waiting
<1>6. ToldPublished'
  BY <1>1, <1>2 DEF ServerInv, ToldPublished
<1>7. ListAsNewAsTold'
  BY <1>1 DEF ServerInv, ListAsNewAsTold, Threads
<1>8. Budget'
  <2> DEFINE S == Senders
             T == Senders'
  <2>1. S \in SUBSET HttpThreads /\ T \in SUBSET HttpThreads
    BY DEF Senders
  <2>2. (t \in HttpThreads /\ v.pc = "send") \/ T \subseteq S
    BY <1>1 DEF Senders, Threads
  <2> HIDE DEF S, T
  <2>3. Cardinality(T) =< Cardinality(HttpThreads) /\ Cardinality(T) \in Nat
    BY <2>1, HttpCount
  <2>4. CASE t \in HttpThreads /\ v.pc = "send"
    BY <1>2, <2>3, <2>4, BudgetTypes, AcceptAssumption, PipeAssumption, SMTT(20)
       DEF Budget, T
  <2>5. CASE T \subseteq S
    <3>1. Cardinality(T) =< Cardinality(S)
      BY <2>1, <2>5, SmallerCount
    <3>2. Budget
      BY DEF ServerInv
    <3> DEFINE n == version + Cardinality(Registered)
               k == Cardinality(Pending(pipe))
               m == AcceptVersion + Cardinality(Users)
                      + 2 * (Cardinality(HttpThreads) + PipeSize)
    <3>3. n \in Nat /\ k \in Nat /\ m \in Nat /\ Cardinality(S) \in Nat
      BY BudgetTypes, AcceptAssumption, PipeAssumption, SMTT(20) DEF S
    <3>4. n + 2 * (Cardinality(S) + k) =< m
      BY <3>2 DEF Budget, S
    <3>5. Budget' <=> n + 2 * (Cardinality(T) + k) =< m
      BY <1>2 DEF Budget, T
    <3> HIDE DEF n, k, m
    <3> QED BY <2>3, <3>1, <3>3, <3>4, <3>5
  <2> QED BY <2>2, <2>4, <2>5
<1> QED BY <1>2, <1>3, <1>4, <1>5, <1>6, <1>7, <1>8 DEF ServerInv

(* A request, a datagram or a tick arrives.                                *)
LEMMA ReceiveKeepsInv ==
  ASSUME ServerInv, NEW t \in Threads, Receive(t)
  PROVE  ServerInv'
<1>1. PICK r \in RequestsOf(t), a \in {0, told} :
         thread' = [thread EXCEPT ![t] = [pc |-> "send", req |-> r, got |-> 0,
                                          atLeast |-> a]]
  <2>1. CASE t \in HttpThreads
    BY <2>1, ThreadAssumption DEF Receive, RequestsOf
  <2>2. CASE t = UdpThread
    BY <2>2, ThreadAssumption DEF Receive, RequestsOf
  <2>3. CASE t = TickerThread
    BY <2>3, ThreadAssumption DEF Receive, RequestsOf
  <2> QED BY <2>1, <2>2, <2>3 DEF Threads
<1> DEFINE v == [pc |-> "send", req |-> r, got |-> 0, atLeast |-> a]
<1>2. thread' = [thread EXCEPT ![t] = v]
  BY <1>1
<1>3. r \in Requests
  BY DEF Requests, RequestsOf, HttpRequests
<1>4. /\ told \in Nat /\ told =< version /\ version \in Nat
  BY ThreadFacts
<1>5. v \in Thread /\ v.pc = "send" /\ v.req = r /\ v.got = 0 /\ v.atLeast = a
  BY <1>3, <1>4 DEF Thread
<1>6. /\ UNCHANGED <<vars, pipe, serving, told>> /\ thread[t].pc = "ready"
      /\ t \in HttpThreads => version < AcceptVersion
  BY ThreadAssumption DEF Receive
<1> HIDE DEF v
<1>7. /\ thread[t].pc # "wait" /\ v.pc # "wait" /\ v.pc # "locked"
      /\ v.req \in RequestsOf(t)
      /\ v.atLeast =< version /\ v.got =< version
      /\ told' \in Nat /\ told' =< version
  BY <1>4, <1>5, <1>6
<1> QED BY <1>2, <1>5, <1>6, <1>7, MoveKeepsInv

(* A goroutine whose command is on its way reads the list or the version.  *)
LEMMA ReadKeepsInv ==
  ASSUME ServerInv, NEW t \in Threads,
         RLockSnapShot(t) \/ (ReadVersion /\ t = UdpThread)
  PROVE  ServerInv'
<1> DEFINE v == [thread[t] EXCEPT !.pc = IF RLockSnapShot(t) THEN "locked" ELSE "reply",
                                  !.got = snapShot.Version]
<1>1. /\ thread' = [thread EXCEPT ![t] = v]
      /\ thread[t].pc = "read"
      /\ UNCHANGED <<vars, pipe, serving, told>>
  BY DEF RLockSnapShot, ReadVersion
<1>2. /\ v \in Thread /\ v.got = version
      /\ v.atLeast = thread[t].atLeast /\ v.pc \in {"locked", "reply"}
  BY ThreadFacts DEF Thread
<1> HIDE DEF v
<1>3. /\ v.pc # "wait" /\ v.pc # "send"
      /\ v.atLeast =< version /\ v.got =< version /\ v.got >= v.atLeast
      /\ told' \in Nat /\ told' =< version
  BY <1>1, <1>2, ThreadFacts
<1> QED BY <1>1, <1>2, <1>3, MoveKeepsInv

(* A goroutine is done with its request.                                   *)
LEMMA DoneKeepsInv ==
  ASSUME ServerInv, NEW t \in Threads,
         RUnlockSnapShot(t) \/ (WriteVersion /\ t = UdpThread)
  PROVE  ServerInv'
<1>1. /\ thread' = [thread EXCEPT ![t] = Idle]
      /\ thread[t].pc \in {"locked", "reply"}
      /\ UNCHANGED <<vars, pipe, serving>>
  BY DEF RUnlockSnapShot, WriteVersion
<1>2. Idle \in Thread /\ Idle.pc = "ready" /\ Idle.got = 0 /\ Idle.atLeast = 0
  BY DEF Idle, Thread
<1>3. told' \in Nat /\ told' =< version
  BY ThreadFacts DEF RUnlockSnapShot, WriteVersion, Thread
<1>4. Idle.got =< version /\ Idle.atLeast =< version
  BY <1>2, ThreadFacts
<1>5. thread[t].pc # "wait" /\ Idle.pc # "wait" /\ Idle.pc # "send"
      /\ Idle.pc # "locked"
  BY <1>1, <1>2
<1> HIDE DEF Idle
<1> QED BY <1>1, <1>2, <1>3, <1>4, <1>5, MoveKeepsInv

(* A command goes into the pipe; its goroutine waits from then on exactly  *)
(* if it is answered.                                                      *)
LEMMA SendKeepsInv ==
  ASSUME ServerInv, NEW t \in Threads, Send(t)
  PROVE  ServerInv'
<1> DEFINE v == AfterSend(t)
           e == [from |-> t, req |-> thread[t].req]
<1>1. /\ thread' = [thread EXCEPT ![t] = v]
      /\ thread[t].pc = "send" /\ Len(pipe) < PipeSize /\ pipe' = Append(pipe, e)
      /\ UNCHANGED <<vars, serving, told>>
  BY DEF Send
<1>2. /\ v \in Thread /\ v.got =< version /\ v.atLeast =< version
      /\ v.pc \in {"wait", "read", "ready"}
      /\ v.pc = "wait" <=> HasResponse(thread[t].req)
  <2>1. Idle \in Thread /\ Idle.pc = "ready" /\ Idle.got = 0 /\ Idle.atLeast = 0
    BY DEF Idle, Thread
  <2> QED BY <2>1, ThreadFacts DEF Thread, AfterSend
<1>3. thread[t].req \in RequestsOf(t) /\ thread[t].req \in Requests
  BY <1>1, ThreadFacts DEF Requests, RequestsOf, HttpRequests
<1>4. e \in [from : Threads, req : Requests] /\ e.from = t /\ e.req = thread[t].req
  BY <1>3
<1> HIDE DEF v, e
<1>5. /\ thread' \in [Threads -> Thread] /\ thread'[t] = v
      /\ \A s \in Threads : s # t => thread'[s] = thread[s]
  BY <1>1, <1>2, ThreadChange DEF ServerInv
<1>6. Inv' /\ version' = version /\ Registered' = Registered
  BY <1>1, QuietStore
<1>7. /\ pipe' \in Seq([from : Threads, req : Requests]) /\ Len(pipe') = Len(pipe) + 1
      /\ \A i \in 1..Len(pipe) : pipe'[i] = pipe[i]
      /\ pipe'[Len(pipe) + 1] = e /\ Len(pipe) \in Nat
  <2> DEFINE E == [from : Threads, req : Requests]
  <2>1. pipe \in Seq(E) /\ e \in E
    BY <1>4, PipeFacts
  <2> HIDE DEF E
  <2>2. /\ pipe' \in Seq(E) /\ Len(pipe') = Len(pipe) + 1
        /\ \A i \in 1..Len(pipe) : pipe'[i] = pipe[i]
        /\ pipe'[Len(pipe) + 1] = e /\ Len(pipe) \in Nat
    BY <1>1, <2>1, AppendElements
  <2> QED BY <2>2 DEF E
<1>8. ServerTypeOK'
  <2>1. Len(pipe') =< PipeSize
    BY <1>1, <1>7, PipeAssumption
  <2> QED BY <1>1, <1>5, <1>7, <2>1 DEF ServerInv, ServerTypeOK
<1>9. HasRequest'
  BY <1>2, <1>5 DEF ServerInv, HasRequest
<1>10. Waiting'
  <2>1. \A i \in 1..Len(pipe) : HasResponse(pipe[i].req) =>
           /\ pipe[i].from \in Threads /\ pipe[i].from # t
           /\ pipe[i].from # serving /\ thread[pipe[i].from].pc = "wait"
    BY <1>1, PipeFacts DEF ServerInv, Waiting
  <2>2. serving # NoThread => /\ serving \in Threads /\ serving # t
                              /\ thread[serving].pc = "wait"
    BY <1>1 DEF ServerInv, ServerTypeOK, Waiting
  <2>3. \A i \in 1..Len(pipe') : i \in 1..Len(pipe) \/ i = Len(pipe) + 1
    BY <1>7
  <2>4. t # serving
    BY <2>2, ThreadAssumption
  <2>5. \A i, j \in 1..Len(pipe') :
           i # j /\ HasResponse(pipe'[i].req) /\ HasResponse(pipe'[j].req)
             => pipe'[i].from # pipe'[j].from
    BY <1>4, <1>7, <2>1, <2>3 DEF ServerInv, Waiting
  <2>6. \A i \in 1..Len(pipe') : HasResponse(pipe'[i].req) =>
           thread'[pipe'[i].from].pc = "wait" /\ pipe'[i].from # serving'
    BY <1>1, <1>2, <1>4, <1>5, <1>7, <2>1, <2>3, <2>4
  <2>7. serving' # NoThread => thread'[serving'].pc = "wait"
    BY <1>1, <1>5, <2>2
  <2>8. ASSUME NEW s \in Threads, thread'[s].pc = "wait"
        PROVE  \/ serving' = s
               \/ \E i \in 1..Len(pipe') :
                     pipe'[i].from = s /\ HasResponse(pipe'[i].req)
    <3>1. CASE s = t
      <4>1. Len(pipe) + 1 \in 1..Len(pipe')
        BY <1>7
      <4> QED BY <2>8, <3>1, <4>1, <1>2, <1>4, <1>5, <1>7
    <3>2. CASE s # t
      <4>1. \/ serving = s
            \/ \E i \in 1..Len(pipe) : pipe[i].from = s /\ HasResponse(pipe[i].req)
        BY <3>2, <2>8, <1>5 DEF ServerInv, Waiting
      <4>2. \A i \in 1..Len(pipe) : i \in 1..Len(pipe')
        BY <1>7
      <4> QED BY <4>1, <4>2, <1>1, <1>7
    <3> QED BY <3>1, <3>2
  <2> QED BY <2>5, <2>6, <2>7, <2>8 DEF Waiting
<1>11. ToldPublished'
  BY <1>1, <1>2, <1>5, <1>6 DEF ServerInv, ToldPublished
<1>12. ListAsNewAsTold'
  BY <1>2, <1>5 DEF ServerInv, ListAsNewAsTold, Threads
<1>13. Budget'
  <2>1. Senders' = Senders \ {t}
    BY <1>2, <1>5 DEF Senders, Threads
  <2>2. Cardinality(Senders \ {t}) = IF t \in HttpThreads THEN Cardinality(Senders) - 1
                                     ELSE Cardinality(Senders)
    <3>1. Cardinality(Senders \ {t}) = IF t \in Senders THEN Cardinality(Senders) - 1
                                       ELSE Cardinality(Senders)
      BY BudgetTypes, FS_RemoveElement
    <3>2. t \in Senders <=> t \in HttpThreads
      BY <1>1 DEF Senders
    <3> QED BY <3>1, <3>2
  <2>3. Cardinality(Pending(pipe')) = IF IsCommand(e.req)
                                      THEN Cardinality(Pending(pipe)) + 1
                                      ELSE Cardinality(Pending(pipe))
    <3> DEFINE E == [from : Threads, req : Requests]
    <3>1. pipe \in Seq(E) /\ e \in E
      BY <1>4, PipeFacts
    <3> HIDE DEF E
    <3>2. Cardinality(Pending(Append(pipe, e))) = IF IsCommand(e.req)
                                                  THEN Cardinality(Pending(pipe)) + 1
                                                  ELSE Cardinality(Pending(pipe))
      BY <3>1, AppendCount
    <3> QED BY <1>1, <3>2
  <2>4. IsCommand(e.req) => t \in HttpThreads
    <3>1. CASE t = UdpThread
      <4>1. e.req \in Heartbeats
        BY <1>3, <1>4, <3>1 DEF RequestsOf
      <4> QED BY <4>1 DEF IsCommand, Heartbeats
    <3>2. CASE t = TickerThread
      <4>1. e.req = Check
        BY <1>3, <1>4, <3>2, ThreadAssumption DEF RequestsOf
      <4> QED BY <4>1 DEF IsCommand, Check
    <3> QED BY <3>1, <3>2 DEF Threads
  <2> DEFINE k == Cardinality(Pending(pipe))
             c == Cardinality(Senders)
             n == version + Cardinality(Registered)
             m == AcceptVersion + Cardinality(Users)
                    + 2 * (Cardinality(HttpThreads) + PipeSize)
  <2>5. n \in Nat /\ k \in Nat /\ m \in Nat /\ c \in Nat
    BY BudgetTypes, AcceptAssumption, PipeAssumption
  <2>6. n + 2 * (c + k) =< m
    BY DEF ServerInv, Budget
  <2>7. Budget' <=> n + 2 * (Cardinality(Senders') + Cardinality(Pending(pipe'))) =< m
    BY <1>6 DEF Budget
  <2> HIDE DEF n, k, m, c
  <2>8. Cardinality(Senders') + Cardinality(Pending(pipe')) =< c + k
    BY <2>1, <2>2, <2>3, <2>4, <2>5 DEF c, k
  <2>9. Cardinality(Senders') \in Int /\ Cardinality(Pending(pipe')) \in Int
    BY <2>1, <2>2, <2>3, <2>5 DEF c, k
  <2> QED BY <2>5, <2>6, <2>7, <2>8, <2>9
<1> QED BY <1>6, <1>8, <1>9, <1>10, <1>11, <1>12, <1>13 DEF ServerInv

(* The goroutine that waits gets its answer.                               *)
LEMMA RespondKeepsInv ==
  ASSUME ServerInv, Respond
  PROVE  ServerInv'
<1> DEFINE t == serving
<1>1. /\ thread' = [thread EXCEPT ![t] = Idle]
      /\ t # NoThread /\ thread[t].pc = "wait" /\ serving' = NoThread
      /\ told' = version
      /\ UNCHANGED <<vars, pipe>>
  BY DEF Respond
<1>2. t \in Threads
  BY <1>1 DEF ServerInv, ServerTypeOK
<1>3. Idle \in Thread /\ Idle.pc = "ready" /\ Idle.got = 0 /\ Idle.atLeast = 0
  BY DEF Idle, Thread
<1>4. /\ thread' \in [Threads -> Thread] /\ thread'[t] = Idle
      /\ \A s \in Threads : s # t => thread'[s] = thread[s]
  BY <1>1, <1>2, <1>3, ThreadChange DEF ServerInv
<1>5. Inv' /\ version' = version /\ Registered' = Registered /\ version \in Nat
  BY <1>1, QuietStore, BudgetTypes
<1>6. ServerTypeOK'
  BY <1>1, <1>4, <1>5 DEF ServerInv, ServerTypeOK
<1>7. HasRequest'
  BY <1>3, <1>4 DEF ServerInv, HasRequest
<1>8. Waiting'
  <2>1. \A i \in 1..Len(pipe) : HasResponse(pipe[i].req) =>
           /\ pipe[i].from \in Threads /\ pipe[i].from # t
           /\ pipe[i].from # NoThread
           /\ thread[pipe[i].from].pc = "wait"
    BY PipeFacts, ThreadAssumption DEF ServerInv, Waiting
  <2> QED BY <1>1, <1>3, <1>4, <2>1 DEF ServerInv, Waiting
<1>9. ToldPublished'
  BY <1>1, <1>3, <1>4, <1>5 DEF ServerInv, ToldPublished
<1>10. ListAsNewAsTold'
  BY <1>3, <1>4 DEF ServerInv, ListAsNewAsTold, Threads
<1>11. Budget'
  <2>1. Senders' = Senders
    BY <1>1, <1>2, <1>3, <1>4 DEF Senders, Threads
  <2> QED BY <2>1, <1>1, <1>5 DEF ServerInv, Budget
<1> QED BY <1>5, <1>6, <1>7, <1>8, <1>9, <1>10, <1>11 DEF ServerInv
-----------------------------------------------------------------------------
(***************************************************************************)
(* The steps of the executor that change the store.                        *)
(***************************************************************************)
(* PublishUsers publishes once, or panics and changes nothing.             *)
LEMMA PublishUsersEffect ==
  ASSUME NEW stores, NEW ages, NEW r, PublishUsers(stores, ages, r)
  PROVE  \/ version' = version /\ Registered' = Registered
         \/ version' = version + 1 /\ Registered' = DOMAIN stores
<1>1. CASE groupData = NoGroup /\ Panic
  BY <1>1 DEF Panic, storeVars, Registered
<1>2. CASE ~(groupData = NoGroup /\ Panic)
  BY <1>2 DEF PublishUsers, makeSnapShot, Registered
<1> QED BY <1>1, <1>2

(* A command publishes at most once and adds at most one user.             *)
LEMMA CommandEffect ==
  ASSUME Inv, Command
  PROVE  /\ version' \in {version, version + 1}
         /\ \/ Registered' \subseteq Registered
            \/ \E u \in Users : Registered' = Registered \cup {u}
<1> DEFINE Effect == /\ version' \in {version, version + 1}
                     /\ \/ Registered' \subseteq Registered
                        \/ \E u \in Users : Registered' = Registered \cup {u}
<1>1. \A r : Refuse(r) => Effect
  BY DEF Refuse, storeVars, Registered
<1>2. Panic => Effect
  BY DEF Panic, storeVars, Registered
<1>3. makeSnapShot /\ UNCHANGED userStores => Effect
  BY DEF makeSnapShot, Registered
<1>4. ASSUME NEW stores, NEW ages, NEW r, PublishUsers(stores, ages, r),
             \/ DOMAIN stores \subseteq Registered
             \/ \E u \in Users : DOMAIN stores = Registered \cup {u}
      PROVE  Effect
  BY <1>4, PublishUsersEffect
<1>10. UNCHANGED <<version, userStores>> => Effect
  BY DEF Registered
<1> HIDE DEF Effect
<1>5. ASSUME NEW g \in Groups, NEW d \in Profiles,
             RegisterGroup(g, d) \/ UpdataGroup(g, d)
      PROVE  Effect
  BY <1>1, <1>2, <1>3, <1>5 DEF RegisterGroup, UpdataGroup
<1>6. ASSUME NEW g \in Groups, NEW old \in Passwords, NEW new \in Passwords,
             ChangeGroupPassword(g, old, new)
      PROVE  Effect
  BY <1>1, <1>2, <1>6, <1>10 DEF ChangeGroupPassword
<1>7. ASSUME NEW u \in Users, NEW d \in Profiles, RegisterUser(u, d)
      PROVE  Effect
  <2> DEFINE stores == [x \in Registered \cup {u} |->
                          IF x = u THEN d ELSE userStores[x]]
             ages   == [age EXCEPT ![u] = 0]
  <2>1. DOMAIN stores = Registered \cup {u}
    OBVIOUS
  <2>2. (\E r : Refuse(r)) \/ PublishUsers(stores, ages, "ok")
    BY <1>7 DEF RegisterUser
  <2> HIDE DEF stores, ages
  <2> QED BY <1>1, <1>4, <2>1, <2>2
<1>8. ASSUME NEW u \in Users, NEW d \in Profiles, UpdataUser(u, d)
      PROVE  Effect
  <2> DEFINE stores == [userStores EXCEPT ![u] = d]
             ages   == [age EXCEPT ![u] = 0]
  <2>1. DOMAIN stores = Registered
    BY DEF Registered
  <2>2. (\E r : Refuse(r)) \/ PublishUsers(stores, ages, "ok")
    BY <1>8 DEF UpdataUser
  <2> HIDE DEF stores, ages
  <2> QED BY <1>1, <1>4, <2>1, <2>2
<1>9. ASSUME NEW u \in Users, DeleteUser(u)
      PROVE  Effect
  <2> DEFINE stores == [x \in Registered \ {u} |-> userStores[x]]
             ages   == [x \in Users |-> IF x \in {u} THEN 0 ELSE age[x]]
  <2>1. DOMAIN stores = Registered \ {u}
    OBVIOUS
  <2>2. (\E r : Refuse(r)) \/ PublishUsers(stores, ages, "none")
    BY <1>9 DEF DeleteUser, RemoveUsers
  <2> HIDE DEF stores, ages
  <2> QED BY <1>1, <1>4, <2>1, <2>2
<1> QED BY <1>5, <1>6, <1>7, <1>8, <1>9 DEF Command, Effect

(* A check that publishes removed somebody.                                *)
LEMMA CheckEffect ==
  ASSUME Inv, CheckTimeout
  PROVE  \/ version' = version /\ Registered' = Registered
         \/ /\ version' = version + 1
            /\ \E u \in Registered : Registered' \subseteq Registered \ {u}
<1>1. CASE TimedOut = {}
  BY <1>1 DEF CheckTimeout, Refuse, storeVars, Registered
<1>2. CASE TimedOut # {}
  <2> DEFINE stores == [u \in Registered \ TimedOut |-> userStores[u]]
             ages   == [u \in Users |-> IF u \in TimedOut THEN 0 ELSE age[u]]
  <2>1. PublishUsers(stores, ages, "none")
    BY <1>2 DEF CheckTimeout, RemoveUsers
  <2>2. DOMAIN stores = Registered \ TimedOut
    OBVIOUS
  <2> HIDE DEF stores, ages
  <2>3. PICK u \in TimedOut : TRUE
    BY <1>2
  <2>4. u \in Registered
    BY DEF TimedOut
  <2>5. Registered \ TimedOut \subseteq Registered \ {u}
    OBVIOUS
  <2> QED BY <2>1, <2>2, <2>4, <2>5, PublishUsersEffect
<1> QED BY <1>1, <1>2

(* What a request makes the executor do.                                   *)
LEMMA ExecuteRequest ==
  ASSUME NEW r \in Requests, Execute(r)
  PROVE  \/ IsCommand(r) /\ Command
         \/ ~IsCommand(r) /\ \E u \in Users : UserHeartbeat(u)
         \/ ~IsCommand(r) /\ CheckTimeout
<1>0. \/ r \in RegisterRequests \/ r \in UpdateRequests \/ r \in PasswordRequests
      \/ r \in RemovalRequests \/ r \in Heartbeats \/ r = Check
  BY DEF Requests, HttpRequests
<1> USE DEF RegisterRequests, UpdateRequests, PasswordRequests, RemovalRequests,
            Heartbeats, Check, IsCommand
<1>1. CASE r.action = "group_register" /\ RegisterGroup(r.group, r.data)
  <2>1. r.group \in Groups /\ r.data \in Profiles
    BY <1>0, <1>1
  <2> QED BY <1>1, <2>1 DEF Command
<1>2. CASE r.action = "group_update" /\ UpdataGroup(r.group, r.data)
  <2>1. r.group \in Groups /\ r.data \in Profiles
    BY <1>0, <1>2
  <2> QED BY <1>2, <2>1 DEF Command
<1>3. CASE /\ r.action = "group_change_password"
           /\ ChangeGroupPassword(r.group, r.old, r.new)
  <2>1. r.group \in Groups /\ r.old \in Passwords /\ r.new \in Passwords
    BY <1>0, <1>3
  <2> QED BY <1>3, <2>1 DEF Command
<1>4. CASE r.action = "user_register" /\ RegisterUser(r.user, r.data)
  <2>1. r.user \in Users /\ r.data \in Profiles
    BY <1>0, <1>4
  <2> QED BY <1>4, <2>1 DEF Command
<1>5. CASE r.action = "user_update" /\ UpdataUser(r.user, r.data)
  <2>1. r.user \in Users /\ r.data \in Profiles
    BY <1>0, <1>5
  <2> QED BY <1>5, <2>1 DEF Command
<1>6. CASE r.action = "user_delete" /\ DeleteUser(r.user)
  <2>1. r.user \in Users
    BY <1>0, <1>6
  <2> QED BY <1>6, <2>1 DEF Command
<1>7. CASE r.action = "user_heartbeat" /\ UserHeartbeat(r.user)
  <2>1. r.user \in Users
    BY <1>0, <1>7
  <2> QED BY <1>7, <2>1
<1>8. CASE r.action = "check_heartbeat" /\ CheckTimeout
  BY <1>8
<1> QED BY <1>1, <1>2, <1>3, <1>4, <1>5, <1>6, <1>7, <1>8 DEF Execute

(* The executor executes the first command of the pipe.                    *)
LEMMA ExecuteCommandKeepsInv ==
  ASSUME ServerInv, ExecuteCommand
  PROVE  [Next]_vars /\ ServerInv'
<1> DEFINE r == Head(pipe).req
           f == Head(pipe).from
           E == [from : Threads, req : Requests]
<1>1. /\ serving = NoThread /\ pipe # <<>> /\ ~dead
      /\ Execute(r) /\ pipe' = Tail(pipe)
      /\ serving' = IF HasResponse(r) THEN f ELSE NoThread
      /\ UNCHANGED <<thread, told>>
  BY DEF ExecuteCommand
<1>2. /\ pipe' \in Seq(E) /\ Len(pipe') = Len(pipe) - 1
      /\ \A i \in 1..(Len(pipe) - 1) : pipe'[i] = pipe[i + 1]
      /\ Head(pipe) = pipe[1] /\ 1 \in 1..Len(pipe) /\ Len(pipe) \in Nat
  <2>1. pipe \in Seq(E)
    BY PipeFacts
  <2> HIDE DEF E
  <2> QED BY <1>1, <2>1, TailElements
<1>3. r \in Requests /\ f \in Threads /\ f # NoThread
  BY <1>2, PipeFacts, ThreadAssumption
<1>4. /\ Cardinality(Pending(pipe')) \in Nat
      /\ Cardinality(Pending(pipe')) =< IF IsCommand(r)
                                        THEN Cardinality(Pending(pipe)) - 1
                                        ELSE Cardinality(Pending(pipe))
  <2>1. pipe \in Seq(E)
    BY PipeFacts
  <2> HIDE DEF E
  <2> QED BY <1>1, <2>1, TailCount
<1> DEFINE k == Cardinality(Pending(pipe))
           c == Cardinality(Senders)
           n == Cardinality(Registered)
           H == Cardinality(HttpThreads)
           U == Cardinality(Users)
<1>5. /\ version \in Nat /\ n \in Nat /\ k \in Nat /\ c \in Nat
      /\ H \in Nat /\ U \in Nat /\ PipeSize \in Nat
      /\ AcceptVersion \in Nat /\ MaxVersion \in Nat
      /\ version + n + 2 * (c + k) =< AcceptVersion + U + 2 * (H + PipeSize)
      /\ AcceptVersion + U + 2 * (H + PipeSize) + 1 =< MaxVersion
  BY BudgetTypes, AcceptAssumption, PipeAssumption, VersionAssumption
     DEF ServerInv, Budget
<1>6. Inv
  BY DEF ServerInv
<1> HIDE DEF r, f, E
<1>7. /\ [Next]_vars
      /\ version' \in {version, version + 1}
      /\ Registered' \in SUBSET Users
      /\ version' + Cardinality(Registered') + 2 * (c + Cardinality(Pending(pipe')))
           =< version + n + 2 * (c + k)
  <2>1. CASE IsCommand(r) /\ Command
    <3>1. /\ version' \in {version, version + 1}
          /\ \/ Registered' \subseteq Registered
             \/ \E u \in Users : Registered' = Registered \cup {u}
      BY <1>6, <2>1, CommandEffect
    <3>2. k >= 1
      BY <1>4, <1>5, <2>1
    <3>3. version < MaxVersion
      <4> HIDE DEF k, c, n, H, U
      <4> QED BY <1>5, <3>2
    <3>4. Next
      BY <1>1, <2>1, <3>3 DEF Next
    <3>5. Registered' \in SUBSET Users
      BY <3>1, BudgetTypes
    <3>6. Cardinality(Registered') =< n + 1 /\ Cardinality(Registered') \in Nat
      <4>1. CASE Registered' \subseteq Registered
        <5>1. Registered' \in SUBSET Registered
          BY <4>1
        <5>2. /\ IsFiniteSet(Registered')
              /\ Cardinality(Registered') =< Cardinality(Registered)
          BY <5>1, BudgetTypes, FS_Subset
        <5>3. Cardinality(Registered') \in Nat
          BY <5>2, FS_CardinalityType
        <5> QED BY <5>2, <5>3, <1>5
      <4>2. CASE \E u \in Users : Registered' = Registered \cup {u}
        <5>1. PICK u \in Users : Registered' = Registered \cup {u}
          BY <4>2
        <5>2. Cardinality(Registered') = IF u \in Registered THEN n ELSE n + 1
          BY <5>1, BudgetTypes, FS_AddElement
        <5> HIDE DEF n
        <5> QED BY <5>2, <1>5
      <4> QED BY <4>1, <4>2, <3>1
    <3> HIDE DEF k, c, n
    <3>7. version' + Cardinality(Registered') + 2 * (c + Cardinality(Pending(pipe')))
            =< version + n + 2 * (c + k)
      BY <1>4, <1>5, <2>1, <3>1, <3>6 DEF k
    <3> QED BY <3>1, <3>4, <3>5, <3>7
  <2>2. CASE \E u \in Users : UserHeartbeat(u)
    <3>1. Next
      BY <1>1, <2>2 DEF Next
    <3>2. version' = version /\ Registered' = Registered
      BY <2>2 DEF UserHeartbeat, Registered
    <3>3. Cardinality(Pending(pipe')) =< k
      BY <1>4, <1>5
    <3>4. Registered' \in SUBSET Users
      BY <3>2, BudgetTypes
    <3> QED BY <1>4, <1>5, <3>1, <3>2, <3>3, <3>4
  <2>3. CASE ~IsCommand(r) /\ CheckTimeout
    <3>1. Next
      BY <1>1, <2>3 DEF Next
    <3>2. Cardinality(Pending(pipe')) =< k
      BY <1>4, <2>3
    <3>3. CASE version' = version /\ Registered' = Registered
      <4>1. Registered' \in SUBSET Users
        BY <3>3, BudgetTypes
      <4> QED BY <1>4, <1>5, <3>1, <3>2, <3>3, <4>1
    <3>4. CASE /\ version' = version + 1
               /\ \E u \in Registered : Registered' \subseteq Registered \ {u}
      <4>1. PICK u \in Registered : Registered' \subseteq Registered \ {u}
        BY <3>4
      <4>2. IsFiniteSet(Registered \ {u}) /\ Cardinality(Registered \ {u}) = n - 1
        BY BudgetTypes, FS_RemoveElement
      <4>3. Registered' \in SUBSET (Registered \ {u})
        BY <4>1
      <4>4. Cardinality(Registered') =< n - 1 /\ IsFiniteSet(Registered')
        BY <4>2, <4>3, FS_Subset
      <4>5. Cardinality(Registered') \in Nat
        BY <4>4, FS_CardinalityType
      <4>6. Registered' \in SUBSET Users
        BY <4>3, BudgetTypes
      <4> HIDE DEF n, c, k
      <4>7. version' + Cardinality(Registered')
              + 2 * (c + Cardinality(Pending(pipe'))) =< version + n + 2 * (c + k)
        BY <1>4, <1>5, <3>2, <3>4, <4>4, <4>5
      <4> QED BY <3>1, <3>4, <4>6, <4>7
    <3> QED BY <1>6, <2>3, <3>3, <3>4, CheckEffect
  <2> QED BY <1>1, <1>3, <2>1, <2>2, <2>3, ExecuteRequest
<1>8. Inv'
  BY <1>6, <1>7, NextKeepsInv
<1>9. ServerTypeOK'
  BY <1>1, <1>2, <1>3, PipeAssumption DEF ServerInv, ServerTypeOK, E
<1>10. HasRequest' /\ ListAsNewAsTold'
  BY <1>1 DEF ServerInv, HasRequest, ListAsNewAsTold
<1>11. Waiting'
  <2>1. \A i \in 1..Len(pipe') : i + 1 \in 1..Len(pipe) /\ pipe'[i] = pipe[i + 1]
                                 /\ i + 1 # 1
    BY <1>2
  <2>2. \A i, j \in 1..Len(pipe') : i # j => i + 1 # j + 1
    OBVIOUS
  <2>3. \A i, j \in 1..Len(pipe') :
           i # j /\ HasResponse(pipe'[i].req) /\ HasResponse(pipe'[j].req)
             => pipe'[i].from # pipe'[j].from
    BY <2>1, <2>2 DEF ServerInv, Waiting
  <2>4. HasResponse(r) => thread[f].pc = "wait"
    BY <1>2 DEF ServerInv, Waiting, r, f
  <2>5. ASSUME NEW i \in 1..Len(pipe'), HasResponse(pipe'[i].req)
        PROVE  thread'[pipe'[i].from].pc = "wait" /\ pipe'[i].from # serving'
    <3>1. thread[pipe'[i].from].pc = "wait" /\ pipe'[i].from # NoThread
      BY <1>1, <2>1, <2>5 DEF ServerInv, Waiting
    <3>2. HasResponse(r) => pipe'[i].from # f
      BY <1>2, <2>1, <2>5 DEF ServerInv, Waiting, r, f
    <3> QED BY <1>1, <3>1, <3>2
  <2>6. serving' # NoThread => thread'[serving'].pc = "wait"
    BY <1>1, <2>4
  <2>7. ASSUME NEW s \in Threads, thread'[s].pc = "wait"
        PROVE  \/ serving' = s
               \/ \E i \in 1..Len(pipe') :
                     pipe'[i].from = s /\ HasResponse(pipe'[i].req)
    <3>1. PICK i \in 1..Len(pipe) : pipe[i].from = s /\ HasResponse(pipe[i].req)
      BY <1>1, <2>7, ThreadAssumption DEF ServerInv, Waiting
    <3>2. CASE i = 1
      BY <3>1, <3>2, <1>1, <1>2 DEF r, f
    <3>3. CASE i # 1
      <4>1. i - 1 \in 1..Len(pipe') /\ pipe'[i - 1] = pipe[i]
        BY <3>3, <1>2
      <4> QED BY <3>1, <4>1
    <3> QED BY <3>2, <3>3
  <2> QED BY <2>3, <2>5, <2>6, <2>7 DEF Waiting
<1>12. ToldPublished'
  <2>1. /\ told \in Nat
        /\ \A t \in Threads : thread[t].atLeast \in Nat /\ thread[t].got \in Nat
    BY DEF ServerInv, ServerTypeOK, Thread
  <2>2. version \in Nat /\ version' >= version /\ version' \in Nat
    BY <1>5, <1>7
  <2> QED BY <1>1, <2>1, <2>2 DEF ServerInv, ToldPublished
<1>13. Budget'
  <2>1. Senders' = Senders
    BY <1>1 DEF Senders
  <2>2. Cardinality(Registered') \in Nat
    BY <1>7, UserCount
  <2>3. Budget' <=> version' + Cardinality(Registered')
                      + 2 * (c + Cardinality(Pending(pipe')))
                      =< AcceptVersion + U + 2 * (H + PipeSize)
    BY <2>1 DEF Budget
  <2>4. version' \in Nat
    BY <1>5, <1>7
  <2> HIDE DEF k, c, n, H, U
  <2> QED BY <1>4, <1>5, <1>7, <2>2, <2>3, <2>4
<1> QED BY <1>7, <1>8, <1>9, <1>10, <1>11, <1>12, <1>13 DEF ServerInv

(* Time passes, and the goroutines stay where they are.                    *)
LEMMA ClockTickKeepsInv ==
  ASSUME ServerInv, ClockTick
  PROVE  [Next]_vars /\ ServerInv'
<1>1. [Next]_vars /\ UNCHANGED <<pipe, thread, serving, told>>
  BY DEF ClockTick, Next
<1>2. UNCHANGED <<version, Registered>>
  BY DEF ClockTick, Tick, vars, Registered
<1>3. Inv'
  BY <1>1, NextKeepsInv DEF ServerInv
<1>4. ServerTypeOK' /\ HasRequest' /\ Waiting' /\ ToldPublished' /\ ListAsNewAsTold'
  BY <1>1, <1>2 DEF ServerInv, ServerTypeOK, HasRequest, Waiting, ToldPublished,
                    ListAsNewAsTold
<1>5. Budget'
  BY <1>1, <1>2 DEF ServerInv, Budget, Senders
<1> QED BY <1>1, <1>3, <1>4, <1>5 DEF ServerInv
-----------------------------------------------------------------------------
(***************************************************************************)
(* All steps together.                                                     *)
(***************************************************************************)
(* Every step of the server is a step of the store or leaves it alone, and *)
(* keeps the invariant.                                                    *)
LEMMA ServerNextKeepsInv ==
  ASSUME ServerInv, [ServerNext]_allVars
  PROVE  [Next]_vars /\ ServerInv'
<1>1. ASSUME NEW t \in Threads, Receive(t) \/ Server(t)
      PROVE  [Next]_vars /\ ServerInv'
  <2>1. UNCHANGED vars
    BY <1>1 DEF Receive, Server, Send, RLockSnapShot, RUnlockSnapShot
  <2> QED BY <1>1, <2>1, ReceiveKeepsInv, SendKeepsInv, ReadKeepsInv, DoneKeepsInv
          DEF Server
<1>2. ASSUME ReadVersion \/ WriteVersion
      PROVE  [Next]_vars /\ ServerInv'
  <2>1. UNCHANGED vars /\ UdpThread \in Threads
    BY <1>2 DEF ReadVersion, WriteVersion, Threads
  <2> QED BY <1>2, <2>1, ReadKeepsInv, DoneKeepsInv
<1>3. ASSUME Respond
      PROVE  [Next]_vars /\ ServerInv'
  <2>1. UNCHANGED vars
    BY <1>3 DEF Respond
  <2> QED BY <1>3, <2>1, RespondKeepsInv
<1>4. ASSUME ExecuteCommand \/ ClockTick
      PROVE  [Next]_vars /\ ServerInv'
  BY <1>4, ExecuteCommandKeepsInv, ClockTickKeepsInv
<1>5. CASE UNCHANGED allVars
  <2>1. UNCHANGED vars /\ UNCHANGED <<pipe, thread, serving, told>>
    BY <1>5 DEF allVars, serverVars
  <2>2. Inv' /\ UNCHANGED <<version, Registered>>
    BY <2>1, QuietStore
  <2>3. ServerTypeOK' /\ HasRequest' /\ Waiting' /\ ToldPublished'
        /\ ListAsNewAsTold' /\ Budget'
    BY <2>1, <2>2 DEF ServerInv, ServerTypeOK, HasRequest, Waiting, ToldPublished,
                      ListAsNewAsTold, Budget, Senders
  <2> QED BY <2>1, <2>2, <2>3 DEF ServerInv
<1> QED BY <1>1, <1>2, <1>3, <1>4, <1>5 DEF ServerNext

(* The invariant holds in every state of the server.                       *)
LEMMA ServerInvHolds == ServerSpec => []ServerInv
<1>1. ServerInv /\ [ServerNext]_allVars => ServerInv'
  BY ServerNextKeepsInv
<1> QED BY <1>1, ServerInitInv, PTL DEF ServerSpec

(* The goroutines of a local mesh server change its store only as the      *)
(* commands do one after the other, whatever they interleave: all that is  *)
(* proved of UserList holds for the server.                                *)
THEOREM ServerImplementsStore == ServerSpec => ImplementsUserList
<1>1. ServerInit => Init
  BY DEF ServerInit
<1>2. ServerInv /\ [ServerNext]_allVars => [Next]_vars
  BY ServerNextKeepsInv
<1> QED BY <1>1, <1>2, ServerInvHolds, PTL DEF ServerSpec, Spec, ImplementsUserList

(* Exactly the goroutines that wait have one command on its way that is    *)
(* answered: no answer is left that nobody takes, and nobody waits for an  *)
(* answer to a command that has none.                                      *)
THEOREM AnswersAlwaysMatch == ServerSpec => []AnswersMatch
<1>1. ASSUME ServerInv PROVE AnswersMatch
  <2> SUFFICES ASSUME NEW t \in Threads
               PROVE  Cardinality({i \in DOMAIN pipe :
                                     pipe[i].from = t /\ HasResponse(pipe[i].req)})
                        + (IF serving = t THEN 1 ELSE 0)
                      = IF thread[t].pc = "wait" THEN 1 ELSE 0
    BY DEF AnswersMatch
  <2> DEFINE Answered(i) == pipe[i].from = t /\ HasResponse(pipe[i].req)
             at == {i \in DOMAIN pipe : Answered(i)}
  <2>1. DOMAIN pipe = 1..Len(pipe) /\ Waiting
    <3>1. pipe \in Seq([from : Threads, req : Requests])
      BY <1>1, PipeFacts
    <3> QED BY <1>1, <3>1 DEF ServerInv
  <2>2. t # NoThread
    BY ThreadAssumption
  <2>3. CASE \E i \in 1..Len(pipe) : Answered(i)
    <3>1. PICK k \in 1..Len(pipe) : Answered(k)
      BY <2>3
    <3>2. at = {k}
      BY <3>1, <2>1 DEF Waiting
    <3>3. Cardinality(at) = 1
      BY <3>2, FS_Singleton
    <3>4. serving # t /\ thread[t].pc = "wait"
      BY <3>1, <2>1 DEF Waiting
    <3> QED BY <3>3, <3>4
  <2>4. CASE ~\E i \in 1..Len(pipe) : Answered(i)
    <3>1. at = {}
      BY <2>1, <2>4
    <3>2. Cardinality(at) = 0
      BY <3>1, FS_EmptySet
    <3>3. serving = t <=> thread[t].pc = "wait"
      BY <2>1, <2>2, <2>4 DEF Waiting
    <3> QED BY <3>2, <3>3
  <2> QED BY <2>3, <2>4
<1> QED BY <1>1, ServerInvHolds, PTL

(* A client that was told of a version, or whose command was answered,     *)
(* gets a list at least as new, although its heartbeat is not waited for.  *)
THEOREM ListNeverBehind == ServerSpec => []ListAsNewAsTold
<1>1. ServerInv => ListAsNewAsTold
  BY DEF ServerInv
<1> QED BY <1>1, ServerInvHolds, PTL

(* Once the first client registered the group, no interleaving of the      *)
(* goroutines makes the executor dereference nil.                          *)
THEOREM ServerPanicsOnlyWithoutGroup == ServerSpec => []PanicsOnlyWithoutGroup
<1>1. ServerInv => PanicsOnlyWithoutGroup
  BY DEF ServerInv, Inv
<1> QED BY <1>1, ServerInvHolds, PTL

(* What clients rely on when they compare versions only: whatever the      *)
(* goroutines interleave, a list never changes under its version.          *)
THEOREM ServerPublishesVersions == ServerSpec => ImplementsVersionedList
BY ServerImplementsStore, StoreImplementsVersionedList, PTL DEF ImplementsUserList

(* Whatever the goroutines interleave, the first group keeps its place.    *)
THEOREM ServerKeepsGroup == ServerSpec => GroupStays
BY ServerImplementsStore, StoreGroupStays, PTL DEF ImplementsUserList

(* Which request makes a user leave.                                       *)
LEMMA RequestTakesAway ==
  ASSUME NEW r \in Requests, Execute(r), NEW u \in Registered, u \notin Registered'
  PROVE  age[u] > UserTimeout \/ r = [action |-> "user_delete", user |-> u]
<1>1. \/ r \in RegisterRequests \/ r \in UpdateRequests \/ r \in PasswordRequests
      \/ r \in RemovalRequests \/ r \in Heartbeats \/ r = Check
  BY DEF Requests, HttpRequests
<1> USE DEF RegisterRequests, UpdateRequests, PasswordRequests, RemovalRequests,
            Heartbeats, Check
<1>2. CASE r.action = "group_register" /\ RegisterGroup(r.group, r.data)
  <2>1. r.group \in Groups /\ r.data \in Profiles
    BY <1>1, <1>2
  <2> QED BY <1>2, <2>1, OthersTakeNobodyAway
<1>3. CASE r.action = "group_update" /\ UpdataGroup(r.group, r.data)
  <2>1. r.group \in Groups /\ r.data \in Profiles
    BY <1>1, <1>3
  <2> QED BY <1>3, <2>1, OthersTakeNobodyAway
<1>4. CASE /\ r.action = "group_change_password"
           /\ ChangeGroupPassword(r.group, r.old, r.new)
  <2>1. r.group \in Groups /\ r.old \in Passwords /\ r.new \in Passwords
    BY <1>1, <1>4
  <2> QED BY <1>4, <2>1, OthersTakeNobodyAway
<1>5. CASE \/ r.action = "user_register" /\ RegisterUser(r.user, r.data)
           \/ r.action = "user_update" /\ UpdataUser(r.user, r.data)
  <2>1. r.user \in Users /\ r.data \in Profiles
    BY <1>1, <1>5
  <2> QED BY <1>5, <2>1, OthersTakeNobodyAway
<1>6. CASE r.action = "user_heartbeat" /\ UserHeartbeat(r.user)
  <2>1. r.user \in Users
    BY <1>1, <1>6
  <2> QED BY <1>6, <2>1, OthersTakeNobodyAway
<1>7. CASE r.action = "user_delete" /\ DeleteUser(r.user)
  <2>1. RemoveUsers({r.user})
    BY <1>7 DEF DeleteUser, Refuse, storeVars, Registered
  <2>2. r.user = u
    BY <2>1, RemovalLeavesOthers
  <2>3. r = [action |-> "user_delete", user |-> r.user]
    BY <1>1, <1>7
  <2> QED BY <2>2, <2>3
<1>8. CASE r.action = "check_heartbeat" /\ CheckTimeout
  <2>1. RemoveUsers(TimedOut)
    BY <1>8 DEF CheckTimeout, Refuse, storeVars, Registered
  <2>2. u \in TimedOut
    BY <2>1, RemovalLeavesOthers
  <2> QED BY <2>2 DEF TimedOut
<1> QED BY <1>2, <1>3, <1>4, <1>5, <1>6, <1>7, <1>8 DEF Execute

(* However long checks and removals wait in the pipe, and whoever beats    *)
(* meanwhile: a check takes users away that are silent when it is          *)
(* executed, and a removal the user that asked for it.                     *)
THEOREM ServerSweepsSilent == ServerSpec => OnlySilentUsersSwept
<1> DEFINE Fair(u) ==
      \/ age[u] > UserTimeout
      \/ pipe # <<>> /\ Head(pipe).req = [action |-> "user_delete", user |-> u]
<1>1. ASSUME ServerInv, [ServerNext]_allVars, NEW u \in Registered, u \notin Registered'
      PROVE  Fair(u)
  <2>1. userStores' # userStores
    BY <1>1 DEF Registered
  <2>2. CASE ExecuteCommand
    <3>1. pipe # <<>> /\ Execute(Head(pipe).req)
      BY <2>2 DEF ExecuteCommand
    <3>2. Head(pipe).req \in Requests
      <4> DEFINE E == [from : Threads, req : Requests]
      <4>1. pipe \in Seq(E) /\ pipe # <<>>
        BY <1>1, <3>1 DEF ServerInv, ServerTypeOK
      <4>2. Head(pipe) \in E
        <5> HIDE DEF E
        <5> QED BY <4>1, TailElements
      <4> QED BY <4>2
    <3> QED BY <1>1, <3>1, <3>2, RequestTakesAway
  <2>3. CASE ~ExecuteCommand
    <3>1. ASSUME NEW t \in Threads, Receive(t) \/ Server(t) PROVE UNCHANGED vars
      BY <3>1 DEF Receive, Server, Send, RLockSnapShot, RUnlockSnapShot
    <3>2. \/ UNCHANGED vars \/ Tick
      BY <1>1, <2>3, <3>1 DEF ServerNext, ReadVersion, WriteVersion, Respond,
         ClockTick, allVars
    <3> QED BY <2>1, <3>2 DEF vars, Tick
  <2> QED BY <2>2, <2>3
<1>2. ASSUME ServerInv, [ServerNext]_allVars
      PROVE  [\A u \in Registered \ Registered' : Fair(u)]_allVars
  BY <1>1, <1>2
<1> QED BY <1>2, ServerInvHolds, PTL DEF ServerSpec, OnlySilentUsersSwept
=============================================================================
