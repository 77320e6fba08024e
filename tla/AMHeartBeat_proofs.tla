-------------------------- MODULE AMHeartBeat_proofs --------------------------
(***************************************************************************)
(* Theorems about a heartbeat thread, for any number of threads that       *)
(* cancel it.                                                              *)
(***************************************************************************)
EXTENDS AMHeartBeat, TLAPS

Ended == pc \in {"last", "signal", "done"}

(* What was sent since the cancellation, by where the thread is.  A beat   *)
(* that is about to be sent is the first, since the loop is not entered    *)
(* again; the last data goes out on top of it.                             *)
LateByPlace ==
  /\ Ended => cancelled
  /\ ~cancelled => late = 0 /\ ~lastHeartBeatData
  /\ pc = "beat" => late = 0
  /\ pc \in {"loop", "receive", "last"} => late =< 1

Inv == TypeOK /\ LateByPlace /\ SignalMeansEnded /\ OneBeatAfterCancel

(* The local delegate counts the failures since the last answer.           *)
CountsInARow ==
  /\ heartbeatFailureCount = inARow
  /\ AsksEveryFiveFailures
-----------------------------------------------------------------------------
(* A thread that was just started satisfies the invariant.                 *)
LEMMA InitInv == Init => Inv
<1> SUFFICES ASSUME Init PROVE Inv
  OBVIOUS
<1>1. /\ caller \in [Callers -> {"idle", "locked", "cancelled", "waiting",
                                  "woken", "relocked", "returned"}]
      /\ wokenBy \in [Callers -> {"nobody", "signal"}]
  BY DEF Init
<1>2. cancelled \in BOOLEAN /\ lastHeartBeatData \in BOOLEAN
  BY DEF Init
<1>3. lost \in BOOLEAN /\ asked \in BOOLEAN
  BY DEF Init
<1>4. TypeOK
  BY <1>1, <1>2, <1>3 DEF Init, TypeOK
<1>5. LateByPlace /\ OneBeatAfterCancel
  BY DEF Init, LateByPlace, Ended, OneBeatAfterCancel
<1>6. SignalMeansEnded
  BY DEF Init, SignalMeansEnded
<1> QED BY <1>4, <1>5, <1>6 DEF Inv

(* The delegate's counters stay in their range.                            *)
LEMMA DelegateTypes ==
  ASSUME TypeOK, didSendData \/ didReceiveData \/ didFailWithError
  PROVE  /\ heartbeatFailureCount' \in 0..10
         /\ inARow' \in 0..10
         /\ asked' \in BOOLEAN
<1>1. ASSUME NEW n \in 0..10 PROVE Incremented(n) \in 0..10
  BY DEF Incremented
<1>2. heartbeatFailureCount \in 0..10 /\ inARow \in 0..10 /\ asked \in BOOLEAN
  BY DEF TypeOK
<1>3. CASE didSendData
  BY <1>2, <1>3 DEF didSendData
<1>4. CASE didReceiveData
  <2>1. heartbeatFailureCount' \in 0..10 /\ inARow' \in 0..10
    BY <1>4 DEF didReceiveData
  <2>2. asked' \in BOOLEAN
    BY <1>4, Zenon DEF didReceiveData
  <2> QED BY <2>1, <2>2
<1>5. CASE didFailWithError
  <2>1. heartbeatFailureCount' \in 0..10 /\ inARow' \in 0..10
    BY <1>1, <1>2, <1>5 DEF didFailWithError
  <2>2. asked' \in BOOLEAN
    BY <1>5, Zenon DEF didFailWithError
  <2> QED BY <2>1, <2>2
<1> QED BY <1>3, <1>4, <1>5

(* A beat, from the test of the loop to the answer or the failure.         *)
LEMMA BeatKeepsInv ==
  ASSUME Inv,
         TestCancelled \/ FailToSend \/ SendBeat \/ ReceiveAnswer \/ FailToReceive
  PROVE  Inv'
<1>1. CASE TestCancelled
  BY <1>1 DEF TestCancelled, cancelVars, delegateVars, Inv, TypeOK,
              LateByPlace, Ended, SignalMeansEnded, OneBeatAfterCancel
<1>2. CASE SendBeat
  <2>1. /\ heartbeatFailureCount' \in 0..10
        /\ inARow' \in 0..10
        /\ asked' \in BOOLEAN
    BY <1>2, DelegateTypes DEF SendBeat, Inv
  <2> QED
    BY <1>2, <2>1 DEF SendBeat, cancelVars, Inv, TypeOK, LateByPlace, Ended,
                      SignalMeansEnded, OneBeatAfterCancel
<1>3. CASE FailToSend \/ ReceiveAnswer \/ FailToReceive
  <2>1. /\ heartbeatFailureCount' \in 0..10
        /\ inARow' \in 0..10
        /\ asked' \in BOOLEAN
    BY <1>3, DelegateTypes DEF FailToSend, ReceiveAnswer, FailToReceive, Inv
  <2>2. /\ pc \in {"beat", "receive"} /\ pc' = "loop"
        /\ UNCHANGED <<late, cancelVars>>
    BY <1>3 DEF FailToSend, ReceiveAnswer, FailToReceive
  <2> QED
    BY <2>1, <2>2 DEF cancelVars, Inv, TypeOK, LateByPlace, Ended,
                      SignalMeansEnded, OneBeatAfterCancel
<1> QED BY <1>1, <1>2, <1>3

(* The end of the thread.                                                  *)
LEMMA EndKeepsInv ==
  ASSUME Inv, SendLast \/ Signal
  PROVE  Inv'
<1>1. CASE SendLast
  BY <1>1 DEF SendLast, cancelVars, delegateVars, Inv, TypeOK, LateByPlace,
              Ended, SignalMeansEnded, OneBeatAfterCancel
<1>2. CASE Signal
  <2>1. TypeOK'
    BY <1>2 DEF Signal, Waiting, delegateVars, Inv, TypeOK
  <2>2. LateByPlace' /\ OneBeatAfterCancel'
    BY <1>2 DEF Signal, Inv, LateByPlace, Ended, OneBeatAfterCancel
  <2>3. SignalMeansEnded'
    BY <1>2 DEF Signal, SignalMeansEnded
  <2> QED BY <2>1, <2>2, <2>3 DEF Inv
<1> QED BY <1>1, <1>2

(* A thread that cancels, or that wakes up on its own.                     *)
LEMMA CallerKeepsInv ==
  ASSUME Inv, NEW c \in Callers, cancelWithData(c) \/ WakeUp(c)
  PROVE  Inv'
<1>1. /\ UNCHANGED <<pc, late, delegateVars>>
      /\ \/ UNCHANGED <<cancelled, lastHeartBeatData>>
         \/ ~cancelled /\ cancelled' /\ lastHeartBeatData' \in BOOLEAN
  BY DEF cancelWithData, Lock, Cancel, Wait, Relock, Unlock, WakeUp, threadVars
<1>2. cancelled' \in BOOLEAN /\ lastHeartBeatData' \in BOOLEAN
  BY DEF cancelWithData, Lock, Cancel, Wait, Relock, Unlock, WakeUp, Inv, TypeOK
<1>3. /\ \/ UNCHANGED wokenBy
         \/ wokenBy' = [wokenBy EXCEPT ![c] = "nobody"]
      /\ \E p \in {"locked", "cancelled", "waiting", "woken", "relocked",
                   "returned"} : caller' = [caller EXCEPT ![c] = p]
      /\ UNCHANGED lost
      /\ owner' \in Callers \cup {NoCaller}
  BY DEF cancelWithData, Lock, Cancel, Wait, Relock, Unlock, WakeUp, Inv, TypeOK
<1>4. TypeOK'
  BY <1>1, <1>2, <1>3 DEF delegateVars, Inv, TypeOK
<1>5. LateByPlace' /\ OneBeatAfterCancel'
  BY <1>1 DEF Inv, TypeOK, LateByPlace, Ended, OneBeatAfterCancel
<1>6. SignalMeansEnded'
  BY <1>1, <1>3 DEF Inv, TypeOK, SignalMeansEnded
<1> QED BY <1>4, <1>5, <1>6 DEF Inv

(* The invariant is inductive.                                             *)
LEMMA NextKeepsInv == Inv /\ [Next]_vars => Inv'
<1> SUFFICES ASSUME Inv, [Next]_vars PROVE Inv'
  OBVIOUS
<1>1. CASE HeartBeatThread
  BY <1>1, BeatKeepsInv, EndKeepsInv DEF HeartBeatThread
<1>2. CASE \E c \in Callers : cancelWithData(c) \/ WakeUp(c)
  BY <1>2, CallerKeepsInv
<1>3. CASE UNCHANGED vars
  BY <1>3 DEF vars, Inv, TypeOK, LateByPlace, Ended, SignalMeansEnded,
              OneBeatAfterCancel
<1> QED BY <1>1, <1>2, <1>3 DEF Next
-----------------------------------------------------------------------------
(* What is known of the thread and of those that cancel it.                *)
THEOREM HeartBeatInv == Spec => []Inv
BY InitInv, NextKeepsInv, PTL DEF Spec

(* Every variable keeps its type.                                          *)
THEOREM HeartBeatTypeCorrect == Spec => []TypeOK
BY HeartBeatInv, PTL DEF Inv

(* A canceller that the thread woke finds that it ended: what the          *)
(* canceller then tells the server is the last the server hears.           *)
THEOREM HeartBeatSignalMeansEnded == Spec => []SignalMeansEnded
BY HeartBeatInv, PTL DEF Inv

(* However many threads cancel it, one beat is sent at most before the     *)
(* cancellation is noticed.                                                *)
THEOREM HeartBeatOneBeatAfterCancel == Spec => []OneBeatAfterCancel
BY HeartBeatInv, PTL DEF Inv
-----------------------------------------------------------------------------
(* Every step of the delegate keeps the count of a local mesher.           *)
LEMMA DelegateCounts ==
  ASSUME ~RemoteMesher, TypeOK, CountsInARow,
         didSendData \/ didReceiveData \/ didFailWithError
  PROVE  CountsInARow'
<1>1. CASE didSendData
  BY <1>1 DEF didSendData, CountsInARow, AsksEveryFiveFailures
<1>2. CASE didReceiveData
  BY <1>2 DEF didReceiveData, CountsInARow, AsksEveryFiveFailures
<1>3. CASE didFailWithError
  <2>1. /\ heartbeatFailureCount' = Incremented(inARow)
        /\ inARow' = Incremented(inARow)
        /\ asked' = (heartbeatFailureCount' >= 5 /\ heartbeatFailureCount' % 5 = 0)
    BY <1>3 DEF didFailWithError, CountsInARow
  <2>2. Incremented(inARow) \in 1..10
    BY DEF TypeOK, Incremented
  <2>3. ASSUME NEW n \in 1..10
        PROVE  (n >= 5 /\ n % 5 = 0) <=> (n > 0 /\ n % 5 = 0)
    OBVIOUS
  <2>4. asked' <=> heartbeatFailureCount' >= 5 /\ heartbeatFailureCount' % 5 = 0
    BY <2>1, Zenon
  <2>5. heartbeatFailureCount' = inARow' /\ inARow' \in 1..10
    BY <2>1, <2>2
  <2>6. asked' <=> inARow' > 0 /\ inARow' % 5 = 0
    BY <2>3, <2>4, <2>5
  <2> QED BY <2>5, <2>6 DEF CountsInARow, AsksEveryFiveFailures
<1> QED BY <1>1, <1>2, <1>3

(* A local mesher asks for the list at every fifth failure in a row, and   *)
(* at no other time.  Nothing of the kind holds of a remote mesher, whose  *)
(* counter is cleared by every datagram that leaves.                       *)
THEOREM LocalMesherAsks ==
  ASSUME ~RemoteMesher
  PROVE  Spec => []AsksEveryFiveFailures
<1>1. Init => CountsInARow
  BY DEF Init, CountsInARow, AsksEveryFiveFailures
<1>2. ASSUME Inv, CountsInARow, [Next]_vars PROVE CountsInARow'
  <2>1. \/ UNCHANGED delegateVars
        \/ didSendData \/ didReceiveData \/ didFailWithError
    BY <1>2 DEF Next, HeartBeatThread, TestCancelled, FailToSend, SendBeat,
                ReceiveAnswer, FailToReceive, SendLast, Signal, cancelWithData,
                Lock, Cancel, Wait, Relock, Unlock, WakeUp, vars, delegateVars
  <2>2. CASE UNCHANGED delegateVars
    BY <1>2, <2>2 DEF delegateVars, CountsInARow, AsksEveryFiveFailures
  <2> QED BY <1>2, <2>1, <2>2, DelegateCounts DEF Inv
<1>3. CountsInARow => AsksEveryFiveFailures
  BY DEF CountsInARow
<1> QED BY <1>1, <1>2, <1>3, HeartBeatInv, PTL DEF Spec
=============================================================================
