----------------------------- MODULE AMHeartBeat -----------------------------
(***************************************************************************)
(* A client's heartbeat thread (AMMesher/AMHeartBeat.m), the threads that  *)
(* cancel it, and what its delegate counts (AMLocalMesher.m,               *)
(* AMRemoteMesher.m).  The thread sends a datagram, waits for the answer   *)
(* with a timeout and sleeps, until it is cancelled.  cancelWithData sets  *)
(* the flag and then waits on a condition until the thread has ended; the  *)
(* thread signals the condition without holding its lock, and the wait     *)
(* tests no predicate.                                                     *)
(***************************************************************************)
EXTENDS Integers, FiniteSets

CONSTANTS
  Callers,       \* threads that cancel: the main thread, a request's thread
  RemoteMesher   \* whether the delegate is AMRemoteMesher or AMLocalMesher

ASSUME DelegateAssumption == RemoteMesher \in BOOLEAN

NoCaller == "none"

VARIABLES
  pc,                      \* where the heartbeat thread is in main
  cancelled,               \* NSThread's isCancelled
  lastHeartBeatData,       \* _lastHeartBeatData is set
  owner,                   \* who holds the lock of _condition
  caller,                  \* where each caller is in cancelWithData
  wokenBy,                 \* what ended the caller's wait
  lost,                    \* the signal was given while nobody waited
  heartbeatFailureCount,   \* the delegate's counter
  inARow,                  \* beats that failed since the last answer
  asked,                   \* the last failure made the delegate ask for the list
  late                     \* beats sent since it was cancelled, 3 for more

threadVars   == <<pc, late>>
cancelVars   == <<cancelled, lastHeartBeatData, owner, caller, wokenBy, lost>>
delegateVars == <<heartbeatFailureCount, inARow, asked>>
vars == <<pc, late, cancelled, lastHeartBeatData, owner, caller, wokenBy, lost,
          heartbeatFailureCount, inARow, asked>>

(* The counters matter only in whether they are below 5, and modulo 5:     *)
(* after 10 they go on as after 5.                                         *)
Incremented(n) == IF n = 10 THEN 6 ELSE n + 1
-----------------------------------------------------------------------------
(* Mutant: the local mesher resets its counter too, as AMLocalMesher.m:672 *)
(* once did.                                                               *)
didSendDataResets == heartbeatFailureCount' = 0 /\ UNCHANGED <<inARow, asked>>

(***************************************************************************)
(* The delegate.                                                           *)
(***************************************************************************)
didSendData ==
  /\ heartbeatFailureCount' = IF RemoteMesher THEN 0 ELSE heartbeatFailureCount
  /\ UNCHANGED <<inARow, asked>>

didReceiveData ==
  /\ heartbeatFailureCount' = 0
  /\ inARow' = 0
  /\ asked' = FALSE

didFailWithError ==
  /\ heartbeatFailureCount' = Incremented(heartbeatFailureCount)
  /\ inARow' = Incremented(inARow)
  /\ asked' = (heartbeatFailureCount' >= 5 /\ heartbeatFailureCount' % 5 = 0)
-----------------------------------------------------------------------------
(* Mutant: only a thread that has last data to send ends.                  *)
TestCancelledWithData ==
  /\ pc = "loop"
  /\ pc' = IF cancelled /\ lastHeartBeatData THEN "last" ELSE "beat"
  /\ UNCHANGED <<late, cancelVars, delegateVars>>

(***************************************************************************)
(* The heartbeat thread.  A turn without a delegate or without data goes   *)
(* back to the test of the flag and does nothing else: it is left out.     *)
(***************************************************************************)
TestCancelled ==
  /\ pc = "loop"
  /\ pc' = IF cancelled THEN "last" ELSE "beat"
  /\ UNCHANGED <<late, cancelVars, delegateVars>>

(* No socket, a socket option that is refused, or nothing sent.            *)
FailToSend ==
  /\ pc = "beat"
  /\ pc' = "loop"
  /\ didFailWithError
  /\ UNCHANGED <<late, cancelVars>>

SendBeat ==
  /\ pc = "beat"
  /\ pc' = "receive"
  /\ didSendData
  /\ late' = IF cancelled /\ late < 3 THEN late + 1 ELSE late
  /\ UNCHANGED cancelVars

ReceiveAnswer ==
  /\ pc = "receive"
  /\ pc' = "loop"
  /\ didReceiveData
  /\ UNCHANGED <<late, cancelVars>>

(* The answer was lost, late, or there is no server.                       *)
FailToReceive ==
  /\ pc = "receive"
  /\ pc' = "loop"
  /\ didFailWithError
  /\ UNCHANGED <<late, cancelVars>>

SendLast ==
  /\ pc = "last"
  /\ pc' = "signal"
  /\ late' = IF lastHeartBeatData THEN late + 1 ELSE late
  /\ UNCHANGED <<cancelVars, delegateVars>>

Waiting == {c \in Callers : caller[c] = "waiting"}

(* Mutant: the thread signals before it sends its last data.               *)
SignalEarly ==
  /\ pc = "last"
  /\ pc' = "signal"
  /\ \E c \in Waiting :
        /\ caller' = [caller EXCEPT ![c] = "woken"]
        /\ wokenBy' = [wokenBy EXCEPT ![c] = "signal"]
  /\ UNCHANGED <<late, cancelled, lastHeartBeatData, owner, lost, delegateVars>>

(* Mutant: the thread ends without a signal.                               *)
SignalNobody ==
  /\ pc = "signal"
  /\ pc' = "done"
  /\ UNCHANGED <<late, cancelVars, delegateVars>>

Signal ==
  /\ pc = "signal"
  /\ pc' = "done"
  /\ \/ /\ Waiting = {}
        /\ lost' = TRUE
        /\ UNCHANGED <<caller, wokenBy>>
     \/ \E c \in Waiting :
          /\ caller' = [caller EXCEPT ![c] = "woken"]
          /\ wokenBy' = [wokenBy EXCEPT ![c] = "signal"]
          /\ UNCHANGED lost
  /\ UNCHANGED <<late, cancelled, lastHeartBeatData, owner, delegateVars>>

HeartBeatThread ==
  \/ TestCancelled
  \/ FailToSend \/ SendBeat
  \/ ReceiveAnswer \/ FailToReceive
  \/ SendLast
  \/ Signal
-----------------------------------------------------------------------------
(***************************************************************************)
(* cancelWithData.                                                         *)
(***************************************************************************)
Lock(c) ==
  /\ caller[c] = "idle"
  /\ owner = NoCaller
  /\ owner' = c
  /\ caller' = [caller EXCEPT ![c] = "locked"]
  /\ UNCHANGED <<threadVars, cancelled, lastHeartBeatData, wokenBy, lost,
                 delegateVars>>

Cancel(c) ==
  /\ caller[c] = "locked"
  /\ ~cancelled
  /\ \E data \in BOOLEAN : lastHeartBeatData' = data
  /\ cancelled' = TRUE
  /\ caller' = [caller EXCEPT ![c] = "cancelled"]
  /\ UNCHANGED <<threadVars, owner, wokenBy, lost, delegateVars>>

Wait(c) ==
  /\ caller[c] = "cancelled"
  /\ owner' = NoCaller
  /\ caller' = [caller EXCEPT ![c] = "waiting"]
  /\ UNCHANGED <<threadVars, cancelled, lastHeartBeatData, wokenBy, lost,
                 delegateVars>>

(* A wait on a condition may end without a signal.                         *)
WakeUp(c) ==
  /\ caller[c] = "waiting"
  /\ caller' = [caller EXCEPT ![c] = "woken"]
  /\ wokenBy' = [wokenBy EXCEPT ![c] = "nobody"]
  /\ UNCHANGED <<threadVars, cancelled, lastHeartBeatData, owner, lost,
                 delegateVars>>

Relock(c) ==
  /\ caller[c] = "woken"
  /\ owner = NoCaller
  /\ owner' = c
  /\ caller' = [caller EXCEPT ![c] = "relocked"]
  /\ UNCHANGED <<threadVars, cancelled, lastHeartBeatData, wokenBy, lost,
                 delegateVars>>

Unlock(c) ==
  /\ \/ caller[c] = "relocked"
     \/ caller[c] = "locked" /\ cancelled
  /\ owner' = NoCaller
  /\ caller' = [caller EXCEPT ![c] = "returned"]
  /\ UNCHANGED <<threadVars, cancelled, lastHeartBeatData, wokenBy, lost,
                 delegateVars>>

cancelWithData(c) == Lock(c) \/ Cancel(c) \/ Wait(c) \/ Relock(c) \/ Unlock(c)
-----------------------------------------------------------------------------
Init ==
  /\ pc = "loop"
  /\ cancelled = FALSE
  /\ lastHeartBeatData = FALSE
  /\ owner = NoCaller
  /\ caller = [c \in Callers |-> "idle"]
  /\ wokenBy = [c \in Callers |-> "nobody"]
  /\ lost = FALSE
  /\ heartbeatFailureCount = 0
  /\ inARow = 0
  /\ asked = FALSE
  /\ late = 0

Next ==
  \/ HeartBeatThread
  \/ \E c \in Callers : cancelWithData(c) \/ WakeUp(c)

(* Every thread runs while it can; nobody has to cancel, no answer has to  *)
(* arrive, and no wait has to end without a signal.                        *)
Fairness ==
  /\ WF_vars(HeartBeatThread)
  /\ \A c \in Callers :
        /\ WF_vars(Cancel(c) \/ Wait(c) \/ Unlock(c))
        /\ SF_vars(Relock(c))

Spec == Init /\ [][Next]_vars /\ Fairness
-----------------------------------------------------------------------------
(***************************************************************************)
(* Properties.                                                             *)
(***************************************************************************)
TypeOK ==
  /\ pc \in {"loop", "beat", "receive", "last", "signal", "done"}
  /\ cancelled \in BOOLEAN /\ lastHeartBeatData \in BOOLEAN
  /\ owner \in Callers \cup {NoCaller}
  /\ caller \in [Callers -> {"idle", "locked", "cancelled", "waiting", "woken",
                             "relocked", "returned"}]
  /\ wokenBy \in [Callers -> {"nobody", "signal"}]
  /\ lost \in BOOLEAN /\ asked \in BOOLEAN
  /\ heartbeatFailureCount \in 0..10 /\ inARow \in 0..10
  /\ late \in 0..3

(* Whoever was woken by the thread finds that it ended: nothing of it is   *)
(* sent after that, so that the unregistration that follows (stopLocalClient, *)
(* stopRemoteClient) is the last the server hears of the user.             *)
SignalMeansEnded ==
  \A c \in Callers : wokenBy[c] = "signal" => pc = "done"

(* The thread notices that it was cancelled within the beat it is at: it   *)
(* sends that one beat at most, and the last one if there is data for it.  *)
OneBeatAfterCancel == late =< IF lastHeartBeatData THEN 2 ELSE 1

(* AMLocalMesher.m:691 asks for the list at every fifth failure in a row,  *)
(* and that request notices that the server is gone and starts over; no    *)
(* answer was received meanwhile.  AMRemoteMesher.m:627 says the same.     *)
AsksEveryFiveFailures == asked <=> inARow > 0 /\ inARow % 5 = 0

(* cancelWithData returns, unless the thread signalled before the caller   *)
(* waited: then nobody wakes it, and it is the main thread that hangs.     *)
CancelReturns ==
  \A c \in Callers :
     caller[c] # "idle" ~> caller[c] = "returned" \/ lost
=============================================================================
