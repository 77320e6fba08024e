-------------------------- MODULE AMLeaderElecter --------------------------
(***************************************************************************)
(* The search for the local server (AMLeaderElecter.m): a mesher looks for *)
(* the Bonjour service of another one in its network and publishes its own *)
(* when there is none.  Bonjour itself, with its browsers, services and    *)
(* timers, is external: it calls back in the run loop of the thread on     *)
(* which a search was started, and only the main thread has a run loop     *)
(* that runs.                                                              *)
(*                                                                         *)
(* The module holds the elector's state, what its methods make of it and   *)
(* what Bonjour calls; AMLocalMesher adds what the change of the cluster's *)
(* state sets off there, and the specification.                            *)
(***************************************************************************)
EXTENDS Integers, Sequences, SequencesExt

CONSTANTS
  Services,  \* other machines of the network that may serve as local server
  Self, NoHost,
  MaxEvents  \* bound: what the user does, the network does, or goes wrong

ASSUME HostAssumption == Self \notin Services /\ NoHost \notin Services \cup {Self}

VARIABLES
  clusterState,     \* AMMesher.clusterState
  LSConfig,         \* Preference_Key_Cluster_LSConfig
  elector,          \* the fields of AMLeaderElecter, and of Bonjour's objects
  localServerHost,  \* AMSystemConfig.localServerHost
  lan,              \* the other machines that publish the service
  events

networkVars == <<LSConfig, lan>>

LSConfigs == {"DISCOVER", "SELF"} \cup Services

NewElector ==
  [browser |-> "none",        \* _mesherServiceBrowser
   reported |-> {},           \* what the browser reported
   allMesherServices |-> <<>>,
   resolving |-> {},
   myMesherService |-> "none",
   timer |-> FALSE,           \* there is a timer that fires every 5 seconds
   locallyMeshed |-> FALSE]

(* Something happens that nobody waits for.                                *)
Event == events < MaxEvents /\ events' = events + 1
-----------------------------------------------------------------------------
browseLocalMesher(e, thread) ==
  [e EXCEPT !.browser = IF thread = "main" THEN "starting" ELSE "idle",
            !.reported = {}]

(* Another object takes the place of the service that was there.           *)
publishLocalMesher(e, thread) ==
  [e EXCEPT !.myMesherService = IF thread = "main" THEN "publishing" ELSE "idle"]

(* The services that are dropped are not resolved any more.                *)
stopBrowser(e) ==
  IF e.browser = "none" THEN e
  ELSE [e EXCEPT !.browser = "none", !.reported = {},
                 !.allMesherServices = <<>>, !.resolving = {}]

(* Mutant: the service stays.                                              *)
stopElectorBrowser(e) == stopBrowser(e)

stopElector(e) == [stopBrowser(e) EXCEPT !.myMesherService = "none"]

(* The timer of an earlier search is not invalidated.                      *)
kickoffElectProcess(e, thread) ==
  LET fresh == [e EXCEPT !.locallyMeshed = FALSE] IN
  CASE LSConfig = "DISCOVER" -> browseLocalMesher(fresh, thread)
    [] LSConfig = "SELF" -> publishLocalMesher(fresh, thread)
    [] OTHER -> fresh
-----------------------------------------------------------------------------
(***************************************************************************)
(* What Bonjour calls.                                                     *)
(***************************************************************************)
netServiceBrowserWillSearch ==
  /\ elector.browser = "starting"
  /\ elector' = [elector EXCEPT !.browser = "searching", !.timer = TRUE]
  /\ UNCHANGED events

(* A service that is found starts the resolution of the first one found.   *)
didFindService(s) ==
  /\ elector.browser = "searching"
  /\ s \in lan \ elector.reported
  /\ LET all == IF s \in ToSet(elector.allMesherServices)
                THEN elector.allMesherServices
                ELSE Append(elector.allMesherServices, s)
     IN elector' = [elector EXCEPT !.reported = @ \cup {s},
                                   !.allMesherServices = all,
                                   !.resolving = @ \cup {Head(all)}]
  /\ UNCHANGED events

didRemoveService(s, moreServicesComing) ==
  /\ elector.browser = "searching"
  /\ s \in elector.reported \ lan
  /\ LET left == [elector EXCEPT
                    !.reported = @ \ {s},
                    !.allMesherServices = SelectSeq(@, LAMBDA t : t # s),
                    !.resolving = @ \ {s}]
     IN elector' = IF moreServicesComing THEN left
                   ELSE publishLocalMesher(left, "main")
  /\ UNCHANGED events

(* The browser also reports services that are no mesher's.                 *)
didRemoveOtherService ==
  /\ elector.browser = "searching"
  /\ elector' = publishLocalMesher(elector, "main")
  /\ Event

(* Mutant: the timer fires once.                                           *)
onSearchTimeoutOnce ==
  /\ elector.timer
  /\ elector' = LET fired == [elector EXCEPT !.timer = FALSE] IN
                IF ~elector.locallyMeshed /\ elector.allMesherServices = <<>>
                THEN publishLocalMesher(stopBrowser(fired), "main") ELSE fired
  /\ UNCHANGED events

onSearchTimeout ==
  /\ elector.timer
  /\ ~elector.locallyMeshed /\ elector.allMesherServices = <<>>
  /\ elector' = publishLocalMesher(stopBrowser(elector), "main")
  /\ UNCHANGED events

(* ... followed by kClusterClientRegistering.                              *)
netServiceDidResolveAddress(s) ==
  /\ s \in elector.resolving \cap lan
  /\ elector' = stopBrowser([elector EXCEPT !.locallyMeshed = TRUE])
  /\ localServerHost' = s
  /\ UNCHANGED events

didNotResolve(s) ==
  /\ s \in elector.resolving
  /\ elector' = publishLocalMesher([elector EXCEPT !.resolving = @ \ {s}], "main")
  /\ IF s \in lan THEN Event ELSE UNCHANGED events

didNotPublish ==
  /\ elector.myMesherService = "publishing"
  /\ elector' = CASE LSConfig = "DISCOVER" ->
                       browseLocalMesher([elector EXCEPT !.myMesherService = "failed"],
                                         "main")
                  [] LSConfig = "SELF" -> publishLocalMesher(elector, "main")
                  [] OTHER -> [elector EXCEPT !.myMesherService = "given up"]
  /\ Event

(* ... followed by kClusterServerStarting.                                 *)
netServiceDidPublish ==
  /\ elector.myMesherService = "publishing"
  /\ elector' = [elector EXCEPT !.myMesherService = "published",
                                !.locallyMeshed = TRUE]
  /\ localServerHost' = Self
  /\ UNCHANGED events
=============================================================================
