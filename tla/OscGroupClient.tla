--------------------------- MODULE OscGroupClient ---------------------------
(***************************************************************************)
(* The peer table of an OSC group client (OscGroupClient.cpp).  The client *)
(* learns from the group server at which addresses a peer may be reached,  *)
(* pings them, and forwards the application's packets to an address from   *)
(* which the peer pinged.  Everything runs on one thread, the loop of      *)
(* SocketReceiveMultiplexer: its timer expires ten times in an idle period,*)
(* so that at least once for every second of the clock.  Datagrams arrive  *)
(* in any order, late, or not at all.                                      *)
(***************************************************************************)
EXTENDS Integers

CONSTANTS
  Users,       \* names of peers
  Addresses,   \* endpoint names: an address and a port
  Nowhere,     \* the endpoint name of a PeerEndpoint that was not set
  PURGE_PEER_TIMEOUT_SECONDS,
  PEER_ESTABLISHMENT_RETRY_TIME_SECONDS,
  IDLE_PING_PERIOD_SECONDS,
  ACTIVE_PING_PERIOD_SECONDS,
  ESTABLISHMENT_PING_PERIOD_COUNT,
  MaxSeconds,  \* the server reports users it heard so long ago at most
  MaxTime,     \* bound: the clock stops
  MaxEvents    \* bound: how many datagrams arrive

ASSUME PeriodAssumption ==
  /\ IDLE_PING_PERIOD_SECONDS \in Nat \ {0}
  /\ ACTIVE_PING_PERIOD_SECONDS \in Nat
  /\ IDLE_PING_PERIOD_SECONDS =< ACTIVE_PING_PERIOD_SECONDS
  /\ ESTABLISHMENT_PING_PERIOD_COUNT \in Nat \ {0}
  /\ PEER_ESTABLISHMENT_RETRY_TIME_SECONDS \in Nat
  /\ PURGE_PEER_TIMEOUT_SECONDS \in Nat
  /\ MaxSeconds \in 0 .. PURGE_PEER_TIMEOUT_SECONDS
ASSUME NowhereAssumption == Nowhere \notin Addresses

VARIABLES
  peers,              \* peers_: a function on the users that are in it
  lastAliveSentTime,  \* lastAliveSentTime_
  now,                \* std::time(0)
  due,                \* the timer did not expire yet in this second
  events,             \* how many datagrams arrived
  pinged,             \* the addresses from which each peer pinged
  lastSign            \* when the server or this client last heard of a peer

vars == <<peers, lastAliveSentTime, now, due, events, pinged, lastSign>>

Kinds == {"private", "public", "ping"}

PeerEndpoint ==
  [endpointName |-> Nowhere, pingReceived |-> FALSE, lastPingReceiveTime |-> 0,
   sentPings |-> FALSE, lastPingSendTime |-> 0,
   forwardedPackets |-> FALSE, lastPacketForwardTime |-> 0]

Peer ==
  [endpoint |-> [k \in Kinds |-> PeerEndpoint],
   pingPeriodCount |-> 0, lastPingPeriodTime |-> 0, heardByServer |-> 0]

Received(p) == {k \in Kinds : p.endpoint[k].pingReceived}
-----------------------------------------------------------------------------
(***************************************************************************)
(* Pings.                                                                  *)
(***************************************************************************)
(* Where packets for the peer go, once it pinged from somewhere.           *)
SelectEndpoint(p) ==
  IF "private" \in Received(p) THEN "private"
  ELSE IF "public" \in Received(p) THEN "public" ELSE "ping"

(* No more than so long since the peer pinged from anywhere.               *)
HeardWithin(p, seconds) ==
  \E k \in Received(p) : now - p.endpoint[k].lastPingReceiveTime =< seconds

PingPeriod(count) ==
  IF count < ESTABLISHMENT_PING_PERIOD_COUNT
  THEN (IDLE_PING_PERIOD_SECONDS * (count + 1)) \div ESTABLISHMENT_PING_PERIOD_COUNT
  ELSE IDLE_PING_PERIOD_SECONDS

InEstablishmentPhase(p, count) ==
  \/ Received(p) = {}
  \/ count < ESTABLISHMENT_PING_PERIOD_COUNT /\ "private" \notin Received(p)

(* Mutant: an endpoint that was ever used is taken for active.             *)
PingDueOnceForwarded(e) ==
  \/ ~e.sentPings
  \/ now - e.lastPingSendTime >= IF e.forwardedPackets
                                 THEN ACTIVE_PING_PERIOD_SECONDS
                                 ELSE IDLE_PING_PERIOD_SECONDS

(* Forwarded packets keep an endpoint open, so that it is pinged less.     *)
PingDue(e) ==
  LET active == /\ e.forwardedPackets
                /\ now - e.lastPacketForwardTime < IDLE_PING_PERIOD_SECONDS
  IN \/ ~e.sentPings
     \/ now - e.lastPingSendTime >= IF active THEN ACTIVE_PING_PERIOD_SECONDS
                                    ELSE IDLE_PING_PERIOD_SECONDS

(* Pings to some of the peer's endpoints.  The count is only compared with *)
(* ESTABLISHMENT_PING_PERIOD_COUNT, and stops there.                       *)
SendPings(p, to, count) ==
  [p EXCEPT
     !.endpoint = [k \in Kinds |->
        IF k \in to
        THEN [p.endpoint[k] EXCEPT !.sentPings = TRUE, !.lastPingSendTime = now]
        ELSE p.endpoint[k]],
     !.lastPingPeriodTime = now,
     !.pingPeriodCount =
        IF count < ESTABLISHMENT_PING_PERIOD_COUNT THEN count + 1 ELSE count]

(* The peer as PollPeerPingTimer leaves it.  A link that was silent for    *)
(* too long is established anew.                                           *)
PollPeerPingTimer(p, executeNowIgnoringTimeouts) ==
  LET retry == /\ Received(p) # {}
               /\ ~HeardWithin(p, PEER_ESTABLISHMENT_RETRY_TIME_SECONDS)
      count == IF retry THEN 0 ELSE p.pingPeriodCount
      force == executeNowIgnoringTimeouts \/ retry
  IN IF InEstablishmentPhase(p, count)
     THEN IF force \/ now >= p.lastPingPeriodTime + PingPeriod(count)
          THEN SendPings(p, {"private", "public"} \cup ({"ping"} \cap Received(p)),
                         count)
          ELSE [p EXCEPT !.pingPeriodCount = count]
     ELSE IF force \/ PingDue(p.endpoint[SelectEndpoint(p)])
          THEN SendPings(p, {SelectEndpoint(p)}, count)
          ELSE [p EXCEPT !.pingPeriodCount = count]

RestartPeerCommunicationEstablishment(p) ==
  PollPeerPingTimer([p EXCEPT !.pingPeriodCount = 0], TRUE)

RestartIf(p, restart) ==
  IF restart THEN RestartPeerCommunicationEstablishment(p) ELSE p
-----------------------------------------------------------------------------
(***************************************************************************)
(* The listeners.                                                          *)
(***************************************************************************)
Arrives ==
  /\ events < MaxEvents
  /\ events' = events + 1
  /\ UNCHANGED <<lastAliveSentTime, now, due>>

Later(u, time) == IF time > lastSign[u] THEN time ELSE lastSign[u]

(* Mutant: the pings stay.                                                 *)
ForgottenPackets(e) == [e EXCEPT !.forwardedPackets = FALSE]

Forgotten(e) == [e EXCEPT !.pingReceived = FALSE, !.forwardedPackets = FALSE]

(* Another address takes the place of the one the endpoint had: what came  *)
(* from the old one does not count any more, nor does the ping endpoint.   *)
SetEndpoint(p, kind, name) ==
  IF p.endpoint[kind].endpointName = name THEN p
  ELSE [p EXCEPT !.endpoint[kind] = [Forgotten(@) EXCEPT !.endpointName = name],
                 !.endpoint["ping"] = Forgotten(@)]

(* The server tells where a member of the group may be and when it heard   *)
(* of it.  (What it tells of others is ignored, also when they were peers.)*)
user_info(u) ==
  \E private, public \in Addresses, seconds \in 0 .. MaxSeconds :
     LET known == u \in DOMAIN peers
         old == IF known THEN peers[u] ELSE Peer
         moved == SetEndpoint(SetEndpoint(old, "private", private),
                              "public", public)
         heard == [moved EXCEPT !.heardByServer = now - seconds]
         new == RestartIf(heard, ~known \/ moved # old)
     IN /\ Arrives
        /\ peers' = [v \in DOMAIN peers \cup {u} |-> IF v = u THEN new ELSE peers[v]]
        /\ lastSign' = [lastSign EXCEPT ![u] = Later(u, now - seconds)]
        /\ pinged' = IF known THEN pinged ELSE [pinged EXCEPT ![u] = {}]

(* The endpoint a ping counts for: an address that is neither the private  *)
(* nor the public one becomes the ping endpoint.                           *)
PingKind(p, from) ==
  IF from = p.endpoint["private"].endpointName THEN "private"
  ELSE IF from = p.endpoint["public"].endpointName THEN "public" ELSE "ping"

ping(u) ==
  /\ u \in DOMAIN peers
  /\ \E from \in Addresses :
        LET kind == PingKind(peers[u], from)
            e == peers[u].endpoint[kind]
            heard == [peers[u] EXCEPT !.endpoint[kind] =
                        [@ EXCEPT !.endpointName = from, !.pingReceived = TRUE,
                                  !.lastPingReceiveTime = now]]
        IN /\ peers' = [peers EXCEPT ![u] =
                          RestartIf(heard, ~e.pingReceived \/ e.endpointName # from)]
           /\ pinged' = [pinged EXCEPT ![u] = @ \cup {from}]
  /\ lastSign' = [lastSign EXCEPT ![u] = now]
  /\ Arrives

(* A packet of the application goes to every peer that pinged.             *)
Forwarded(p) ==
  IF Received(p) = {} THEN p
  ELSE [p EXCEPT !.endpoint[SelectEndpoint(p)] =
          [@ EXCEPT !.forwardedPackets = TRUE, !.lastPacketForwardTime = now]]

ForwardPacketToAllPeers ==
  /\ peers' = [u \in DOMAIN peers |-> Forwarded(peers[u])]
  /\ Arrives
  /\ UNCHANGED <<pinged, lastSign>>

(* Mutants: only the server counts; a peer that pinged once stays.         *)
PurgedWhenServerSilent(p) == now - p.heardByServer > PURGE_PEER_TIMEOUT_SECONDS
PurgedUnlessPinged(p) ==
  now - p.heardByServer > PURGE_PEER_TIMEOUT_SECONDS /\ Received(p) = {}

(* MostRecentActivityTime lies too far back.                               *)
Purged(p) ==
  /\ now - p.heardByServer > PURGE_PEER_TIMEOUT_SECONDS
  /\ ~HeardWithin(p, PURGE_PEER_TIMEOUT_SECONDS)

TimerExpired ==
  /\ due' = FALSE
  /\ lastAliveSentTime' =
       IF now - lastAliveSentTime >= IDLE_PING_PERIOD_SECONDS THEN now
       ELSE lastAliveSentTime
  /\ peers' = [u \in {v \in DOMAIN peers : ~Purged(peers[v])} |->
                 PollPeerPingTimer(peers[u], FALSE)]
  /\ UNCHANGED <<now, events, pinged, lastSign>>

Tick ==
  /\ ~due /\ now < MaxTime
  /\ now' = now + 1
  /\ due' = TRUE
  /\ UNCHANGED <<peers, lastAliveSentTime, events, pinged, lastSign>>

(* The clock counts from long before the client starts.                    *)
Init ==
  /\ peers = [u \in {} |-> Peer]
  /\ lastAliveSentTime = 0
  /\ now = IDLE_PING_PERIOD_SECONDS
  /\ due = TRUE
  /\ events = 0
  /\ pinged = [u \in Users |-> {}]
  /\ lastSign = [u \in Users |-> 0]

Next ==
  \/ \E u \in Users : user_info(u) \/ ping(u)
  \/ ForwardPacketToAllPeers
  \/ TimerExpired
  \/ Tick

Spec == Init /\ [][Next]_vars
-----------------------------------------------------------------------------
InUse(u) == peers[u].endpoint[SelectEndpoint(peers[u])]

Linked == {u \in DOMAIN peers : Received(peers[u]) # {}}

(* SelectEndpoint: packets are forwarded to no address but one from which  *)
(* the peer pinged, however often its addresses changed meanwhile.         *)
ForwardsWherePinged ==
  \A u \in Linked : InUse(u).endpointName \in pinged[u]

(* PollPeerPingTimer: once the timer expired, a ping or a packet went to   *)
(* the endpoint in use in the last idle period, and a ping in the last     *)
(* active period, whichever endpoint was in use before.                    *)
LinkKeptOpen ==
  ~due => \A u \in Linked :
    LET e == InUse(u) IN
    /\ e.sentPings /\ now - e.lastPingSendTime < ACTIVE_PING_PERIOD_SECONDS
    /\ \/ now - e.lastPingSendTime < IDLE_PING_PERIOD_SECONDS
       \/ /\ e.forwardedPackets
          /\ now - e.lastPacketForwardTime < IDLE_PING_PERIOD_SECONDS

(* MostRecentActivityTime: a peer of which nobody heard for as long as the *)
(* timeout is not in the table once the timer expired.                     *)
SilentPeersGone ==
  ~due => \A u \in DOMAIN peers :
            now - lastSign[u] =< PURGE_PEER_TIMEOUT_SECONDS

(* ... and no peer is removed before: the pings from an address that was   *)
(* replaced are forgotten, and the server's report counts from the time at *)
(* which it heard of the peer, so that the timeout may be shorter by that. *)
PurgesOnlyTheSilent ==
  \A u \in DOMAIN peers \ DOMAIN peers' :
     now - lastSign[u] > PURGE_PEER_TIMEOUT_SECONDS - MaxSeconds

PurgedOnlyWhenSilent == [][PurgesOnlyTheSilent]_vars
=============================================================================
