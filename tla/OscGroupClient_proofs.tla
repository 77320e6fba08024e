------------------------ MODULE OscGroupClient_proofs ------------------------
(***************************************************************************)
(* Theorems about the peer table of the OSC group client, for every number *)
(* of peers and addresses and for all periods.                             *)
(***************************************************************************)
EXTENDS OscGroupClient, TLAPS

EndpointSet ==
  [endpointName : Addresses \cup {Nowhere}, pingReceived : BOOLEAN,
   lastPingReceiveTime : Int, sentPings : BOOLEAN, lastPingSendTime : Int,
   forwardedPackets : BOOLEAN, lastPacketForwardTime : Int]

PeerSet ==
  [endpoint : [Kinds -> EndpointSet],
   pingPeriodCount : 0 .. ESTABLISHMENT_PING_PERIOD_COUNT,
   lastPingPeriodTime : Int, heardByServer : Int]

TypeInv ==
  /\ DOMAIN peers \subseteq Users
  /\ peers \in [DOMAIN peers -> PeerSet]
  /\ now \in Int
  /\ pinged \in [Users -> SUBSET Addresses]
  /\ lastSign \in [Users -> Int]
  /\ \A u \in Users : lastSign[u] =< now

(* The addresses that count as heard from are among those in "from".       *)
FromPinged(p, from) ==
  \A k \in Received(p) : p.endpoint[k].endpointName \in from

(* What the table remembers of the last sign of the peer: nothing later,   *)
(* and not much less.                                                      *)
Remembers(p, last) ==
  /\ p.heardByServer =< last
  /\ \A k \in Received(p) : p.endpoint[k].lastPingReceiveTime =< last
  /\ \/ p.heardByServer >= last - MaxSeconds
     \/ \E k \in Received(p) :
           p.endpoint[k].lastPingReceiveTime >= last - MaxSeconds

(* While the link is being established every endpoint the peer pinged from *)
(* is pinged in every period.                                              *)
PhasePinged(p) ==
  \/ "private" \in Received(p)
  \/ p.pingPeriodCount >= ESTABLISHMENT_PING_PERIOD_COUNT
  \/ \A k \in Received(p) :
        /\ p.endpoint[k].sentPings
        /\ p.endpoint[k].lastPingSendTime >= p.lastPingPeriodTime

EndpointKeptOpen(e) ==
  /\ e.sentPings
  /\ now - e.lastPingSendTime < ACTIVE_PING_PERIOD_SECONDS
  /\ \/ now - e.lastPingSendTime < IDLE_PING_PERIOD_SECONDS
     \/ /\ e.forwardedPackets
        /\ now - e.lastPacketForwardTime < IDLE_PING_PERIOD_SECONDS

KeptOpen(p) ==
  Received(p) # {} => EndpointKeptOpen(p.endpoint[SelectEndpoint(p)])

Regular(p, from, last) ==
  FromPinged(p, from) /\ Remembers(p, last) /\ PhasePinged(p)

Settled(p, last) == KeptOpen(p) /\ now - last =< PURGE_PEER_TIMEOUT_SECONDS

PeerInv(u) ==
  /\ Regular(peers[u], pinged[u], lastSign[u])
  /\ ~due => Settled(peers[u], lastSign[u])

IInv == TypeInv /\ \A u \in DOMAIN peers : PeerInv(u)

(* Nothing that was received is different in q.                            *)
SameReceipts(p, q) ==
  /\ q.heardByServer = p.heardByServer
  /\ Received(q) = Received(p)
  /\ \A k \in Kinds :
       /\ q.endpoint[k].endpointName = p.endpoint[k].endpointName
       /\ q.endpoint[k].lastPingReceiveTime = p.endpoint[k].lastPingReceiveTime

(* What was received in q was received in p.                               *)
FewerReceipts(p, q) ==
  /\ q.heardByServer = p.heardByServer
  /\ \A k \in Received(q) :
       /\ k \in Received(p)
       /\ q.endpoint[k].endpointName = p.endpoint[k].endpointName
       /\ q.endpoint[k].lastPingReceiveTime = p.endpoint[k].lastPingReceiveTime

USE PeriodAssumption

(* A period of the establishment phase is no longer than an idle one.      *)
LEMMA PeriodBound ==
  ASSUME NEW count \in 0 .. ESTABLISHMENT_PING_PERIOD_COUNT
  PROVE  /\ PingPeriod(count) \in Int
         /\ PingPeriod(count) =< IDLE_PING_PERIOD_SECONDS
<1> DEFINE I == IDLE_PING_PERIOD_SECONDS
           C == ESTABLISHMENT_PING_PERIOD_COUNT
<1>1. CASE count >= C
  BY <1>1 DEF PingPeriod
<1>2. CASE count < C
  <2>1. I \in Nat /\ C \in Nat \ {0} /\ count + 1 \in 0 .. C
    BY <1>2
  <2>2. I * (count + 1) \in Nat /\ I * (count + 1) =< I * C
    BY <2>1
  <2>3. (I * (count + 1)) \div C =< I /\ (I * (count + 1)) \div C \in Int
    <3> HIDE DEF I, C
    <3>1. ASSUME NEW x \in Nat, x =< I * C
          PROVE  x \div C =< I /\ x \div C \in Int
      BY <2>1, <3>1
    <3> QED BY <2>2, <3>1
  <2> QED BY <1>2, <2>3 DEF PingPeriod
<1> QED BY <1>1, <1>2

(* What SendPings leaves alone, and what it does to the endpoints pinged.  *)
LEMMA SendPingsEffect ==
  ASSUME NEW p \in PeerSet, NEW to \in SUBSET Kinds, now \in Int,
         NEW count \in 0 .. ESTABLISHMENT_PING_PERIOD_COUNT
  PROVE  LET q == SendPings(p, to, count) IN
         /\ q \in PeerSet
         /\ SameReceipts(p, q)
         /\ q.lastPingPeriodTime = now
         /\ q.pingPeriodCount >= count
         /\ \A k \in to : q.endpoint[k].sentPings /\ q.endpoint[k].lastPingSendTime = now
<1> DEFINE q == SendPings(p, to, count)
           ep(k) == IF k \in to
                    THEN [p.endpoint[k] EXCEPT !.sentPings = TRUE, !.lastPingSendTime = now]
                    ELSE p.endpoint[k]
<1>1. p.endpoint \in [Kinds -> EndpointSet]
  BY DEF PeerSet
<1>2. q.endpoint = [k \in Kinds |-> ep(k)] /\ q.lastPingPeriodTime = now
        /\ q.heardByServer = p.heardByServer
  BY DEF SendPings, PeerSet
<1>3. ASSUME NEW k \in Kinds
      PROVE  /\ ep(k) \in EndpointSet
             /\ ep(k).endpointName = p.endpoint[k].endpointName
             /\ ep(k).pingReceived = p.endpoint[k].pingReceived
             /\ ep(k).lastPingReceiveTime = p.endpoint[k].lastPingReceiveTime
             /\ k \in to => ep(k).sentPings /\ ep(k).lastPingSendTime = now
  BY <1>1 DEF EndpointSet
<1>4. q.pingPeriodCount \in 0 .. ESTABLISHMENT_PING_PERIOD_COUNT
        /\ q.pingPeriodCount >= count
  BY DEF SendPings, PeerSet
<1>5. q \in PeerSet
  <2>1. q.endpoint \in [Kinds -> EndpointSet]
    BY <1>2, <1>3
  <2> QED BY <1>2, <1>4, <2>1 DEF SendPings, PeerSet
<1>6. Received(q) = Received(p)
  BY <1>2, <1>3 DEF Received
<1>7. SameReceipts(p, q)
  BY <1>2, <1>3, <1>6 DEF SameReceipts
<1>8. \A k \in to : q.endpoint[k].sentPings /\ q.endpoint[k].lastPingSendTime = now
  BY <1>2, <1>3
<1> QED BY <1>2, <1>4, <1>5, <1>7, <1>8

(* An endpoint to which no ping is due is kept open.                       *)
LEMMA NotDueKeptOpen ==
  ASSUME NEW e \in EndpointSet, now \in Int, ~PingDue(e)
  PROVE  EndpointKeptOpen(e)
<1> DEFINE active == /\ e.forwardedPackets
                     /\ now - e.lastPacketForwardTime < IDLE_PING_PERIOD_SECONDS
           period == IF active THEN ACTIVE_PING_PERIOD_SECONDS
                     ELSE IDLE_PING_PERIOD_SECONDS
<1>1. e.lastPingSendTime \in Int
  BY DEF EndpointSet
<1>2. e.sentPings /\ ~(now - e.lastPingSendTime >= period)
  BY DEF PingDue
<1> HIDE DEF active
<1>3. now - e.lastPingSendTime < period
  BY <1>1, <1>2
<1>4. period =< ACTIVE_PING_PERIOD_SECONDS /\ period \in Int
        /\ (~active => period = IDLE_PING_PERIOD_SECONDS)
  BY DEF period
<1> HIDE DEF period
<1>5. now - e.lastPingSendTime < ACTIVE_PING_PERIOD_SECONDS
  BY <1>1, <1>3, <1>4
<1> QED BY <1>2, <1>3, <1>4, <1>5 DEF EndpointKeptOpen, active

(* A poll leaves what was received alone.  Whether it pings or not, the    *)
(* link is kept open afterwards, if the peer was in a regular phase or     *)
(* timeouts are ignored.                                                   *)
LEMMA PollEffect ==
  ASSUME NEW p \in PeerSet, NEW force \in BOOLEAN, now \in Int,
         force \/ PhasePinged(p)
  PROVE  LET q == PollPeerPingTimer(p, force) IN
         /\ q \in PeerSet
         /\ SameReceipts(p, q)
         /\ PhasePinged(q)
         /\ KeptOpen(q)
<1> DEFINE retry == /\ Received(p) # {}
                    /\ ~HeardWithin(p, PEER_ESTABLISHMENT_RETRY_TIME_SECONDS)
           count == IF retry THEN 0 ELSE p.pingPeriodCount
           forced == force \/ retry
           all == {"private", "public"} \cup ({"ping"} \cap Received(p))
           used == SelectEndpoint(p)
           waits == [p EXCEPT !.pingPeriodCount = count]
           q == PollPeerPingTimer(p, force)
<1>1. count \in 0 .. ESTABLISHMENT_PING_PERIOD_COUNT
  BY DEF PeerSet
<1>2. /\ waits \in PeerSet
      /\ waits.endpoint = p.endpoint
      /\ waits.lastPingPeriodTime = p.lastPingPeriodTime
      /\ waits.heardByServer = p.heardByServer
      /\ waits.pingPeriodCount = count
  BY <1>1 DEF PeerSet
<1>3. SameReceipts(p, waits) /\ Received(waits) = Received(p)
  BY <1>2 DEF SameReceipts, Received
<1>4. all \in SUBSET Kinds /\ used \in Kinds /\ Received(p) \subseteq all
        /\ (Received(p) # {} => used \in Received(p))
  BY DEF Kinds, SelectEndpoint, Received
<1>5. \A r : Received(r) = Received(p) => SelectEndpoint(r) = used
  BY DEF SelectEndpoint
<1> HIDE DEF retry, count, all, used, waits, q
<1>6. CASE InEstablishmentPhase(p, count)
  <2>1. CASE forced \/ now >= p.lastPingPeriodTime + PingPeriod(count)
    <3>1. q = SendPings(p, all, count)
      BY <1>6, <2>1 DEF q, PollPeerPingTimer, count, retry, all
    <3>2. /\ q \in PeerSet /\ SameReceipts(p, q) /\ q.lastPingPeriodTime = now
          /\ \A k \in all : q.endpoint[k].sentPings /\ q.endpoint[k].lastPingSendTime = now
      BY <1>1, <1>4, <3>1, SendPingsEffect
    <3>3. Received(q) = Received(p)
      BY <3>2 DEF SameReceipts
    <3>4. PhasePinged(q)
      BY <1>4, <3>2, <3>3 DEF PhasePinged
    <3>5. KeptOpen(q)
      BY <1>4, <1>5, <3>2, <3>3 DEF KeptOpen, EndpointKeptOpen
    <3> QED BY <3>2, <3>4, <3>5 DEF q
  <2>2. CASE ~(forced \/ now >= p.lastPingPeriodTime + PingPeriod(count))
    <3>1. q = waits
      BY <1>6, <2>2 DEF q, PollPeerPingTimer, count, retry, waits
    <3>2. PhasePinged(p) /\ count = p.pingPeriodCount
      BY <2>2 DEF count
    <3>3. PhasePinged(q)
      BY <1>2, <1>3, <3>1, <3>2 DEF PhasePinged
    <3>4. ASSUME Received(p) # {}
          PROVE  EndpointKeptOpen(p.endpoint[used])
      <4>1. "private" \notin Received(p) /\ count < ESTABLISHMENT_PING_PERIOD_COUNT
        BY <1>6, <3>4 DEF InEstablishmentPhase
      <4>2. p.endpoint[used] \in EndpointSet /\ p.lastPingPeriodTime \in Int
        BY <1>4 DEF PeerSet
      <4>3. p.endpoint[used].sentPings
              /\ p.endpoint[used].lastPingSendTime >= p.lastPingPeriodTime
        BY <1>1, <1>4, <3>2, <3>4, <4>1 DEF PhasePinged
      <4>4. now < p.lastPingPeriodTime + IDLE_PING_PERIOD_SECONDS
        BY <1>1, <2>2, <4>2, PeriodBound
      <4>5. p.endpoint[used].lastPingSendTime \in Int
        BY <4>2 DEF EndpointSet
      <4>6. now - p.endpoint[used].lastPingSendTime < IDLE_PING_PERIOD_SECONDS
        BY <4>2, <4>3, <4>4, <4>5
      <4> QED BY <4>3, <4>5, <4>6 DEF EndpointKeptOpen
    <3>5. KeptOpen(q)
      BY <1>2, <1>3, <1>5, <3>1, <3>4 DEF KeptOpen
    <3> QED BY <1>2, <1>3, <3>1, <3>3, <3>5 DEF q
  <2> QED BY <2>1, <2>2
<1>7. CASE ~InEstablishmentPhase(p, count)
  <2>1. /\ Received(p) # {}
        /\ count >= ESTABLISHMENT_PING_PERIOD_COUNT \/ "private" \in Received(p)
    BY <1>1, <1>7 DEF InEstablishmentPhase
  <2>2. CASE forced \/ PingDue(p.endpoint[used])
    <3>1. q = SendPings(p, {used}, count)
      BY <1>7, <2>2 DEF q, PollPeerPingTimer, count, retry, used
    <3>2. /\ q \in PeerSet /\ SameReceipts(p, q)
          /\ q.pingPeriodCount >= count
          /\ q.endpoint[used].sentPings /\ q.endpoint[used].lastPingSendTime = now
      BY <1>1, <1>4, <3>1, SendPingsEffect
    <3>3. Received(q) = Received(p)
      BY <3>2 DEF SameReceipts
    <3>4. q.pingPeriodCount \in Int
      BY <3>2 DEF PeerSet
    <3>5. PhasePinged(q)
      BY <1>1, <2>1, <3>2, <3>3, <3>4 DEF PhasePinged
    <3>6. KeptOpen(q)
      BY <1>4, <1>5, <3>2, <3>3 DEF KeptOpen, EndpointKeptOpen
    <3> QED BY <3>2, <3>5, <3>6 DEF q
  <2>3. CASE ~(forced \/ PingDue(p.endpoint[used]))
    <3>1. q = waits
      BY <1>7, <2>3 DEF q, PollPeerPingTimer, count, retry, waits, used
    <3>2. PhasePinged(q)
      BY <1>2, <1>3, <2>1, <3>1 DEF PhasePinged
    <3>3. p.endpoint[used] \in EndpointSet
      BY <1>4 DEF PeerSet
    <3>4. EndpointKeptOpen(p.endpoint[used])
      BY <2>3, <3>3, NotDueKeptOpen
    <3>5. KeptOpen(q)
      BY <1>2, <1>3, <1>5, <3>1, <3>4 DEF KeptOpen
    <3> QED BY <1>2, <1>3, <3>1, <3>2, <3>5 DEF q
  <2> QED BY <2>2, <2>3
<1> QED BY <1>6, <1>7

(* The establishment that is restarted, or not: a restart keeps the link   *)
(* open whatever the phase the peer was in.                                *)
LEMMA RestartEffect ==
  ASSUME NEW p \in PeerSet, NEW restart \in BOOLEAN, now \in Int,
         restart \/ PhasePinged(p)
  PROVE  LET q == RestartIf(p, restart) IN
         /\ q \in PeerSet
         /\ SameReceipts(p, q)
         /\ PhasePinged(q)
         /\ restart \/ KeptOpen(p) => KeptOpen(q)
<1>1. CASE restart
  <2> DEFINE r == [p EXCEPT !.pingPeriodCount = 0]
             q == PollPeerPingTimer(r, TRUE)
  <2>1. r \in PeerSet /\ SameReceipts(p, r)
    BY DEF PeerSet, SameReceipts, Received
  <2>2. q \in PeerSet /\ SameReceipts(r, q) /\ PhasePinged(q) /\ KeptOpen(q)
    <3> HIDE DEF r
    <3> QED BY <2>1, PollEffect
  <2>3. SameReceipts(p, q)
    <3> HIDE DEF r, q
    <3> QED BY <2>1, <2>2 DEF SameReceipts
  <2>4. RestartIf(p, restart) = q
    BY <1>1 DEF RestartIf, RestartPeerCommunicationEstablishment
  <2> QED BY <2>2, <2>3, <2>4
<1>2. CASE ~restart
  <2>1. RestartIf(p, restart) = p
    BY <1>2 DEF RestartIf
  <2>2. SameReceipts(p, p)
    BY DEF SameReceipts
  <2> QED BY <1>2, <2>1, <2>2
<1> QED BY <1>1, <1>2

(* A new address brings no receipts.                                       *)
LEMMA SetEndpointEffect ==
  ASSUME NEW p \in PeerSet, NEW kind \in {"private", "public"},
         NEW name \in Addresses
  PROVE  SetEndpoint(p, kind, name) \in PeerSet
           /\ FewerReceipts(p, SetEndpoint(p, kind, name))
<1> DEFINE q == SetEndpoint(p, kind, name)
           old == p.endpoint[kind]
           other == p.endpoint["ping"]
           new == [Forgotten(old) EXCEPT !.endpointName = name]
<1>1. CASE old.endpointName = name
  BY <1>1 DEF SetEndpoint, FewerReceipts
<1>2. CASE old.endpointName # name
  <2>1. p.endpoint \in [Kinds -> EndpointSet] /\ kind \in Kinds /\ "ping" \in Kinds
          /\ kind # "ping"
    BY DEF PeerSet, Kinds
  <2>2. old \in EndpointSet /\ other \in EndpointSet
    BY <2>1
  <2>3. new \in EndpointSet /\ ~new.pingReceived
    BY <2>2 DEF Forgotten, EndpointSet
  <2>4. Forgotten(other) \in EndpointSet /\ ~Forgotten(other).pingReceived
    BY <2>2 DEF Forgotten, EndpointSet
  <2>5. q = [p EXCEPT !.endpoint[kind] = new, !.endpoint["ping"] = Forgotten(@)]
    BY <1>2 DEF SetEndpoint
  <2>6. q = [p EXCEPT !.endpoint[kind] = new, !.endpoint["ping"] = Forgotten(other)]
    BY <2>1, <2>5
  <2> HIDE DEF new, q
  <2>7. q.endpoint = [p.endpoint EXCEPT ![kind] = new, !["ping"] = Forgotten(other)]
    BY <2>6 DEF PeerSet
  <2>8. /\ q.endpoint \in [Kinds -> EndpointSet]
        /\ ~q.endpoint[kind].pingReceived /\ ~q.endpoint["ping"].pingReceived
        /\ \A k \in Kinds \ {kind, "ping"} : q.endpoint[k] = p.endpoint[k]
    BY <2>1, <2>3, <2>4, <2>7
  <2>9. q \in PeerSet /\ q.heardByServer = p.heardByServer
    BY <2>6, <2>8 DEF PeerSet
  <2>10. FewerReceipts(p, q)
    BY <2>8, <2>9 DEF FewerReceipts, Received
  <2> QED BY <2>9, <2>10 DEF q
<1> QED BY <1>1, <1>2

(* A packet that is forwarded keeps the endpoint it goes to open.          *)
LEMMA ForwardedEffect ==
  ASSUME NEW p \in PeerSet, now \in Int, PhasePinged(p)
  PROVE  LET q == Forwarded(p) IN
         /\ q \in PeerSet
         /\ SameReceipts(p, q)
         /\ PhasePinged(q)
         /\ KeptOpen(p) => KeptOpen(q)
<1> DEFINE used == SelectEndpoint(p)
           e == p.endpoint[used]
           f == [e EXCEPT !.forwardedPackets = TRUE, !.lastPacketForwardTime = now]
           q == Forwarded(p)
<1>1. CASE Received(p) = {}
  BY <1>1 DEF Forwarded, SameReceipts
<1>2. CASE Received(p) # {}
  <2>1. used \in Kinds /\ p.endpoint \in [Kinds -> EndpointSet] /\ e \in EndpointSet
    BY DEF SelectEndpoint, Kinds, PeerSet
  <2>2. /\ f \in EndpointSet
        /\ f.endpointName = e.endpointName /\ f.pingReceived = e.pingReceived
        /\ f.lastPingReceiveTime = e.lastPingReceiveTime
        /\ f.sentPings = e.sentPings /\ f.lastPingSendTime = e.lastPingSendTime
        /\ f.forwardedPackets /\ f.lastPacketForwardTime = now
    BY <2>1 DEF EndpointSet
  <2>3. q = [p EXCEPT !.endpoint[used] = f]
    BY <1>2, <2>1 DEF Forwarded
  <2>4. \A r : Received(r) = Received(p) => SelectEndpoint(r) = used
    BY DEF SelectEndpoint
  <2> HIDE DEF f, q
  <2>5. /\ q.endpoint = [p.endpoint EXCEPT ![used] = f]
        /\ q.heardByServer = p.heardByServer
        /\ q.pingPeriodCount = p.pingPeriodCount
        /\ q.lastPingPeriodTime = p.lastPingPeriodTime
    BY <2>3 DEF PeerSet
  <2>6. /\ q.endpoint[used] = f
        /\ \A k \in Kinds \ {used} : q.endpoint[k] = p.endpoint[k]
    BY <2>1, <2>5
  <2>7. q \in PeerSet
    BY <2>1, <2>2, <2>3, <2>5 DEF PeerSet
  <2>8. Received(q) = Received(p)
    BY <2>2, <2>6 DEF Received
  <2>9. SameReceipts(p, q)
    <3> HIDE DEF used
    <3> QED BY <2>2, <2>5, <2>6, <2>8 DEF SameReceipts
  <2>10. \A k \in Kinds : /\ q.endpoint[k].sentPings = p.endpoint[k].sentPings
                          /\ q.endpoint[k].lastPingSendTime = p.endpoint[k].lastPingSendTime
    <3> HIDE DEF used
    <3> QED BY <2>2, <2>6
  <2>11. PhasePinged(q)
    BY <2>5, <2>8, <2>10 DEF PhasePinged, Received
  <2>12. ASSUME KeptOpen(p) PROVE KeptOpen(q)
    <3>1. e.sentPings /\ now - e.lastPingSendTime < ACTIVE_PING_PERIOD_SECONDS
      BY <1>2, <2>12 DEF KeptOpen, EndpointKeptOpen
    <3>2. f.lastPingSendTime = e.lastPingSendTime /\ f.sentPings
      BY <2>2, <3>1
    <3>3. now - f.lastPingSendTime < ACTIVE_PING_PERIOD_SECONDS
      BY <3>1, <3>2
    <3>4. now - f.lastPacketForwardTime < IDLE_PING_PERIOD_SECONDS
      <4>1. f.lastPacketForwardTime = now
        BY <2>2
      <4> QED BY <4>1
    <3>5. EndpointKeptOpen(f)
      BY <2>2, <3>2, <3>3, <3>4 DEF EndpointKeptOpen
    <3> QED BY <2>4, <2>6, <2>8, <3>5 DEF KeptOpen
  <2> QED BY <2>7, <2>9, <2>11, <2>12 DEF q
<1> QED BY <1>1, <1>2

(* A peer whose record of received pings did not change keeps what the     *)
(* invariant says of it.                                                   *)
LEMMA SameReceiptsKeep ==
  ASSUME NEW p, NEW q, NEW from, NEW last, SameReceipts(p, q)
  PROVE  /\ FromPinged(p, from) => FromPinged(q, from)
         /\ Remembers(p, last) => Remembers(q, last)
<1>1. Received(p) = Received(q) /\ Received(q) \subseteq Kinds
  BY DEF SameReceipts, Received
<1>2. FromPinged(p, from) => FromPinged(q, from)
  BY <1>1 DEF SameReceipts, FromPinged
<1>3. Remembers(p, last) => Remembers(q, last)
  BY <1>1 DEF SameReceipts, Remembers
<1> QED BY <1>2, <1>3

(* A ping counts for one endpoint, and as a sign of life now.              *)
LEMMA PingEffect ==
  ASSUME NEW p \in PeerSet, NEW from \in Addresses, now \in Int,
         NEW last \in Int, last =< now,
         NEW known \in SUBSET Addresses, Regular(p, known, last)
  PROVE  LET kind == PingKind(p, from)
             e == p.endpoint[kind]
             heard == [p EXCEPT !.endpoint[kind] =
                         [@ EXCEPT !.endpointName = from, !.pingReceived = TRUE,
                                   !.lastPingReceiveTime = now]]
             q == RestartIf(heard, ~e.pingReceived \/ e.endpointName # from)
         IN /\ q \in PeerSet
            /\ Regular(q, known \cup {from}, now)
            /\ KeptOpen(p) => KeptOpen(q)
<1> DEFINE kind == PingKind(p, from)
           e == p.endpoint[kind]
           h == [e EXCEPT !.endpointName = from, !.pingReceived = TRUE,
                          !.lastPingReceiveTime = now]
           heard == [p EXCEPT !.endpoint[kind] =
                       [@ EXCEPT !.endpointName = from, !.pingReceived = TRUE,
                                 !.lastPingReceiveTime = now]]
           restart == ~e.pingReceived \/ e.endpointName # from
           q == RestartIf(heard, restart)
<1>1. kind \in Kinds /\ p.endpoint \in [Kinds -> EndpointSet] /\ e \in EndpointSet
  BY DEF PingKind, Kinds, PeerSet
<1>2. /\ h \in EndpointSet
      /\ h.endpointName = from /\ h.pingReceived /\ h.lastPingReceiveTime = now
      /\ h.sentPings = e.sentPings /\ h.lastPingSendTime = e.lastPingSendTime
      /\ h.forwardedPackets = e.forwardedPackets
      /\ h.lastPacketForwardTime = e.lastPacketForwardTime
  BY <1>1 DEF EndpointSet
<1>3. heard = [p EXCEPT !.endpoint[kind] = h]
  BY <1>1
<1>4. restart \in BOOLEAN
  OBVIOUS
<1>5. PhasePinged(p) /\ FromPinged(p, known) /\ Remembers(p, last)
  BY DEF Regular
<1>6. ~restart => e.pingReceived
  OBVIOUS
<1> HIDE DEF h, heard, restart, q
<1>7. /\ heard.endpoint = [p.endpoint EXCEPT ![kind] = h]
      /\ heard.heardByServer = p.heardByServer
      /\ heard.pingPeriodCount = p.pingPeriodCount
      /\ heard.lastPingPeriodTime = p.lastPingPeriodTime
  BY <1>3 DEF PeerSet
<1>8. /\ heard.endpoint[kind] = h
      /\ \A k \in Kinds \ {kind} : heard.endpoint[k] = p.endpoint[k]
  BY <1>1, <1>7
<1>9. heard \in PeerSet
  BY <1>1, <1>2, <1>3, <1>7 DEF PeerSet
<1> HIDE DEF kind
<1>10. Received(heard) = Received(p) \cup {kind}
  BY <1>1, <1>2, <1>8 DEF Received
<1>11. \A k \in Kinds : /\ heard.endpoint[k].sentPings = p.endpoint[k].sentPings
                        /\ heard.endpoint[k].lastPingSendTime = p.endpoint[k].lastPingSendTime
                        /\ heard.endpoint[k].forwardedPackets = p.endpoint[k].forwardedPackets
                        /\ heard.endpoint[k].lastPacketForwardTime
                              = p.endpoint[k].lastPacketForwardTime
  BY <1>2, <1>8
<1>12. ~restart => Received(heard) = Received(p)
  BY <1>1, <1>6, <1>10 DEF Received
<1>13. restart \/ PhasePinged(heard)
  BY <1>5, <1>7, <1>11, <1>12 DEF PhasePinged, Received
<1>14. ~restart /\ KeptOpen(p) => KeptOpen(heard)
  <2> SUFFICES ASSUME ~restart, KeptOpen(p) PROVE KeptOpen(heard)
    OBVIOUS
  <2>1. Received(heard) = Received(p) /\ SelectEndpoint(heard) = SelectEndpoint(p)
          /\ SelectEndpoint(p) \in Kinds
    BY <1>12 DEF SelectEndpoint, Kinds
  <2> QED BY <1>11, <2>1 DEF KeptOpen, EndpointKeptOpen
<1>15. FromPinged(heard, known \cup {from})
  BY <1>2, <1>5, <1>8, <1>10 DEF FromPinged, Received
<1>16. Remembers(heard, now)
  <2>1. heard.heardByServer =< now
    BY <1>5, <1>7 DEF Remembers, PeerSet
  <2>2. \A k \in Received(heard) : heard.endpoint[k].lastPingReceiveTime =< now
    <3> TAKE k \in Received(heard)
    <3>1. CASE k = kind
      BY <1>2, <1>8, <3>1
    <3>2. CASE k # kind
      <4>1. k \in Received(p) /\ k \in Kinds /\ heard.endpoint[k] = p.endpoint[k]
        BY <1>8, <1>10, <3>2 DEF Received
      <4>2. p.endpoint[k].lastPingReceiveTime =< last
        BY <1>5, <4>1 DEF Remembers
      <4>3. p.endpoint[k].lastPingReceiveTime \in Int
        BY <1>1, <4>1 DEF EndpointSet
      <4> QED BY <4>1, <4>2, <4>3
    <3> QED BY <3>1, <3>2
  <2>3. kind \in Received(heard) /\ heard.endpoint[kind].lastPingReceiveTime >= now - MaxSeconds
    BY <1>2, <1>8, <1>10
  <2> QED BY <2>1, <2>2, <2>3 DEF Remembers
<1>17. /\ q \in PeerSet /\ SameReceipts(heard, q) /\ PhasePinged(q)
       /\ restart \/ KeptOpen(heard) => KeptOpen(q)
  BY <1>4, <1>9, <1>13, RestartEffect DEF q
<1>18. Regular(q, known \cup {from}, now)
  BY <1>15, <1>16, <1>17, SameReceiptsKeep DEF Regular
<1>19. KeptOpen(p) => KeptOpen(q)
  BY <1>14, <1>17
<1> QED BY <1>17, <1>18, <1>19 DEF q, heard, restart, kind

(* What the server tells counts from when it heard of the peer itself.     *)
LEMMA InfoEffect ==
  ASSUME NEW p \in PeerSet, NEW private \in Addresses, NEW public \in Addresses,
         now \in Int, NEW seconds \in 0 .. MaxSeconds, NEW restart \in BOOLEAN,
         NEW last \in Int, NEW known,
         last =< now, now - seconds =< last,
         FromPinged(p, known),
         \A k \in Received(p) : p.endpoint[k].lastPingReceiveTime =< last,
         restart \/ PhasePinged(p),
         ~restart => SetEndpoint(SetEndpoint(p, "private", private), "public", public) = p
  PROVE  LET moved == SetEndpoint(SetEndpoint(p, "private", private), "public", public)
             q == RestartIf([moved EXCEPT !.heardByServer = now - seconds], restart)
         IN /\ q \in PeerSet
            /\ Regular(q, known, last)
            /\ restart \/ KeptOpen(p) => KeptOpen(q)
<1> DEFINE m == SetEndpoint(p, "private", private)
           moved == SetEndpoint(m, "public", public)
           heard == [moved EXCEPT !.heardByServer = now - seconds]
           q == RestartIf(heard, restart)
<1>1. m \in PeerSet /\ FewerReceipts(p, m)
  BY SetEndpointEffect
<1>2. moved \in PeerSet /\ FewerReceipts(m, moved)
  <2> HIDE DEF m
  <2> QED BY <1>1, SetEndpointEffect
<1> HIDE DEF m, moved
<1>3. /\ heard \in PeerSet /\ heard.endpoint = moved.endpoint
      /\ heard.pingPeriodCount = moved.pingPeriodCount
      /\ heard.lastPingPeriodTime = moved.lastPingPeriodTime
      /\ heard.heardByServer = now - seconds
  BY <1>2 DEF PeerSet
<1> HIDE DEF heard
<1>4. Received(heard) = Received(moved)
  BY <1>3 DEF Received
<1>5. FromPinged(heard, known)
  BY <1>1, <1>2, <1>3, <1>4 DEF FewerReceipts, FromPinged
<1>6. \A k \in Received(heard) : heard.endpoint[k].lastPingReceiveTime =< last
  BY <1>1, <1>2, <1>3, <1>4 DEF FewerReceipts
<1>7. heard.heardByServer =< last /\ heard.heardByServer >= last - MaxSeconds
  BY <1>3
<1>8. Remembers(heard, last)
  BY <1>6, <1>7 DEF Remembers
<1>9. ~restart => moved = p
  BY DEF moved, m
<1>10. restart \/ PhasePinged(heard)
  BY <1>3, <1>4, <1>9 DEF PhasePinged
<1>11. ~restart /\ KeptOpen(p) => KeptOpen(heard)
  BY <1>3, <1>4, <1>9 DEF KeptOpen, SelectEndpoint
<1>12. /\ q \in PeerSet /\ SameReceipts(heard, q) /\ PhasePinged(q)
       /\ restart \/ KeptOpen(heard) => KeptOpen(q)
  BY <1>3, <1>10, RestartEffect
<1> HIDE DEF q
<1>13. Regular(q, known, last)
  BY <1>5, <1>8, <1>12, SameReceiptsKeep DEF Regular
<1>14. restart \/ KeptOpen(p) => KeptOpen(q)
  BY <1>11, <1>12
<1> QED BY <1>12, <1>13, <1>14 DEF q, heard, moved, m

(* In the beginning the table has no peers.                                *)
LEMMA InitInv == Init => IInv
<1> SUFFICES ASSUME Init PROVE IInv
  OBVIOUS
<1>1. TypeInv
  BY DEF Init, TypeInv
<1> QED BY <1>1 DEF Init, IInv

(* What the server tells of a user keeps the invariant.                    *)
LEMMA UserInfoInv ==
  ASSUME IInv, NEW u \in Users, user_info(u)
  PROVE  IInv'
<1> PICK private \in Addresses, public \in Addresses, seconds \in 0 .. MaxSeconds :
      LET known == u \in DOMAIN peers
          old == IF known THEN peers[u] ELSE Peer
          moved == SetEndpoint(SetEndpoint(old, "private", private), "public", public)
          heard == [moved EXCEPT !.heardByServer = now - seconds]
          new == RestartIf(heard, ~known \/ moved # old)
      IN /\ Arrives
         /\ peers' = [v \in DOMAIN peers \cup {u} |-> IF v = u THEN new ELSE peers[v]]
         /\ lastSign' = [lastSign EXCEPT ![u] = Later(u, now - seconds)]
         /\ pinged' = IF known THEN pinged ELSE [pinged EXCEPT ![u] = {}]
  BY DEF user_info
<1> DEFINE known == u \in DOMAIN peers
           old == IF known THEN peers[u] ELSE Peer
           moved == SetEndpoint(SetEndpoint(old, "private", private), "public", public)
           restart == ~known \/ moved # old
           new == RestartIf([moved EXCEPT !.heardByServer = now - seconds], restart)
           last == Later(u, now - seconds)
           from == IF known THEN pinged[u] ELSE {}
<1>1. /\ peers' = [v \in DOMAIN peers \cup {u} |-> IF v = u THEN new ELSE peers[v]]
      /\ lastSign' = [lastSign EXCEPT ![u] = last]
      /\ pinged' = IF known THEN pinged ELSE [pinged EXCEPT ![u] = {}]
      /\ now' = now /\ due' = due
  BY DEF Arrives
<1>2. /\ DOMAIN peers \subseteq Users /\ peers \in [DOMAIN peers -> PeerSet]
      /\ now \in Int /\ pinged \in [Users -> SUBSET Addresses]
      /\ lastSign \in [Users -> Int] /\ \A v \in Users : lastSign[v] =< now
      /\ \A v \in DOMAIN peers : PeerInv(v)
  BY DEF IInv, TypeInv
<1>3. /\ last \in Int /\ last =< now /\ now - seconds =< last /\ lastSign[u] =< last
  BY <1>2 DEF Later
<1>4. known => Regular(old, from, lastSign[u]) /\ old \in PeerSet
  BY <1>2 DEF PeerInv
<1>5. ~known => old \in PeerSet /\ Received(old) = {}
  BY DEF Peer, PeerSet, PeerEndpoint, EndpointSet, Received
<1>6. FromPinged(old, from)
  BY <1>4, <1>5 DEF FromPinged, Regular
<1>7. \A k \in Received(old) : old.endpoint[k].lastPingReceiveTime =< last
  <2> SUFFICES ASSUME known, NEW k \in Received(old)
               PROVE  old.endpoint[k].lastPingReceiveTime =< last
    BY <1>5
  <2>1. old.endpoint[k].lastPingReceiveTime =< lastSign[u]
    BY <1>4 DEF Regular, Remembers
  <2>2. old.endpoint[k].lastPingReceiveTime \in Int /\ lastSign[u] \in Int
    BY <1>2, <1>4 DEF PeerSet, EndpointSet, Received
  <2> QED BY <1>3, <2>1, <2>2
<1>8. restart \/ PhasePinged(old)
  BY <1>4 DEF Regular
<1>9. ~restart => moved = old
  OBVIOUS
<1>10. restart \in BOOLEAN /\ old \in PeerSet
  BY <1>4, <1>5
<1> HIDE DEF old, restart, last, from, known
<1>11. /\ new \in PeerSet
       /\ Regular(new, from, last)
       /\ restart \/ KeptOpen(old) => KeptOpen(new)
  BY <1>2, <1>3, <1>6, <1>7, <1>8, <1>9, <1>10, InfoEffect
<1>12. ~due => Settled(new, last)
  <2> SUFFICES ASSUME ~due PROVE Settled(new, last)
    OBVIOUS
  <2>1. restart \/ KeptOpen(old)
    BY <1>2 DEF PeerInv, Settled, restart, old, known
  <2>2. now - last =< PURGE_PEER_TIMEOUT_SECONDS
    BY <1>2, <1>3
  <2> QED BY <1>11, <2>1, <2>2 DEF Settled
<1> HIDE DEF new
<1>13. TypeInv'
  <2>1. DOMAIN peers' \subseteq Users /\ peers' \in [DOMAIN peers' -> PeerSet]
    BY <1>1, <1>2, <1>11
  <2>2. pinged' \in [Users -> SUBSET Addresses]
    BY <1>1, <1>2
  <2>3. lastSign' \in [Users -> Int] /\ \A v \in Users : lastSign'[v] =< now
    BY <1>1, <1>2, <1>3
  <2> QED BY <1>1, <1>2, <2>1, <2>2, <2>3 DEF TypeInv
<1>14. ASSUME NEW v \in DOMAIN peers' PROVE PeerInv(v)'
  <2>1. CASE v = u
    <3>1. peers'[v] = new /\ lastSign'[v] = last /\ pinged'[v] = from
      BY <1>1, <1>2, <2>1 DEF from
    <3> QED BY <1>1, <1>11, <1>12, <3>1
            DEF PeerInv, Regular, Settled, KeptOpen, EndpointKeptOpen,
                FromPinged, Remembers, PhasePinged
  <2>2. CASE v # u
    <3>1. v \in DOMAIN peers /\ peers'[v] = peers[v] /\ lastSign'[v] = lastSign[v]
            /\ pinged'[v] = pinged[v]
      BY <1>1, <1>2, <2>2
    <3> QED BY <1>1, <1>2, <3>1
            DEF PeerInv, Regular, Settled, KeptOpen, EndpointKeptOpen,
                FromPinged, Remembers, PhasePinged
  <2> QED BY <2>1, <2>2
<1> QED BY <1>13, <1>14 DEF IInv

(* A ping from a peer keeps the invariant.                                 *)
LEMMA PingInv ==
  ASSUME IInv, NEW u \in Users, ping(u)
  PROVE  IInv'
<1>1. /\ DOMAIN peers \subseteq Users /\ peers \in [DOMAIN peers -> PeerSet]
      /\ now \in Int /\ pinged \in [Users -> SUBSET Addresses]
      /\ lastSign \in [Users -> Int] /\ \A v \in Users : lastSign[v] =< now
      /\ \A v \in DOMAIN peers : PeerInv(v)
  BY DEF IInv, TypeInv
<1> PICK from \in Addresses :
      LET kind == PingKind(peers[u], from)
          e == peers[u].endpoint[kind]
          heard == [peers[u] EXCEPT !.endpoint[kind] =
                      [@ EXCEPT !.endpointName = from, !.pingReceived = TRUE,
                                !.lastPingReceiveTime = now]]
      IN /\ peers' = [peers EXCEPT ![u] =
                        RestartIf(heard, ~e.pingReceived \/ e.endpointName # from)]
         /\ pinged' = [pinged EXCEPT ![u] = @ \cup {from}]
  BY DEF ping
<1> DEFINE kind == PingKind(peers[u], from)
           e == peers[u].endpoint[kind]
           heard == [peers[u] EXCEPT !.endpoint[kind] =
                       [@ EXCEPT !.endpointName = from, !.pingReceived = TRUE,
                                 !.lastPingReceiveTime = now]]
           new == RestartIf(heard, ~e.pingReceived \/ e.endpointName # from)
<1>2. /\ u \in DOMAIN peers
      /\ peers' = [peers EXCEPT ![u] = new]
      /\ pinged' = [pinged EXCEPT ![u] = @ \cup {from}]
      /\ lastSign' = [lastSign EXCEPT ![u] = now]
      /\ now' = now /\ due' = due
  BY DEF ping, Arrives
<1>3. Regular(peers[u], pinged[u], lastSign[u]) /\ peers[u] \in PeerSet
  BY <1>1, <1>2 DEF PeerInv
<1>4. /\ new \in PeerSet
      /\ Regular(new, pinged[u] \cup {from}, now)
      /\ KeptOpen(peers[u]) => KeptOpen(new)
  BY <1>1, <1>3, PingEffect
<1> HIDE DEF new
<1>5. ~due => Settled(new, now)
  BY <1>1, <1>2, <1>4 DEF PeerInv, Settled
<1>6. TypeInv'
  <2>1. DOMAIN peers' \subseteq Users /\ peers' \in [DOMAIN peers' -> PeerSet]
    BY <1>1, <1>2, <1>4
  <2>2. pinged' \in [Users -> SUBSET Addresses]
    BY <1>1, <1>2
  <2>3. lastSign' \in [Users -> Int] /\ \A v \in Users : lastSign'[v] =< now
    BY <1>1, <1>2
  <2> QED BY <1>1, <1>2, <2>1, <2>2, <2>3 DEF TypeInv
<1>7. ASSUME NEW v \in DOMAIN peers' PROVE PeerInv(v)'
  <2>1. CASE v = u
    <3>1. peers'[v] = new /\ lastSign'[v] = now /\ pinged'[v] = pinged[u] \cup {from}
      BY <1>1, <1>2, <2>1
    <3>2. Regular(peers[v], pinged[v], lastSign[v])'
      BY <1>4, <3>1 DEF Regular, FromPinged, Remembers, PhasePinged
    <3>3. (~due => Settled(peers[v], lastSign[v]))'
      BY <1>2, <1>5, <3>1 DEF Settled, KeptOpen, EndpointKeptOpen
    <3> QED BY <3>2, <3>3, Zenon DEF PeerInv
  <2>2. CASE v # u
    <3>1. v \in DOMAIN peers /\ peers'[v] = peers[v] /\ lastSign'[v] = lastSign[v]
            /\ pinged'[v] = pinged[v]
      BY <1>1, <1>2, <2>2
    <3> QED BY <1>1, <1>2, <3>1
            DEF PeerInv, Regular, Settled, KeptOpen, EndpointKeptOpen,
                FromPinged, Remembers, PhasePinged
  <2> QED BY <2>1, <2>2
<1> QED BY <1>6, <1>7 DEF IInv

(* A packet to the peers keeps the invariant.                              *)
LEMMA ForwardInv ==
  ASSUME IInv, ForwardPacketToAllPeers
  PROVE  IInv'
<1>1. /\ DOMAIN peers \subseteq Users /\ peers \in [DOMAIN peers -> PeerSet]
      /\ now \in Int
      /\ \A v \in DOMAIN peers : PeerInv(v)
  BY DEF IInv, TypeInv
<1>2. /\ peers' = [v \in DOMAIN peers |-> Forwarded(peers[v])]
      /\ pinged' = pinged /\ lastSign' = lastSign /\ now' = now /\ due' = due
  BY DEF ForwardPacketToAllPeers, Arrives
<1>3. ASSUME NEW v \in DOMAIN peers
      PROVE  LET q == Forwarded(peers[v]) IN
             /\ q \in PeerSet
             /\ Regular(q, pinged[v], lastSign[v])
             /\ ~due => Settled(q, lastSign[v])
  <2> DEFINE q == Forwarded(peers[v])
  <2>1. peers[v] \in PeerSet /\ Regular(peers[v], pinged[v], lastSign[v])
          /\ (~due => Settled(peers[v], lastSign[v]))
    BY <1>1 DEF PeerInv
  <2>2. /\ q \in PeerSet /\ SameReceipts(peers[v], q) /\ PhasePinged(q)
        /\ KeptOpen(peers[v]) => KeptOpen(q)
    BY <1>1, <2>1, ForwardedEffect DEF Regular
  <2> HIDE DEF q
  <2>3. Regular(q, pinged[v], lastSign[v])
    BY <2>1, <2>2, SameReceiptsKeep DEF Regular
  <2> QED BY <2>1, <2>2, <2>3 DEF q, Settled
<1>4. TypeInv'
  BY <1>2, <1>3 DEF IInv, TypeInv
<1>5. ASSUME NEW v \in DOMAIN peers' PROVE PeerInv(v)'
  <2>1. v \in DOMAIN peers /\ peers'[v] = Forwarded(peers[v])
    BY <1>2
  <2> QED BY <1>2, <1>3, <2>1
          DEF PeerInv, Regular, Settled, KeptOpen, EndpointKeptOpen,
              FromPinged, Remembers, PhasePinged
<1> QED BY <1>4, <1>5 DEF IInv

(* The timer keeps the invariant.                                          *)
LEMMA TimerInv ==
  ASSUME IInv, TimerExpired
  PROVE  IInv'
<1>1. /\ DOMAIN peers \subseteq Users /\ peers \in [DOMAIN peers -> PeerSet]
      /\ now \in Int /\ lastSign \in [Users -> Int]
      /\ \A v \in DOMAIN peers : PeerInv(v)
  BY DEF IInv, TypeInv
<1>2. /\ peers' = [u \in {v \in DOMAIN peers : ~Purged(peers[v])} |->
                     PollPeerPingTimer(peers[u], FALSE)]
      /\ pinged' = pinged /\ lastSign' = lastSign /\ now' = now
  BY DEF TimerExpired
<1>3. ASSUME NEW v \in DOMAIN peers, ~Purged(peers[v])
      PROVE  LET q == PollPeerPingTimer(peers[v], FALSE) IN
             /\ q \in PeerSet
             /\ Regular(q, pinged[v], lastSign[v])
             /\ Settled(q, lastSign[v])
  <2> DEFINE p == peers[v]
             q == PollPeerPingTimer(p, FALSE)
  <2>1. p \in PeerSet /\ Regular(p, pinged[v], lastSign[v]) /\ lastSign[v] \in Int
    BY <1>1 DEF PeerInv
  <2>2. /\ q \in PeerSet /\ SameReceipts(p, q) /\ PhasePinged(q) /\ KeptOpen(q)
    BY <1>1, <2>1, PollEffect DEF Regular
  <2> HIDE DEF q
  <2>3. Regular(q, pinged[v], lastSign[v])
    BY <2>1, <2>2, SameReceiptsKeep DEF Regular
  <2>4. now - lastSign[v] =< PURGE_PEER_TIMEOUT_SECONDS
    <3>1. CASE now - p.heardByServer =< PURGE_PEER_TIMEOUT_SECONDS
      <4>1. p.heardByServer =< lastSign[v] /\ p.heardByServer \in Int
        BY <2>1 DEF Regular, Remembers, PeerSet
      <4> QED BY <1>1, <2>1, <3>1, <4>1
    <3>2. CASE HeardWithin(p, PURGE_PEER_TIMEOUT_SECONDS)
      <4>1. PICK k \in Received(p) :
              now - p.endpoint[k].lastPingReceiveTime =< PURGE_PEER_TIMEOUT_SECONDS
        BY <3>2 DEF HeardWithin
      <4>2. p.endpoint[k].lastPingReceiveTime =< lastSign[v]
        BY <2>1 DEF Regular, Remembers
      <4>3. p.endpoint[k].lastPingReceiveTime \in Int
        BY <2>1 DEF PeerSet, EndpointSet, Received
      <4> QED BY <1>1, <2>1, <4>1, <4>2, <4>3
    <3>3. now - p.heardByServer =< PURGE_PEER_TIMEOUT_SECONDS
            \/ HeardWithin(p, PURGE_PEER_TIMEOUT_SECONDS)
      <4>1. p.heardByServer \in Int
        BY <2>1 DEF PeerSet
      <4> QED BY <1>1, <1>3, <4>1 DEF Purged
    <3> QED BY <3>1, <3>2, <3>3
  <2> QED BY <2>2, <2>3, <2>4 DEF q, Settled
<1>4. TypeInv'
  BY <1>2, <1>3 DEF IInv, TypeInv
<1>5. ASSUME NEW v \in DOMAIN peers' PROVE PeerInv(v)'
  <2>1. v \in DOMAIN peers /\ ~Purged(peers[v])
          /\ peers'[v] = PollPeerPingTimer(peers[v], FALSE)
    BY <1>2
  <2> QED BY <1>2, <1>3, <2>1
          DEF PeerInv, Regular, Settled, KeptOpen, EndpointKeptOpen,
              FromPinged, Remembers, PhasePinged
<1> QED BY <1>4, <1>5 DEF IInv

(* A second that passes keeps the invariant.                               *)
LEMMA TickInv ==
  ASSUME IInv, Tick
  PROVE  IInv'
<1>1. /\ UNCHANGED <<peers, pinged, lastSign>> /\ now' = now + 1 /\ due' = TRUE
      /\ now \in Int
  BY DEF Tick, IInv, TypeInv
<1>2. TypeInv'
  BY <1>1 DEF IInv, TypeInv
<1>3. ASSUME NEW v \in DOMAIN peers' PROVE PeerInv(v)'
  <2>1. PeerInv(v)
    BY <1>1 DEF IInv
  <2>2. Regular(peers[v], pinged[v], lastSign[v])'
    BY <1>1, <2>1 DEF PeerInv, Regular, FromPinged, Remembers, PhasePinged, Received
  <2>3. due'
    BY <1>1
  <2> QED BY <2>2, <2>3, Zenon DEF PeerInv
<1> QED BY <1>2, <1>3 DEF IInv

(* Every step of the client keeps the invariant.                           *)
LEMMA StepInv == IInv /\ [Next]_vars => IInv'
<1> SUFFICES ASSUME IInv, [Next]_vars PROVE IInv'
  OBVIOUS
<1>1. ASSUME NEW u \in Users, user_info(u) PROVE IInv'
  BY <1>1, UserInfoInv
<1>2. ASSUME NEW u \in Users, ping(u) PROVE IInv'
  BY <1>2, PingInv
<1>3. CASE ForwardPacketToAllPeers
  BY <1>3, ForwardInv
<1>4. CASE TimerExpired
  BY <1>4, TimerInv
<1>5. CASE Tick
  BY <1>5, TickInv
<1>6. CASE UNCHANGED vars
  BY <1>6 DEF vars, IInv, TypeInv, PeerInv, Regular, Settled, KeptOpen,
              EndpointKeptOpen, FromPinged, Remembers, PhasePinged
<1> QED BY <1>1, <1>2, <1>3, <1>4, <1>5, <1>6 DEF Next

(* The inductive invariant holds in every reachable state.                 *)
THEOREM OscInvariant == Spec => []IInv
<1>1. Init => IInv
  BY InitInv
<1>2. IInv /\ [Next]_vars => IInv'
  BY StepInv
<1> QED BY <1>1, <1>2, PTL DEF Spec

(* SelectEndpoint: whatever addresses the server tells and in whatever     *)
(* order pings arrive, packets go to no address from which the peer did    *)
(* not ping.                                                               *)
THEOREM OscForwardsWherePinged == Spec => []ForwardsWherePinged
<1>1. IInv => ForwardsWherePinged
  <2> SUFFICES ASSUME IInv, NEW u \in Linked
               PROVE  InUse(u).endpointName \in pinged[u]
    BY DEF ForwardsWherePinged
  <2>1. u \in DOMAIN peers /\ Received(peers[u]) # {}
    BY DEF Linked
  <2>2. FromPinged(peers[u], pinged[u])
    BY <2>1 DEF IInv, PeerInv, Regular
  <2>3. SelectEndpoint(peers[u]) \in Received(peers[u])
    BY <2>1 DEF SelectEndpoint, Received, Kinds
  <2> QED BY <2>2, <2>3 DEF FromPinged, InUse
<1> QED BY <1>1, OscInvariant, PTL

(* PollPeerPingTimer: a link that is in use stays open, for all periods    *)
(* under PeriodAssumption.                                                 *)
THEOREM OscLinkKeptOpen == Spec => []LinkKeptOpen
<1>1. IInv => LinkKeptOpen
  <2> SUFFICES ASSUME IInv, ~due, NEW u \in Linked
               PROVE  EndpointKeptOpen(InUse(u))
    BY DEF LinkKeptOpen, EndpointKeptOpen
  <2>1. u \in DOMAIN peers /\ Received(peers[u]) # {}
    BY DEF Linked
  <2>2. KeptOpen(peers[u])
    BY <2>1 DEF IInv, PeerInv, Settled
  <2> QED BY <2>1, <2>2 DEF KeptOpen, InUse
<1> QED BY <1>1, OscInvariant, PTL

(* The loop at the end of TimerExpired: a peer of which neither the server *)
(* nor this client heard for the timeout is gone.                          *)
THEOREM OscSilentPeersGone == Spec => []SilentPeersGone
<1>1. IInv => SilentPeersGone
  BY DEF IInv, PeerInv, Settled, SilentPeersGone
<1> QED BY <1>1, OscInvariant, PTL

(* ... and no other peer is: forgetting the pings of an address that was   *)
(* replaced never removes a peer that is alive.                            *)
THEOREM OscPurgedOnlyWhenSilent == Spec => PurgedOnlyWhenSilent
<1>1. IInv /\ [Next]_vars => [PurgesOnlyTheSilent]_vars
  <2> SUFFICES ASSUME IInv, [Next]_vars PROVE [PurgesOnlyTheSilent]_vars
    OBVIOUS
  <2>1. CASE TimerExpired
    <3> SUFFICES ASSUME NEW u \in DOMAIN peers, u \notin DOMAIN peers'
                 PROVE  now - lastSign[u] > PURGE_PEER_TIMEOUT_SECONDS - MaxSeconds
      BY DEF PurgesOnlyTheSilent
    <3> DEFINE p == peers[u]
               last == lastSign[u]
    <3>1. Purged(p)
      BY <2>1 DEF TimerExpired
    <3>2. p \in PeerSet /\ last \in Int /\ now \in Int /\ Remembers(p, last)
      BY DEF IInv, TypeInv, PeerInv, Regular
    <3> HIDE DEF p, last
    <3>3. CASE p.heardByServer >= last - MaxSeconds
      <4>1. now - p.heardByServer > PURGE_PEER_TIMEOUT_SECONDS
        BY <3>1 DEF Purged
      <4>2. p.heardByServer \in Int
        BY <3>2 DEF PeerSet
      <4> QED BY <3>2, <3>3, <4>1, <4>2 DEF last
    <3>4. CASE \E k \in Received(p) :
                  p.endpoint[k].lastPingReceiveTime >= last - MaxSeconds
      <4>1. PICK k \in Received(p) :
                  p.endpoint[k].lastPingReceiveTime >= last - MaxSeconds
        BY <3>4
      <4>2. ~(now - p.endpoint[k].lastPingReceiveTime =< PURGE_PEER_TIMEOUT_SECONDS)
        BY <3>1 DEF Purged, HeardWithin
      <4>3. p.endpoint[k].lastPingReceiveTime \in Int
        BY <3>2 DEF PeerSet, EndpointSet, Received
      <4> QED BY <3>2, <4>1, <4>2, <4>3 DEF last
    <3> QED BY <3>2, <3>3, <3>4 DEF Remembers
  <2>2. CASE DOMAIN peers \subseteq DOMAIN peers'
    BY <2>2 DEF PurgesOnlyTheSilent
  <2>3. TimerExpired \/ DOMAIN peers \subseteq DOMAIN peers'
    <3>1. ASSUME NEW u \in Users, user_info(u) PROVE DOMAIN peers \subseteq DOMAIN peers'
      BY <3>1 DEF user_info
    <3>2. ASSUME NEW u \in Users, ping(u) PROVE DOMAIN peers \subseteq DOMAIN peers'
      BY <3>2 DEF ping
    <3>3. CASE ForwardPacketToAllPeers
      BY <3>3 DEF ForwardPacketToAllPeers
    <3>4. CASE Tick \/ UNCHANGED vars
      BY <3>4 DEF Tick, vars
    <3> QED BY <3>1, <3>2, <3>3, <3>4 DEF Next
  <2> QED BY <2>1, <2>2, <2>3
<1> QED BY <1>1, OscInvariant, PTL DEF Spec, PurgedOnlyWhenSilent
=============================================================================
