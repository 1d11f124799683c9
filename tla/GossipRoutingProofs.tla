------------------------- MODULE GossipRoutingProofs -------------------------
(***************************************************************************)
(* GossipRouting's type invariant, the absence of forwarding cycles and    *)
(* the bound on a request's path, for every federation, every clock skew   *)
(* and every bound on the number of steps.                                 *)
(***************************************************************************)
EXTENDS GossipRouting, WellFoundedInduction, TLAPS

\* Adding a set of envelopes to the bag in flight keeps it a bag.
LEMMA BagAdd ==
    ASSUME NEW B, NEW S, IsABag(B)
    PROVE  /\ IsABag(B (+) SetToBag(S))
           /\ BagToSet(B (+) SetToBag(S)) = BagToSet(B) \cup S
BY DEF IsABag, BagToSet, SetToBag, (+)

\* Taking envelopes out of the bag in flight adds none.
LEMMA BagRemove ==
    ASSUME NEW B, NEW S, IsABag(B)
    PROVE  /\ IsABag(B (-) SetToBag(S))
           /\ BagToSet(B (-) SetToBag(S)) \subseteq BagToSet(B)
BY DEF IsABag, BagToSet, SetToBag, (-)

\* The envelopes of a lost connection disappear and the rest stay.
LEMMA BagRestrict ==
    ASSUME NEW B, NEW l, IsABag(B)
    PROVE  LET R == [m \in {x \in DOMAIN B : x.link # l} |-> B[m]]
           IN  IsABag(R) /\ BagToSet(R) \subseteq BagToSet(B)
BY DEF IsABag, BagToSet

\* What BroadcastGossipUpdate adds to a bag of envelopes: well formed copies of
\* one announcement.
LEMMA BroadcastBag ==
    ASSUME TypeOK, NEW B, IsABag(B), NEW r \in Relays, NEW p \in Peers,
           NEW s \in Relays, NEW ts \in Nat \ {0}
    PROVE  /\ IsABag(B (+) BroadcastGossipUpdate(r, p, s, ts))
           /\ \A m \in BagToSet(B (+) BroadcastGossipUpdate(r, p, s, ts)) :
                 \/ m \in BagToSet(B)
                 \/ m \in Update /\ m.fp = p /\ m.relay = s /\ m.ts = ts
<1> DEFINE S == {[link |-> l, to |-> OtherEnd(l, r), fp |-> p, relay |-> s, ts |-> ts] :
                 l \in neighbors[r]}
<1>1. B (+) BroadcastGossipUpdate(r, p, s, ts) = B (+) SetToBag(S)
  BY DEF BroadcastGossipUpdate
<1>2. \A l \in neighbors[r] : l \in Link /\ OtherEnd(l, r) \in Relays
  BY DEF TypeOK, Link, OtherEnd
<1>3. \A m \in S : m \in Update /\ m.fp = p /\ m.relay = s /\ m.ts = ts
  BY <1>2 DEF Update
<1> HIDE DEF S
<1>4. IsABag(B (+) SetToBag(S)) /\ BagToSet(B (+) SetToBag(S)) = BagToSet(B) \cup S
  BY BagAdd
<1> QED
  BY <1>1, <1>3, <1>4

\* The relay a running request has reached, and the entry it is forwarded by.
LEMMA HopType ==
    ASSUME TypeOK, NEW q \in Requests, status[q] # "idle"
    PROVE  /\ Here(q) \in Relays /\ target[q] \in Peers
           /\ Forwards(Here(q), target[q]) => routing[Here(q)][target[q]] \in Hop \cap Entry
<1>1. hops[q] \in Seq(Hop) /\ Len(hops[q]) > 0 /\ target[q] \in Peers
  BY DEF TypeOK
<1>2. hops[q][Len(hops[q])] \in Hop
  BY <1>1
<1>3. Here(q) \in Relays
  BY <1>2 DEF Here, Hop
<1>4. routing[Here(q)][target[q]] \in Entry \cup {NoRoute}
  BY <1>1, <1>3 DEF TypeOK
<1>5. Entry \subseteq Hop
  BY DEF Entry, Hop
<1> QED
  BY <1>1, <1>3, <1>4, <1>5, Zenon DEF Forwards

\* Every step of the federation keeps the state well typed.
LEMMA TypeStep == TypeOK /\ [Next]_vars => TypeOK'
<1> SUFFICES ASSUME TypeOK, [Next]_vars PROVE TypeOK'
  OBVIOUS
<1> USE DEF timeVars, linkVars, peerVars, reqVars
<1>1. ASSUME NEW r \in Relays, NEW p \in Peers, Announce(r, p) PROVE TypeOK'
  <2>0. PICK ts \in UnixNano(r) : Announce(r, p)!3!(ts)
    BY <1>1, Zenon DEF Announce
  <2>1. ts \in Nat \ {0} /\ now + 1 \in Nat \ {0}
    BY <2>0, RoutingAssumption DEF TypeOK, UnixNano
  <2>2. IsABag(gossip') /\ BagToSet(gossip') \subseteq Update
    BY <2>0, <2>1, BroadcastBag DEF TypeOK
  <2>3. [relay |-> r, ts |-> ts] \in Entry
    BY <2>1, Zenon DEF Entry
  <2>4. /\ clock' \in [Relays -> Nat]
        /\ routing' \in [Relays -> [Peers -> Entry \cup {NoRoute}]]
        /\ announced' \in [Relays -> [Peers -> Nat]]
        /\ latest' \in [Peers -> Entry \cup {NoRoute}]
    BY <2>0, <2>1, <2>3, Zenon DEF TypeOK
  <2>5. /\ active' \in [Relays -> [Peers -> Nat]]
        /\ controls' \subseteq Relays \X Peers \X (Nat \ {0})
    BY <1>1, <2>1 DEF TypeOK, Announce
  <2> QED
    BY <1>1, <2>1, <2>2, <2>4, <2>5, Zenon DEF TypeOK, Announce
<1>2. ASSUME NEW c \in controls, HandleAnnounce(c) \/ ControlLoopEnds(c) PROVE TypeOK'
  <2>1. c[1] \in Relays /\ c[2] \in Peers /\ c[3] \in Nat
    BY DEF TypeOK
  <2>2. active \in [Relays -> [Peers -> Nat]]
    BY DEF TypeOK
  <2>3. active' \in [Relays -> [Peers -> Nat]] /\ controls' \subseteq controls
    BY <1>2, <2>1, <2>2 DEF HandleAnnounce, ControlLoopEnds
  <2> QED
    BY <1>2, <2>3, Zenon DEF TypeOK, HandleAnnounce, ControlLoopEnds
<1>3. ASSUME NEW m \in BagToSet(gossip), ProcessGossipUpdate(m) PROVE TypeOK'
  <2> DEFINE rest == gossip (-) SetToBag({m})
  <2>1. IsABag(rest) /\ BagToSet(rest) \subseteq BagToSet(gossip)
    BY BagRemove DEF TypeOK
  <2>2. m \in Update
    BY DEF TypeOK
  <2>3. /\ [relay |-> m.relay, ts |-> m.ts] \in Entry
        /\ m.to \in Relays /\ m.fp \in Peers /\ m.relay \in Relays /\ m.ts \in Nat \ {0}
    BY <2>2 DEF Update, Entry
  <2>4. IsABag(gossip') /\ BagToSet(gossip') \subseteq Update
    <3> HIDE DEF rest
    <3>1. \/ gossip' = rest
          \/ gossip' = rest (+) BroadcastGossipUpdate(m.to, m.fp, m.relay, m.ts)
      BY <1>3 DEF ProcessGossipUpdate, rest
    <3>2. BagToSet(gossip) \subseteq Update
      BY DEF TypeOK
    <3>3. CASE gossip' = rest (+) BroadcastGossipUpdate(m.to, m.fp, m.relay, m.ts)
      BY <2>1, <2>3, <3>2, <3>3, BroadcastBag, Zenon
    <3> QED
      BY <2>1, <3>1, <3>2, <3>3, Zenon
  <2>5. routing' \in [Relays -> [Peers -> Entry \cup {NoRoute}]]
    <3>1. routing \in [Relays -> [Peers -> Entry \cup {NoRoute}]]
      BY DEF TypeOK
    <3> QED
      BY <1>3, <2>3, <3>1 DEF ProcessGossipUpdate
  <2> QED
    BY <1>3, <2>4, <2>5, Zenon DEF TypeOK, ProcessGossipUpdate
<1>4. ASSUME NEW l \in Link, ConnectToNeighbor(l) PROVE TypeOK'
  BY <1>4 DEF TypeOK, ConnectToNeighbor
<1>5. ASSUME NEW l \in Link, NeighborConnEnds(l) PROVE TypeOK'
  <2>1. IsABag(gossip') /\ BagToSet(gossip') \subseteq BagToSet(gossip)
    BY <1>5, BagRestrict, Zenon DEF TypeOK, NeighborConnEnds
  <2>2. neighbors' \in [Relays -> SUBSET Link]
    BY <1>5, Zenon DEF TypeOK, NeighborConnEnds
  <2>3. BagToSet(gossip') \subseteq Update
    BY <2>1 DEF TypeOK
  <2>5. open' \subseteq Link /\ downs' \in Nat
    BY <1>5 DEF TypeOK, NeighborConnEnds
  <2>4. UNCHANGED <<timeVars, peerVars, dials, routing, reqVars>>
    BY <1>5, Zenon DEF NeighborConnEnds
  <2> QED
    BY <2>1, <2>2, <2>3, <2>4, <2>5, Zenon DEF TypeOK
<1>6. ASSUME NEW l \in Link, NEW r \in Relays, RegisterNeighbor(r, l) PROVE TypeOK'
  BY <1>6, Zenon DEF TypeOK, RegisterNeighbor
<1>7. ASSUME NEW q \in Requests, NEW r \in Relays, RelayReq(q, r) PROVE TypeOK'
  <2> DEFINE h == <<[relay |-> r, ts |-> 0]>>
  <2>1. h \in Seq(Hop) /\ Len(h) > 0
    BY DEF Hop
  <2>2. /\ hops \in [Requests -> Seq(Hop)] /\ status \in [Requests -> Status]
        /\ \A x \in Requests : status[x] # "idle" => Len(hops[x]) > 0
    BY DEF TypeOK
  <2>3. /\ hops' = [hops EXCEPT ![q] = h]
        /\ status' = [status EXCEPT ![q] = "routing"]
        /\ UNCHANGED <<timeVars, linkVars, peerVars, target, routing, gossip>>
    BY <1>7 DEF RelayReq
  <2> HIDE DEF h
  <2>4. /\ hops' \in [Requests -> Seq(Hop)] /\ status' \in [Requests -> Status]
        /\ \A x \in Requests : status'[x] # "idle" => Len(hops'[x]) > 0
    BY <2>1, <2>2, <2>3, Zenon DEF Status
  <2> QED
    BY <2>3, <2>4, Zenon DEF TypeOK
<1>8. ASSUME NEW q \in Requests, HandleRelayReq(q) PROVE TypeOK'
  <2>1. /\ hops \in [Requests -> Seq(Hop)] /\ status \in [Requests -> Status]
        /\ \A x \in Requests : status[x] # "idle" => Len(hops[x]) > 0
        /\ status[q] # "idle"
    BY <1>8, Zenon DEF TypeOK, HandleRelayReq
  <2>2. /\ hops' \in [Requests -> Seq(Hop)] /\ status' \in [Requests -> Status]
        /\ \A x \in Requests : status'[x] # "idle" => Len(hops'[x]) > 0
    <3> DEFINE e == routing[Here(q)][target[q]]
    <3>1. CASE e \in Hop /\ hops' = [hops EXCEPT ![q] = Append(@, e)] /\ UNCHANGED status
      <4> HIDE DEF e
      <4> QED
        BY <2>1, <3>1
    <3>2. CASE UNCHANGED hops /\ \E st \in Status \ {"idle"} : status' = [status EXCEPT ![q] = st]
      BY <2>1, <3>2, Zenon
    <3> QED
      BY <1>8, <2>1, <3>1, <3>2, HopType, Zenon DEF HandleRelayReq, Status
  <2>3. UNCHANGED <<timeVars, linkVars, peerVars, target, routing, gossip>>
    BY <1>8, Zenon DEF HandleRelayReq
  <2> QED
    BY <2>2, <2>3, Zenon DEF TypeOK
<1>9. ASSUME NEW q \in Requests, SetupExpires(q) PROVE TypeOK'
  BY <1>9, Zenon DEF TypeOK, SetupExpires, Status
<1>10. CASE UNCHANGED vars
  BY <1>10 DEF TypeOK, vars
<1> QED
  BY <1>1, <1>2, <1>3, <1>4, <1>5, <1>6, <1>7, <1>8, <1>9, <1>10, Zenon DEF Next, Gossip, Link

\* Every behaviour of the federation is well typed.
THEOREM TypeCorrect == Spec => []TypeOK
<1>1. Init => TypeOK
  <2> SUFFICES ASSUME Init PROVE TypeOK
    OBVIOUS
  <2>1. IsABag(gossip) /\ BagToSet(gossip) = {}
    BY DEF Init, EmptyBag, SetToBag, IsABag, BagToSet
  <2>2. neighbors \in [Relays -> SUBSET Link] /\ open \subseteq Link
    BY RoutingAssumption, Zenon DEF Init
  <2>3. hops \in [Requests -> Seq(Hop)]
    BY DEF Init
  <2> QED
    BY <2>1, <2>2, <2>3, Zenon DEF Init, TypeOK, Status
<1> QED
  BY <1>1, TypeStep, PTL DEF Spec

\* Every step keeps routing entries and envelopes no older than the last local
\* announcement and no newer than the announcement they stem from.
LEMMA RoutingStep == TypeOK /\ TypeOK' /\ RoutingInv /\ [Next]_vars => RoutingInv'
<1> SUFFICES ASSUME TypeOK, TypeOK', RoutingInv, [Next]_vars PROVE RoutingInv'
  OBVIOUS
<1> USE DEF timeVars, linkVars, peerVars, reqVars
<1>1. ASSUME NEW r \in Relays, NEW p \in Peers, Announce(r, p) PROVE RoutingInv'
  <2>0. PICK ts \in UnixNano(r) : Announce(r, p)!3!(ts)
    BY <1>1, Zenon DEF Announce
  <2>1. ts \in Nat \ {0} /\ now \in Nat /\ now' = now + 1 /\ ts <= now' + Skew /\ Skew \in Nat /\ ts >= clock[r]
    <3>1. now \in Nat /\ Skew \in Nat /\ now' = now + 1
      BY <1>1, RoutingAssumption, Zenon DEF TypeOK, Announce
    <3>2. ts \in (now + 1 - Skew) .. (now + 1 + Skew) /\ ts > 0 /\ ts >= clock[r]
      BY <2>0, Zenon DEF UnixNano
    <3> QED
      BY <3>1, <3>2
  <2>2. clock \in [Relays -> Nat] /\ announced \in [Relays -> [Peers -> Nat]]
        /\ routing \in [Relays -> [Peers -> Entry \cup {NoRoute}]]
        /\ IsABag(gossip)
    BY Zenon DEF TypeOK
  <2>7. announced' \in [Relays -> [Peers -> Nat]]
    BY Zenon DEF TypeOK
  <2>3. \A x \in Relays : clock'[x] <= now' + Skew
    BY <2>0, <2>1, <2>2 DEF RoutingInv
  <2>4. \A x \in Relays, y \in Peers : announced[x][y] <= announced'[x][y]
    BY <2>0, <2>1, <2>2 DEF RoutingInv, RouteOK
  <2>5. ASSUME NEW x \in Relays, NEW y \in Peers
        PROVE  RouteOK(x, y)'
    <3>1. CASE x = r /\ y = p
      <4>1. routing'[x][y] = [relay |-> r, ts |-> ts] /\ announced'[x][y] = ts /\ clock'[x] = ts
        BY <2>0, <2>2, <3>1, Zenon
      <4>2. routing'[x][y] # NoRoute
        BY <2>1, <4>1, RoutingAssumption DEF Entry
      <4> QED
        BY <2>1, <3>1, <4>1, <4>2 DEF RouteOK
    <3>2. CASE ~(x = r /\ y = p)
      <4>1. /\ routing'[x][y] = routing[x][y] /\ announced'[x][y] = announced[x][y]
            /\ clock[x] <= clock'[x]
        BY <2>0, <2>1, <2>2, <3>2
      <4>2. clock'[x] \in Nat /\ clock[x] \in Nat
        BY <2>0, <2>1, <2>2, Zenon
      <4>3. announced'[x][y] <= clock'[x]
        BY <2>2, <4>1, <4>2 DEF RoutingInv, RouteOK
      <4>4. CASE routing[x][y] # NoRoute
        <5>1. routing[x][y] \in Entry
          BY <2>2, <4>4, Zenon
        <5>2. /\ routing[x][y].relay \in Relays /\ routing[x][y].ts \in Nat
              /\ announced[routing[x][y].relay][y] \in Nat
              /\ announced'[routing[x][y].relay][y] \in Nat
          BY <5>1, <2>2, <2>7 DEF Entry
        <5>3. routing[x][y].ts <= announced'[routing[x][y].relay][y]
          BY <2>4, <4>4, <5>2 DEF RoutingInv, RouteOK
        <5> QED
          BY <4>1, <4>3, <4>4, <5>3, Zenon DEF RoutingInv, RouteOK
      <4> QED
        BY <4>1, <4>3, <4>4, Zenon DEF RoutingInv, RouteOK
    <3> QED
      BY <3>1, <3>2, Zenon
  <2>6. ASSUME NEW m \in BagToSet(gossip') PROVE m.ts <= announced'[m.relay][m.fp]
    <3>1. m \in BagToSet(gossip) \/ (m.fp = p /\ m.relay = r /\ m.ts = ts)
      BY <2>0, <2>1, <2>2, BroadcastBag
    <3>2. CASE m.fp = p /\ m.relay = r /\ m.ts = ts
      BY <2>0, <2>1, <2>2, <3>2
    <3>3. CASE m \in BagToSet(gossip)
      <4>1. m \in Update
        BY <3>3, Zenon DEF TypeOK
      <4>2. /\ m.relay \in Relays /\ m.fp \in Peers /\ m.ts \in Nat
            /\ announced[m.relay][m.fp] \in Nat /\ announced'[m.relay][m.fp] \in Nat
        BY <4>1, <2>2, <2>7 DEF Update
      <4> QED
        BY <2>4, <3>3, <4>2 DEF RoutingInv
    <3> QED
      BY <3>1, <3>2, <3>3, Zenon
  <2> QED
    BY <2>3, <2>5, <2>6, Zenon DEF RoutingInv
<1>2. ASSUME NEW m \in BagToSet(gossip), ProcessGossipUpdate(m) PROVE RoutingInv'
  <2>1. m \in Update /\ m.ts <= announced[m.relay][m.fp]
    BY DEF TypeOK, RoutingInv
  <2>2. /\ m.to \in Relays /\ m.fp \in Peers /\ m.relay \in Relays /\ m.ts \in Nat \ {0}
        /\ [relay |-> m.relay, ts |-> m.ts] \in Entry
    BY <2>1, Zenon DEF Update, Entry
  <2>3. UNCHANGED <<now, clock, announced>>
    BY <1>2, Zenon DEF ProcessGossipUpdate
  <2>4. /\ announced \in [Relays -> [Peers -> Nat]]
        /\ routing \in [Relays -> [Peers -> Entry \cup {NoRoute}]]
    BY DEF TypeOK
  <2>5. ASSUME NEW x \in Relays, NEW y \in Peers PROVE RouteOK(x, y)'
    <3>0. RouteOK(x, y)
      BY Zenon DEF RoutingInv
    <3>1. CASE x = m.to /\ y = m.fp /\ Supersedes(x, y, m.ts)
      <4>1. routing'[x][y] = [relay |-> m.relay, ts |-> m.ts]
        <5>1. routing' = [routing EXCEPT ![m.to][m.fp] = [relay |-> m.relay, ts |-> m.ts]]
          BY <1>2, <3>1, Zenon DEF ProcessGossipUpdate
        <5> QED
          BY <2>2, <2>4, <3>1, <5>1, Zenon
      <4>2. routing'[x][y] # NoRoute
        BY <2>2, <4>1, RoutingAssumption, Zenon
      <4>3. announced[x][y] < m.ts
        <5>1. CASE routing[x][y] = NoRoute
          <6>1. announced[x][y] = 0
            BY <3>0, <5>1, Zenon DEF RouteOK
          <6>2. 0 < m.ts
            BY <2>2
          <6> QED
            BY <6>1, <6>2, Zenon
        <5>2. CASE routing[x][y] # NoRoute
          <6>1. routing[x][y].ts \in Nat /\ announced[x][y] \in Nat
            BY <2>4, <5>2, Zenon DEF Entry
          <6>2. announced[x][y] <= routing[x][y].ts
            BY <3>0, <5>2, Zenon DEF RouteOK
          <6>3. routing[x][y].ts < m.ts
            BY <3>1, <5>2, Zenon DEF Supersedes
          <6> DEFINE t == routing[x][y].ts
                     u == m.ts
                     a == announced[x][y]
          <6>4. t \in Nat /\ u \in Nat /\ a \in Nat /\ a <= t /\ t < u
            BY <2>2, <6>1, <6>2, <6>3, Zenon
          <6> HIDE DEF t, u, a
          <6>5. a < u
            BY <6>4
          <6> QED
            BY <6>5, Zenon DEF a, u
        <5> QED
          BY <5>1, <5>2, Zenon
      <4> QED
        <5>1. routing'[x][y].relay = m.relay /\ routing'[x][y].ts = m.ts
          BY <4>1
        <5>2. announced[x][y] <= clock[x]
          BY <3>0, Zenon DEF RouteOK
        <5>3. announced[x][y] <= m.ts
          <6>1. announced[x][y] \in Nat /\ m.ts \in Nat
            BY <2>2, <2>4, Zenon
          <6> QED
            BY <4>3, <6>1
        <5>4. m.ts <= announced[m.relay][y]
          BY <2>1, <3>1, Zenon
        <5> QED
          BY <2>3, <4>2, <4>3, <5>1, <5>2, <5>3, <5>4, Zenon DEF RouteOK
    <3>2. CASE ~(x = m.to /\ y = m.fp /\ Supersedes(x, y, m.ts))
      <4>1. routing'[x][y] = routing[x][y]
        <5>1. CASE ~Supersedes(m.to, m.fp, m.ts)
          BY <1>2, <5>1, Zenon DEF ProcessGossipUpdate
        <5>2. CASE Supersedes(m.to, m.fp, m.ts)
          <6>1. routing' = [routing EXCEPT ![m.to][m.fp] = [relay |-> m.relay, ts |-> m.ts]]
            BY <1>2, <5>2, Zenon DEF ProcessGossipUpdate
          <6>2. ~(x = m.to /\ y = m.fp)
            BY <3>2, <5>2, Zenon
          <6> QED
            BY <2>2, <2>4, <6>1, <6>2, Zenon
        <5> QED
          BY <5>1, <5>2, Zenon
      <4> QED
        BY <2>3, <3>0, <4>1, Zenon DEF RouteOK
    <3> QED
      BY <3>1, <3>2, Zenon
  <2>6. ASSUME NEW n \in BagToSet(gossip') PROVE n.ts <= announced'[n.relay][n.fp]
    <3> DEFINE rest == gossip (-) SetToBag({m})
    <3>1. IsABag(rest) /\ BagToSet(rest) \subseteq BagToSet(gossip)
      BY BagRemove, Zenon DEF TypeOK
    <3>2. \/ gossip' = rest
          \/ gossip' = rest (+) BroadcastGossipUpdate(m.to, m.fp, m.relay, m.ts)
      BY <1>2, Zenon DEF ProcessGossipUpdate
    <3> HIDE DEF rest
    <3>3. n \in BagToSet(gossip) \/ (n.fp = m.fp /\ n.relay = m.relay /\ n.ts = m.ts)
      BY <2>2, <3>1, <3>2, BroadcastBag
    <3> QED
      BY <2>1, <2>3, <3>3, Zenon DEF RoutingInv
  <2> QED
    BY <2>3, <2>5, <2>6, Zenon DEF RoutingInv
<1>3. ASSUME NEW l \in Link, NeighborConnEnds(l) PROVE RoutingInv'
  <2>0. IsABag(gossip)
    BY Zenon DEF TypeOK
  <2>1. BagToSet(gossip') \subseteq BagToSet(gossip)
    BY <1>3, <2>0, BagRestrict, Zenon DEF NeighborConnEnds
  <2>2. UNCHANGED <<now, clock, announced, routing>>
    BY <1>3 DEF NeighborConnEnds
  <2> QED
    BY <2>1, <2>2, Zenon DEF RoutingInv, RouteOK
<1>4. CASE UNCHANGED <<now, clock, announced, routing, gossip>>
  BY <1>4, Zenon DEF RoutingInv, RouteOK
<1>5. ASSUME NEW c \in controls, HandleAnnounce(c) \/ ControlLoopEnds(c)
      PROVE UNCHANGED <<now, clock, announced, routing, gossip>>
  BY <1>5, Zenon DEF HandleAnnounce, ControlLoopEnds
<1>6. ASSUME NEW l \in Link, NEW r \in Relays, ConnectToNeighbor(l) \/ RegisterNeighbor(r, l)
      PROVE UNCHANGED <<now, clock, announced, routing, gossip>>
  BY <1>6, Zenon DEF ConnectToNeighbor, RegisterNeighbor
<1>7. ASSUME NEW q \in Requests, NEW r \in Relays,
             RelayReq(q, r) \/ HandleRelayReq(q) \/ SetupExpires(q)
      PROVE UNCHANGED <<now, clock, announced, routing, gossip>>
  BY <1>7, Zenon DEF RelayReq, HandleRelayReq, SetupExpires
<1>8. CASE UNCHANGED vars
  BY <1>4, <1>8, Zenon DEF vars
<1>9. CASE Next
  <2>1. CASE \E l \in Link : ConnectToNeighbor(l) \/ NeighborConnEnds(l)
    BY <1>3, <1>4, <1>6, <2>1, Zenon DEF Link
  <2>2. CASE \E l \in Link : RegisterNeighbor(l[1], l) \/ RegisterNeighbor(l[2], l)
    BY <1>4, <1>6, <2>2, Zenon DEF Link
  <2>3. CASE \E q \in Requests : HandleRelayReq(q) \/ SetupExpires(q)
    <3>1. PICK q \in Requests : HandleRelayReq(q) \/ SetupExpires(q)
      BY <2>3, Zenon
    <3>2. UNCHANGED <<now, clock, announced, routing, gossip>>
      BY <3>1 DEF HandleRelayReq, SetupExpires
    <3> QED
      BY <1>4, <3>2, Zenon
  <2> QED
    BY <1>1, <1>2, <1>4, <1>5, <1>7, <1>9, <2>1, <2>2, <2>3, Zenon DEF Next, Gossip
<1> QED
  BY <1>8, <1>9, Zenon

\* RoutingInv holds in every reachable state.
THEOREM RoutingCorrect == Spec => []RoutingInv
<1>1. Init => RoutingInv
  <2> SUFFICES ASSUME Init PROVE RoutingInv
    OBVIOUS
  <2>1. BagToSet(gossip) = {}
    BY DEF Init, EmptyBag, SetToBag, BagToSet
  <2>2. Skew \in Nat /\ now = 0 /\ \A r \in Relays : clock[r] = 0
    BY RoutingAssumption, Zenon DEF Init
  <2>3. \A r \in Relays : clock[r] <= now + Skew
    BY <2>2
  <2>4. ASSUME NEW r \in Relays, NEW p \in Peers PROVE RouteOK(r, p)
    <3>1. routing[r][p] = NoRoute /\ announced[r][p] = 0 /\ clock[r] = 0
      BY Zenon DEF Init
    <3>2. 0 <= 0
      OBVIOUS
    <3> QED
      BY <3>1, <3>2, Zenon DEF RouteOK
  <2> QED
    BY <2>1, <2>3, <2>4, Zenon DEF RoutingInv
<1> QED
  BY <1>1, TypeCorrect, RoutingStep, PTL DEF Spec

\* A nonempty set of naturals with an upper bound has a greatest element.
LEMMA GreatestElement ==
    ASSUME NEW S \in SUBSET Nat, S # {}, NEW b \in Nat, \A x \in S : x <= b
    PROVE  \E x \in S : \A y \in S : y <= x
<1> DEFINE T == {b - x : x \in S}
<1>1. T \subseteq Nat /\ T # {}
  <2>1. \A x \in S : b - x \in Nat
    OBVIOUS
  <2>2. PICK x \in S : TRUE
    BY Zenon
  <2>3. b - x \in T
    BY <2>2
  <2> QED
    BY <2>1, <2>3, Zenon
<1>2. PICK t \in T : \A u \in T : <<u, t>> \notin OpToRel(<, Nat)
  <2> HIDE DEF T
  <2> QED
    BY <1>1, NatLessThanWellFounded, WFMin, Zenon
<1>3. PICK x \in S : t = b - x
  BY <1>2, Zenon
<1>4. ASSUME NEW y \in S PROVE y <= x
  <2>1. b - y \in T /\ b - y \in Nat /\ b - x \in Nat
    BY <1>3
  <2>2. <<b - y, b - x>> \notin OpToRel(<, Nat)
    BY <1>2, <1>3, <2>1, Zenon
  <2>3. ~(b - y < b - x)
    BY <2>1, <2>2, Zenon DEF OpToRel
  <2> QED
    BY <2>3
<1> QED
  BY <1>4, Zenon

\* Forwarding never leads round in a circle: every relay that forwards a request
\* made its own last announcement strictly before the relay it forwards to, so
\* among any set of relays the one that announced last leaves the set.
THEOREM RoutingLoopFree == Spec => []NoRoutingLoop
<1>1. TypeOK /\ RoutingInv => NoRoutingLoop
  <2> SUFFICES ASSUME TypeOK, RoutingInv, NEW p \in Peers, NEW C \in SUBSET Relays, C # {}
               PROVE  \E r \in C : ~(Forwards(r, p) /\ routing[r][p].relay \in C)
    BY DEF NoRoutingLoop
  <2>1. /\ announced \in [Relays -> [Peers -> Nat]] /\ clock \in [Relays -> Nat]
        /\ routing \in [Relays -> [Peers -> Entry \cup {NoRoute}]]
        /\ now + Skew \in Nat
    BY RoutingAssumption DEF TypeOK
  <2>2. \A r \in C : announced[r][p] \in Nat /\ announced[r][p] <= now + Skew
    BY <2>1, RoutingAssumption DEF RoutingInv, RouteOK
  <2> DEFINE S == {announced[r][p] : r \in C}
  <2>3. S \in SUBSET Nat /\ S # {} /\ \A x \in S : x <= now + Skew
    BY <2>2
  <2>4. PICK x \in S : \A y \in S : y <= x
    <3> HIDE DEF S
    <3> QED
      BY <2>1, <2>3, GreatestElement, Zenon
  <2>5. PICK r \in C : announced[r][p] = x
    BY <2>4
  <2>6. \A s \in C : announced[s][p] <= announced[r][p]
    BY <2>4, <2>5, Zenon
  <2>7. ASSUME Forwards(r, p), routing[r][p].relay \in C PROVE FALSE
    <3>1. routing[r][p] \in Entry /\ RouteOK(r, p)
      BY <2>1, <2>7, Zenon DEF Forwards, RoutingInv
    <3>2. announced[r][p] < announced[routing[r][p].relay][p]
      <4>1. routing[r][p].relay # r /\ routing[r][p] # NoRoute
        BY <2>7, Zenon DEF Forwards
      <4>2. /\ announced[r][p] < routing[r][p].ts
            /\ routing[r][p].ts <= announced[routing[r][p].relay][p]
        BY <3>1, <4>1, Zenon DEF RouteOK
      <4>3. /\ announced[r][p] \in Nat /\ routing[r][p].ts \in Nat
            /\ announced[routing[r][p].relay][p] \in Nat
        BY <2>1, <2>2, <3>1 DEF Entry
      <4> DEFINE t == routing[r][p].ts
                 a == announced[r][p]
                 b == announced[routing[r][p].relay][p]
      <4>4. t \in Nat /\ a \in Nat /\ b \in Nat /\ a < t /\ t <= b
        BY <4>2, <4>3, Zenon
      <4> HIDE DEF t, a, b
      <4>5. a < b
        BY <4>4
      <4> QED
        BY <4>5, Zenon DEF a, b
    <3> QED
      BY <2>2, <2>6, <2>7, <3>2
  <2> QED
    BY <2>7, Zenon
<1> QED
  BY <1>1, TypeCorrect, RoutingCorrect, PTL

\* What RequestClimbs needs to be inductive: the route that led a request to the
\* relay it has reached is no newer than that relay's last announcement.
HopInv ==
    \A q \in Requests : Len(hops[q]) > 0 =>
        LET h == hops[q][Len(hops[q])] IN h.ts <= announced[h.relay][target[q]]

\* Every step keeps the path of each request climbing.
LEMMA RequestStep ==
    TypeOK /\ TypeOK' /\ RoutingInv /\ RequestClimbs /\ HopInv /\ [Next]_vars
        => RequestClimbs' /\ HopInv'
<1> SUFFICES ASSUME TypeOK, TypeOK', RoutingInv, RequestClimbs, HopInv, [Next]_vars
             PROVE  RequestClimbs' /\ HopInv'
  OBVIOUS
<1> USE DEF timeVars, linkVars, peerVars, reqVars
<1>0. /\ announced \in [Relays -> [Peers -> Nat]] /\ hops \in [Requests -> Seq(Hop)]
      /\ target \in [Requests -> Peers] /\ clock \in [Relays -> Nat]
      /\ routing \in [Relays -> [Peers -> Entry \cup {NoRoute}]]
  BY Zenon DEF TypeOK
<1>00. announced' \in [Relays -> [Peers -> Nat]]
  BY Zenon DEF TypeOK
<1>01. \A q \in Requests : Len(hops[q]) > 0 =>
          LET h == hops[q][Len(hops[q])] IN h \in Hop /\ h.relay \in Relays /\ h.ts \in Nat
  <2>1. ASSUME NEW q \in Requests, Len(hops[q]) > 0 PROVE hops[q][Len(hops[q])] \in Hop
    BY <1>0, <2>1
  <2> QED
    BY <2>1, Zenon DEF Hop
<1>1. ASSUME UNCHANGED <<hops, target>>,
             \A r \in Relays, p \in Peers : announced[r][p] <= announced'[r][p]
      PROVE  RequestClimbs' /\ HopInv'
  <2>1. RequestClimbs'
    BY <1>1, Zenon DEF RequestClimbs
  <2>2. ASSUME NEW q \in Requests, Len(hops[q]) > 0
        PROVE  LET h == hops[q][Len(hops[q])] IN h.ts <= announced'[h.relay][target[q]]
    <3> DEFINE h == hops[q][Len(hops[q])]
    <3>1. h.ts \in Nat /\ h.relay \in Relays /\ target[q] \in Peers
      BY <1>0, <1>01, <2>2, Zenon
    <3>2. h.ts <= announced[h.relay][target[q]]
      BY <2>2, Zenon DEF HopInv
    <3> HIDE DEF h
    <3>3. h.ts <= announced'[h.relay][target[q]]
      BY <1>0, <1>00, <1>1, <3>1, <3>2
    <3> QED
      BY <3>3, Zenon DEF h
  <2> QED
    BY <1>1, <2>1, <2>2, Zenon DEF HopInv
<1>2. ASSUME NEW r \in Relays, NEW p \in Peers, Announce(r, p)
      PROVE  RequestClimbs' /\ HopInv'
  <2>1. PICK ts \in UnixNano(r) : Announce(r, p)!3!(ts)
    BY <1>2, Zenon DEF Announce
  <2>2. \A x \in Relays, y \in Peers : announced[x][y] <= announced'[x][y]
    <3>1. now \in Nat /\ Skew \in Nat
      BY RoutingAssumption, Zenon DEF TypeOK
    <3>2. ts \in Int /\ ts >= clock[r]
      BY <2>1, <3>1 DEF UnixNano
    <3>3. announced[r][p] <= clock[r]
      BY Zenon DEF RoutingInv, RouteOK
    <3>4. clock[r] \in Nat
      BY Zenon DEF TypeOK
    <3> QED
      BY <1>0, <2>1, <3>2, <3>3, <3>4
  <2> QED
    BY <1>1, <1>2, <2>2, Zenon DEF Announce
<1>3. ASSUME UNCHANGED <<hops, target, announced>> PROVE RequestClimbs' /\ HopInv'
  BY <1>0, <1>1, <1>3
<1>4. ASSUME NEW q \in Requests, NEW r \in Relays, RelayReq(q, r)
      PROVE  RequestClimbs' /\ HopInv'
  <2> DEFINE h == <<[relay |-> r, ts |-> 0]>>
  <2>1. hops' = [hops EXCEPT ![q] = h] /\ UNCHANGED <<target, announced>>
    BY <1>4, Zenon DEF RelayReq
  <2>2. DOMAIN h = {1} /\ Len(h) = 1 /\ h[1].ts = 0 /\ h[1].relay = r
    OBVIOUS
  <2> HIDE DEF h
  <2>3. RequestClimbs'
    <3>1. hops'[q] = h /\ \A x \in Requests \ {q} : hops'[x] = hops[x]
      BY <1>0, <2>1, Zenon
    <3>2. ASSUME NEW x \in Requests, NEW i \in DOMAIN hops'[x], NEW j \in DOMAIN hops'[x], i < j
          PROVE  hops'[x][i].ts < hops'[x][j].ts
      <4>1. CASE x = q
        <5>1. i = 1 /\ j = 1
          BY <2>2, <3>1, <3>2, <4>1
        <5> QED
          BY <3>2, <5>1
      <4>2. CASE x # q
        BY <3>1, <3>2, <4>2, Zenon DEF RequestClimbs
      <4> QED
        BY <4>1, <4>2, Zenon
    <3> QED
      BY <3>2, Zenon DEF RequestClimbs
  <2>4. HopInv'
    <3>1. announced[r][target[q]] \in Nat
      BY <1>0, Zenon
    <3>2. hops'[q] = h /\ \A x \in Requests \ {q} : hops'[x] = hops[x]
      BY <1>0, <2>1
    <3>3. ASSUME NEW x \in Requests, Len(hops'[x]) > 0
          PROVE  LET g == hops'[x][Len(hops'[x])] IN g.ts <= announced'[g.relay][target'[x]]
      <4>1. CASE x = q
        <5>1. hops'[x][Len(hops'[x])] = h[1]
          BY <2>2, <3>2, <4>1, Zenon
        <5>2. 0 <= announced'[r][target'[x]]
          BY <2>1, <3>1, <4>1
        <5> QED
          BY <2>2, <5>1, <5>2, Zenon
      <4>2. CASE x # q
        BY <2>1, <3>2, <3>3, <4>2, Zenon DEF HopInv
      <4> QED
        BY <4>1, <4>2, Zenon
    <3> QED
      BY <3>3, Zenon DEF HopInv
  <2> QED
    BY <2>3, <2>4, Zenon
<1>5. ASSUME NEW q \in Requests, HandleRelayReq(q) PROVE RequestClimbs' /\ HopInv'
  <2> DEFINE r == Here(q)
             p == target[q]
             e == routing[r][p]
             n == Len(hops[q])
  <2>1. CASE Forwards(r, p) /\ hops' = [hops EXCEPT ![q] = Append(@, e)]
    <3>1. /\ r \in Relays /\ p \in Peers /\ e \in Hop /\ e \in Entry /\ n \in Nat /\ n > 0
          /\ UNCHANGED <<target, announced>>
      <4>1. status[q] = "routing" /\ UNCHANGED <<target, announced>>
        BY <1>5, Zenon DEF HandleRelayReq, timeVars
      <4>2. status[q] # "idle"
        BY <4>1, Zenon
      <4>3. r \in Relays /\ p \in Peers /\ e \in Hop \cap Entry
        BY <2>1, <4>2, HopType, Zenon
      <4>4. hops[q] \in Seq(Hop) /\ n > 0
        BY <4>2, Zenon DEF TypeOK
      <4>5. n \in Nat
        BY <4>4
      <4> QED
        BY <4>1, <4>3, <4>4, <4>5, Zenon
    <3>2. RouteOK(r, p) /\ e # NoRoute /\ e.relay # r
      BY <2>1, <3>1, Zenon DEF RoutingInv, Forwards
    <3>3. /\ hops[q][n] \in Hop /\ hops[q][n].relay = r
          /\ hops[q][n].ts <= announced[r][p]
      BY <1>01, <3>1, Zenon DEF HopInv, Here
    <3>4. /\ hops[q][n].ts < e.ts /\ e.ts <= announced[e.relay][p]
      <4>1. announced[r][p] < e.ts /\ e.ts <= announced[e.relay][p]
        BY <3>2, Zenon DEF RouteOK
      <4>2. hops[q][n].ts \in Nat /\ e.ts \in Nat
        BY <3>1, <3>3, Zenon DEF Hop
      <4>3. announced[r][p] \in Nat
        BY <1>0, <3>1, Zenon
      <4> DEFINE t == hops[q][n].ts
                 u == e.ts
                 a == announced[r][p]
      <4>4. t \in Nat /\ u \in Nat /\ a \in Nat /\ t <= a /\ a < u
        BY <3>3, <4>1, <4>2, <4>3, Zenon
      <4> HIDE DEF t, u, a
      <4>5. t < u
        BY <4>4
      <4> QED
        BY <4>1, <4>5, Zenon DEF t, u
    <3> HIDE DEF r, p, e
    <3>5. /\ hops'[q] = Append(hops[q], e) /\ Len(hops'[q]) = n + 1 /\ hops'[q][n + 1] = e
          /\ \A i \in 1 .. n : hops'[q][i] = hops[q][i]
          /\ \A x \in Requests \ {q} : hops'[x] = hops[x]
      BY <1>0, <2>1, <3>1
    <3>6. HopInv'
      BY <3>1, <3>4, <3>5, Zenon DEF HopInv, p
    <3>7. ASSUME NEW i \in 1 .. (n + 1), NEW j \in 1 .. (n + 1), i < j
          PROVE  hops'[q][i].ts < hops'[q][j].ts
      <4>1. CASE j <= n
        <5>1. i \in 1 .. n /\ j \in 1 .. n /\ DOMAIN hops[q] = 1 .. n
          BY <1>0, <3>1, <3>7, <4>1
        <5> QED
          BY <3>5, <3>7, <5>1, Zenon DEF RequestClimbs
      <4>2. CASE j = n + 1
        <5>1. i \in 1 .. n /\ hops[q][i] \in Hop
          BY <1>0, <3>1, <3>7, <4>2
        <5>2. hops[q][i].ts \in Nat /\ hops[q][n].ts \in Nat /\ e.ts \in Nat
          BY <3>1, <3>3, <5>1, Zenon DEF Hop
        <5>3. i = n \/ hops[q][i].ts < hops[q][n].ts
          <6>1. i \in DOMAIN hops[q] /\ n \in DOMAIN hops[q]
            BY <1>0, <3>1, <5>1
          <6>2. i = n \/ i < n
            BY <3>1, <5>1
          <6> QED
            BY <6>1, <6>2, Zenon DEF RequestClimbs
        <5> QED
          BY <3>4, <3>5, <4>2, <5>1, <5>2, <5>3
      <4> QED
        BY <3>1, <3>7, <4>1, <4>2
    <3>8. RequestClimbs'
      <4>1. DOMAIN hops'[q] = 1 .. (n + 1)
        BY <1>0, <3>1, <3>5
      <4>2. ASSUME NEW x \in Requests, NEW i \in DOMAIN hops'[x], NEW j \in DOMAIN hops'[x], i < j
            PROVE  hops'[x][i].ts < hops'[x][j].ts
        <5>1. CASE x = q
          BY <3>7, <4>1, <4>2, <5>1, Zenon
        <5>2. CASE x # q
          BY <3>5, <4>2, <5>2, Zenon DEF RequestClimbs
        <5> QED
          BY <5>1, <5>2, Zenon
      <4> QED
        BY <4>2, Zenon DEF RequestClimbs
    <3> QED
      BY <3>6, <3>8, Zenon
  <2>2. CASE UNCHANGED hops
    BY <1>3, <1>5, <2>2, Zenon DEF HandleRelayReq
  <2> QED
    BY <1>5, <2>1, <2>2, Zenon DEF HandleRelayReq
<1>6. CASE UNCHANGED vars
  BY <1>3, <1>6, Zenon DEF vars
<1>7. CASE Next
  <2>1. CASE \/ \E c \in controls : HandleAnnounce(c) \/ ControlLoopEnds(c)
             \/ Gossip
             \/ \E l \in Link : ConnectToNeighbor(l) \/ NeighborConnEnds(l)
             \/ \E l \in Link : RegisterNeighbor(l[1], l) \/ RegisterNeighbor(l[2], l)
             \/ \E q \in Requests : SetupExpires(q)
    <3>1. UNCHANGED <<hops, target, announced>>
      BY <2>1, Zenon DEF HandleAnnounce, ControlLoopEnds, Gossip, ProcessGossipUpdate,
                  ConnectToNeighbor, NeighborConnEnds, RegisterNeighbor, SetupExpires
    <3> QED
      BY <1>3, <3>1, Zenon
  <2> QED
    BY <1>2, <1>4, <1>5, <1>7, <2>1, Zenon DEF Next
<1> QED
  BY <1>6, <1>7, Zenon

\* No request has been sent at the beginning.
LEMMA RequestInit == Init => RequestClimbs /\ HopInv
<1> SUFFICES ASSUME Init, NEW q \in Requests
             PROVE  DOMAIN hops[q] = {} /\ ~(Len(hops[q]) > 0)
  BY Zenon DEF RequestClimbs, HopInv
<1>1. hops[q] = <<>>
  BY Zenon DEF Init
<1> QED
  BY <1>1

\* Along every request's path the announcements followed get strictly newer.
THEOREM RequestsClimb == Spec => []RequestClimbs
  BY RequestInit, TypeCorrect, RoutingCorrect, RequestStep, PTL DEF Spec

-----------------------------------------------------------------------------
(* Requests that come back *)

\* A request that has not been sent has visited nobody.
IdleInv == \A q \in Requests : status[q] = "idle" => hops[q] = <<>>

\* Request q has followed an announcement made after time t.
Beyond(q, t) == hops[q] # <<>> /\ t < hops[q][Len(hops[q])].ts

\* The peer q looks for was announced, where q stands, after time t.
AnnouncedHereAfter(q, t) == hops[q] # <<>> /\ t < announced[Here(q)][target[q]]

\* handleRelayReq forwards along an announcement that is newer than the last one at
\* this relay.
LeavesForNewer ==
    [][\A q \in Requests :
          hops[q] # <<>> /\ hops'[q] # hops[q] =>
              announced[Here(q)][target[q]] < hops'[q][Len(hops'[q])].ts]_vars

\* A step leaves the path of a request alone or begins it, or forwards the request
\* along a newer announcement.
LEMMA PathStep ==
    ASSUME TypeOK, RoutingInv, HopInv, IdleInv, [Next]_vars, NEW q \in Requests
    PROVE  /\ status'[q] = "idle" => hops'[q] = <<>>
           /\ \/ hops'[q] = hops[q] \/ hops[q] = <<>>
              \/ /\ hops'[q] # <<>>
                 /\ announced[Here(q)][target[q]] < hops'[q][Len(hops'[q])].ts
                 /\ \A t \in Nat : Beyond(q, t) => Beyond(q, t)'
<1> USE DEF timeVars, linkVars, peerVars, reqVars
<1>0. status \in [Requests -> Status] /\ hops \in [Requests -> Seq(Hop)] /\ announced \in [Relays -> [Peers -> Nat]]
  BY Zenon DEF TypeOK
<1>1. CASE UNCHANGED <<status, hops>>
  BY <1>1, Zenon DEF IdleInv
<1>2. ASSUME NEW x \in Requests, NEW r \in Relays, RelayReq(x, r)
      PROVE  /\ status'[q] = "idle" => hops'[q] = <<>>
             /\ hops'[q] = hops[q] \/ hops[q] = <<>>
  <2>1. /\ status[x] = "idle" /\ status' = [status EXCEPT ![x] = "routing"]
        /\ hops' = [hops EXCEPT ![x] = <<[relay |-> r, ts |-> 0]>>]
    BY <1>2, Zenon DEF RelayReq
  <2>2. CASE q = x
    <3>1. status'[q] = "routing" /\ hops[q] = <<>>
      BY <1>0, <2>1, <2>2, Zenon DEF IdleInv
    <3> QED
      BY <3>1, Zenon
  <2>3. CASE q # x
    <3>1. status'[q] = status[q] /\ hops'[q] = hops[q]
      BY <1>0, <2>1, <2>3, Zenon
    <3> QED
      BY <3>1, Zenon DEF IdleInv
  <2> QED
    BY <2>2, <2>3, Zenon
<1>3. ASSUME NEW x \in Requests, NEW s \in Status \ {"idle"}, status' = [status EXCEPT ![x] = s], UNCHANGED hops
      PROVE  (status'[q] = "idle" => hops'[q] = <<>>) /\ hops'[q] = hops[q]
  <2>1. status'[q] = "idle" => status[q] = "idle"
    BY <1>0, <1>3, Zenon
  <2> QED
    BY <1>3, <2>1, Zenon DEF IdleInv
<1>4. ASSUME NEW x \in Requests, status[x] = "routing", UNCHANGED status, Forwards(Here(x), target[x]),
             hops' = [hops EXCEPT ![x] = Append(@, routing[Here(x)][target[x]])]
      PROVE  /\ status'[q] = "idle" => hops'[q] = <<>>
             /\ \/ hops'[q] = hops[q]
                \/ /\ hops'[q] # <<>>
                   /\ announced[Here(q)][target[q]] < hops'[q][Len(hops'[q])].ts
                   /\ \A t \in Nat : Beyond(q, t) => Beyond(q, t)'
  <2>1. CASE q # x
    <3>1. status'[q] = status[q] /\ hops'[q] = hops[q]
      BY <1>0, <1>4, <2>1, Zenon
    <3> QED
      BY <3>1, Zenon DEF IdleInv
  <2>2. CASE q = x
    <3> DEFINE e == routing[Here(q)][target[q]]
               n == Len(hops[q])
    <3>1. status[q] # "idle" /\ status'[q] # "idle"
      BY <1>4, <2>2, Zenon
    <3>2. Here(q) \in Relays /\ target[q] \in Peers /\ e \in Hop
      BY <1>4, <2>2, <3>1, HopType, Zenon
    <3>3. hops[q] \in Seq(Hop) /\ n \in Nat /\ n > 0
      BY <3>1 DEF TypeOK
    <3>4. hops[q][n] \in Hop
      BY <3>3
    <3>5. RouteOK(Here(q), target[q]) /\ e # NoRoute /\ e.relay # Here(q)
      BY <1>4, <2>2, <3>2, Zenon DEF RoutingInv, Forwards
    <3>6. announced[Here(q)][target[q]] < e.ts
      BY <3>5, Zenon DEF RouteOK
    <3>7. hops[q][n].ts <= announced[Here(q)][target[q]]
      BY <3>3, Zenon DEF HopInv, Here
    <3>8. hops[q][n].ts \in Nat /\ e.ts \in Nat /\ announced[Here(q)][target[q]] \in Nat
      BY <1>0, <3>2, <3>4, Zenon DEF Hop
    <3>9. hops'[q] = Append(hops[q], e)
      BY <1>0, <1>4, <2>2, Zenon
    <3> HIDE DEF e
    <3>10. hops'[q] # <<>> /\ hops'[q][Len(hops'[q])] = e
      BY <3>2, <3>3, <3>9
    <3>11. \A t \in Nat : t < hops[q][n].ts => t < e.ts
      BY <3>6, <3>7, <3>8
    <3>12. \A t \in Nat : Beyond(q, t) => Beyond(q, t)'
      BY <3>10, <3>11, Zenon DEF Beyond
    <3> QED
      BY <3>1, <3>6, <3>10, <3>12, Zenon
  <2> QED
    BY <2>1, <2>2, Zenon
<1>5. CASE \E x \in Requests : HandleRelayReq(x) \/ SetupExpires(x)
  <2>1. PICK x \in Requests : HandleRelayReq(x) \/ SetupExpires(x)
    BY <1>5, Zenon
  <2>2. \/ \E s \in {"notified", "unreachable", "offline", "expired"} :
              status' = [status EXCEPT ![x] = s] /\ UNCHANGED hops
        \/ /\ status[x] = "routing" /\ UNCHANGED status /\ Forwards(Here(x), target[x])
           /\ hops' = [hops EXCEPT ![x] = Append(@, routing[Here(x)][target[x]])]
    BY <2>1, Zenon DEF HandleRelayReq, SetupExpires
  <2>3. {"notified", "unreachable", "offline", "expired"} \subseteq Status \ {"idle"}
    BY DEF Status
  <2> QED
    BY <1>3, <1>4, <2>2, <2>3, Zenon
<1>6. CASE \/ \E r \in Relays, p \in Peers : Announce(r, p)
           \/ \E c \in controls : HandleAnnounce(c) \/ ControlLoopEnds(c)
           \/ Gossip
           \/ \E l \in Link : ConnectToNeighbor(l) \/ NeighborConnEnds(l)
           \/ \E l \in Link : RegisterNeighbor(l[1], l) \/ RegisterNeighbor(l[2], l)
  <2>1. UNCHANGED <<status, hops>>
    BY <1>6, Zenon DEF Announce, HandleAnnounce, ControlLoopEnds, Gossip, ProcessGossipUpdate,
                       ConnectToNeighbor, NeighborConnEnds, RegisterNeighbor
  <2> QED
    BY <1>1, <2>1, Zenon
<1>7. CASE UNCHANGED vars
  BY <1>1, <1>7, Zenon DEF vars
<1> QED
  BY <1>2, <1>5, <1>6, <1>7, Zenon DEF Next

\* What the two theorems below rest on.
LEMMA PathInv == Spec => [](TypeOK /\ RoutingInv /\ HopInv /\ IdleInv)
<1>1. Init => IdleInv
  BY Zenon DEF Init, IdleInv
<1>2. TypeOK /\ RoutingInv /\ HopInv /\ IdleInv /\ [Next]_vars => IdleInv'
  <2> SUFFICES ASSUME TypeOK, RoutingInv, HopInv, IdleInv, [Next]_vars, NEW q \in Requests
               PROVE  status'[q] = "idle" => hops'[q] = <<>>
    BY Zenon DEF IdleInv
  <2> QED
    BY PathStep, Zenon
<1> QED
  BY <1>1, <1>2, RequestInit, TypeCorrect, RoutingCorrect, RequestStep, PTL DEF Spec

\* A relay never forwards a request along a route older than its own last announcement
\* of the peer, for any relays, links, clocks and changes of the tables meanwhile.
THEOREM ForwardsToNewer == Spec => LeavesForNewer
<1>1. TypeOK /\ RoutingInv /\ HopInv /\ IdleInv /\ [Next]_vars =>
         [\A q \in Requests :
             hops[q] # <<>> /\ hops'[q] # hops[q] =>
                 announced[Here(q)][target[q]] < hops'[q][Len(hops'[q])].ts]_vars
  <2> SUFFICES ASSUME TypeOK, RoutingInv, HopInv, IdleInv, [Next]_vars, NEW q \in Requests,
                      hops[q] # <<>>, hops'[q] # hops[q]
               PROVE  announced[Here(q)][target[q]] < hops'[q][Len(hops'[q])].ts
    BY Zenon
  <2> QED
    BY PathStep, Zenon
<1> QED
  BY <1>1, PathInv, PTL DEF Spec, LeavesForNewer

\* A request does not circle: once it has followed an announcement made after time t, it
\* is only ever at relays where its peer was announced after t.  A relay it has left, by
\* ForwardsToNewer for an announcement newer than its own, sees it again only if the
\* peer has announced itself there meanwhile.
THEOREM ReturnsOnlyAfter ==
    ASSUME NEW q \in Requests, NEW t \in Nat
    PROVE  Spec => [](Beyond(q, t) => []AnnouncedHereAfter(q, t))
<1>1. TypeOK /\ RoutingInv /\ HopInv /\ IdleInv /\ Beyond(q, t) /\ [Next]_vars => Beyond(q, t)'
  <2> SUFFICES ASSUME TypeOK, RoutingInv, HopInv, IdleInv, Beyond(q, t), [Next]_vars
               PROVE  Beyond(q, t)'
    BY Zenon
  <2>1. hops[q] # <<>>
    BY Zenon DEF Beyond
  <2>2. CASE hops'[q] = hops[q]
    BY <2>2, Zenon DEF Beyond
  <2> QED
    BY <2>1, <2>2, PathStep, Zenon
<1>2. TypeOK /\ HopInv /\ Beyond(q, t) => AnnouncedHereAfter(q, t)
  <2> SUFFICES ASSUME TypeOK, HopInv, Beyond(q, t) PROVE AnnouncedHereAfter(q, t)
    BY Zenon
  <2> DEFINE h == hops[q][Len(hops[q])]
  <2>1. hops[q] \in Seq(Hop) /\ hops[q] # <<>> /\ target[q] \in Peers /\ t < h.ts
    BY Zenon DEF TypeOK, Beyond
  <2>2. Len(hops[q]) > 0 /\ h \in Hop
    BY <2>1
  <2>3. h.relay \in Relays /\ h.ts \in Nat
    BY <2>2, Zenon DEF Hop
  <2>4. announced[h.relay][target[q]] \in Nat
    BY <2>1, <2>3, Zenon DEF TypeOK
  <2>5. h.ts <= announced[h.relay][target[q]]
    BY <2>2, Zenon DEF HopInv
  <2> HIDE DEF h
  <2>6. t < announced[h.relay][target[q]]
    BY <2>1, <2>3, <2>4, <2>5
  <2> QED
    BY <2>1, <2>6, Zenon DEF AnnouncedHereAfter, Here, h
<1> QED
  BY <1>1, <1>2, PathInv, PTL DEF Spec
=============================================================================
