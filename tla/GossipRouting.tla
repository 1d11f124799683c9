---------------------------- MODULE GossipRouting ----------------------------
(***************************************************************************)
(* The federation of relays: where each relay believes a peer is           *)
(* (globalRouting, activeNodes), how GOSSIP_UPDATE envelopes flood over    *)
(* the neighbour connections, and how a relay request is forwarded from    *)
(* relay to relay (uniconn-go/p2p/relay.go, relay_gossip.go).              *)
(*                                                                         *)
(* A neighbour connection is the pair <<dialer, acceptor>>.  Each end      *)
(* registers it in its own neighbors map, at its own time.  Every write of *)
(* a broadcast runs in a goroutine of its own, so envelopes of one         *)
(* connection arrive in any order: the envelopes in flight are a bag.      *)
(***************************************************************************)
EXTENDS Integers, Sequences, Bags

CONSTANTS
    Relays,       \* relay listen addresses
    Peers,        \* node fingerprints
    Requests,     \* relay requests that nodes issue
    NoRoute,      \* globalRouting has no entry for the fingerprint
    InitLinks,    \* neighbour connections that are up at the start
    Skew,         \* how far a relay's wall clock may be off real time
    MaxAnnounce,  \* bound: initial ANNOUNCE envelopes in a behaviour
    MaxDial,      \* bound: neighbour connections dialled in a behaviour
    MaxDown       \* bound: neighbour connections lost in a behaviour

Link == {l \in Relays \X Relays : l[1] # l[2]}
Entry == [relay : Relays, ts : Nat \ {0}]
Update == [link : Link, to : Relays, fp : Peers, relay : Relays, ts : Nat \ {0}]

ASSUME RoutingAssumption ==
    /\ NoRoute \notin Entry
    /\ InitLinks \subseteq Link
    /\ Skew \in Nat /\ MaxAnnounce \in Nat /\ MaxDial \in Nat /\ MaxDown \in Nat

VARIABLES
    now,        \* real time, counted in announcements
    clock,      \* last reading of each relay's time.Now()
    routing,    \* routing[r][p]: entry of r's globalRouting, or NoRoute
    active,     \* active[r][p]: control connection in r's activeNodes, 0 for none
    controls,   \* open control connections <<relay, peer, id>> that announced
    open,       \* neighbour connections whose socket is open
    neighbors,  \* neighbors[r]: neighbour connections r has registered
    gossip,     \* bag of GOSSIP_UPDATE envelopes in flight
    dials,      \* neighbour connections dialled so far
    downs,      \* neighbour connections lost so far
    status,     \* status[q]: where relay request q stands
    target,     \* target[q]: the fingerprint q asks for
    hops,       \* hops[q]: the relays q has reached, with the route that led there
    announced,  \* history: announced[r][p], time of r's last ANNOUNCE of p, 0 for none
    latest      \* history: latest[p], entry of the last ANNOUNCE of p anywhere

linkVars == <<open, neighbors, dials, downs>>
peerVars == <<active, controls>>
timeVars == <<now, clock, announced, latest>>
reqVars == <<status, target, hops>>
vars == <<now, clock, routing, active, controls, open, neighbors, gossip,
          dials, downs, status, target, hops, announced, latest>>

Hop == [relay : Relays, ts : Nat]
Status == {"idle", "routing", "notified", "offline", "unreachable", "expired"}

\* The maps, sockets, envelopes and requests hold values of their types.
TypeOK ==
    /\ now \in Nat /\ dials \in Nat /\ downs \in Nat
    /\ clock \in [Relays -> Nat]
    /\ routing \in [Relays -> [Peers -> Entry \cup {NoRoute}]]
    /\ active \in [Relays -> [Peers -> Nat]]
    /\ controls \subseteq Relays \X Peers \X (Nat \ {0})
    /\ open \subseteq Link
    /\ neighbors \in [Relays -> SUBSET Link]
    /\ IsABag(gossip) /\ BagToSet(gossip) \subseteq Update
    /\ status \in [Requests -> Status]
    /\ target \in [Requests -> Peers]
    /\ hops \in [Requests -> Seq(Hop)]
    /\ \A q \in Requests : status[q] # "idle" => Len(hops[q]) > 0
    /\ announced \in [Relays -> [Peers -> Nat]]
    /\ latest \in [Peers -> Entry \cup {NoRoute}]

Init ==
    /\ now = 0 /\ dials = 0 /\ downs = 0
    /\ clock = [r \in Relays |-> 0]
    /\ routing = [r \in Relays |-> [p \in Peers |-> NoRoute]]
    /\ active = [r \in Relays |-> [p \in Peers |-> 0]]
    /\ controls = {}
    /\ open = InitLinks
    /\ neighbors = [r \in Relays |-> {l \in InitLinks : r \in {l[1], l[2]}}]
    /\ gossip = EmptyBag
    /\ status = [q \in Requests |-> "idle"]
    /\ target \in [Requests -> Peers]
    /\ hops = [q \in Requests |-> <<>>]
    /\ announced = [r \in Relays |-> [p \in Peers |-> 0]]
    /\ latest = [p \in Peers |-> NoRoute]

-----------------------------------------------------------------------------
(* Gossip *)

OtherEnd(l, r) == IF l[1] = r THEN l[2] ELSE l[1]

\* The envelopes BroadcastGossipUpdate writes: one per registered neighbour,
\* the one the update came from included.
BroadcastGossipUpdate(r, p, s, ts) ==
    SetToBag({[link |-> l, to |-> OtherEnd(l, r), fp |-> p, relay |-> s, ts |-> ts] :
              l \in neighbors[r]})

\* Mutant of UnixNano: the clock may be set back.
UnixNanoSetBack(r) == {ts \in (now + 1 - Skew) .. (now + 1 + Skew) : ts > 0}

\* What time.Now() may read at r: within Skew of real time and never going back.
UnixNano(r) == {ts \in (now + 1 - Skew) .. (now + 1 + Skew) : ts > 0 /\ ts >= clock[r]}

\* First envelope of a control connection.  The table update and the broadcast
\* are one step: the broadcast only reads neighbors, so it commutes with every
\* step that could come between them.
Announce(r, p) ==
    /\ now < MaxAnnounce
    /\ now' = now + 1
    /\ \E ts \in UnixNano(r) :
          /\ clock' = [clock EXCEPT ![r] = ts]
          /\ routing' = [routing EXCEPT ![r][p] = [relay |-> r, ts |-> ts]]
          /\ gossip' = gossip (+) BroadcastGossipUpdate(r, p, r, ts)
          /\ announced' = [announced EXCEPT ![r][p] = ts]
          /\ latest' = [latest EXCEPT ![p] = [relay |-> r, ts |-> ts]]
    /\ active' = [active EXCEPT ![r][p] = now + 1]
    /\ controls' = controls \cup {<<r, p, now + 1>>}
    /\ UNCHANGED <<linkVars, reqVars>>

\* A later ANNOUNCE on an open control connection only rewrites activeNodes.
HandleAnnounce(c) ==
    /\ active' = [active EXCEPT ![c[1]][c[2]] = c[3]]
    /\ UNCHANGED <<timeVars, linkVars, routing, controls, gossip, reqVars>>

\* The control loop of a connection ends: its deferred function removes the
\* activeNodes entry if the entry still names this connection.
ControlLoopEnds(c) ==
    /\ controls' = controls \ {c}
    /\ active' = IF active[c[1]][c[2]] = c[3]
                 THEN [active EXCEPT ![c[1]][c[2]] = 0] ELSE active
    /\ UNCHANGED <<timeVars, linkVars, routing, gossip, reqVars>>

\* Mutant of Supersedes: the timestamp comparison is dropped.
SupersedesAlways(r, p, ts) == TRUE

\* Mutant of Supersedes: only the first announcement of a peer is kept.
SupersedesNothing(r, p, ts) == routing[r][p] = NoRoute

Supersedes(r, p, ts) == routing[r][p] = NoRoute \/ routing[r][p].ts < ts

\* processGossipMessage, case GOSSIP_UPDATE.
ProcessGossipUpdate(m) ==
    /\ LET rest == gossip (-) SetToBag({m}) IN
       IF Supersedes(m.to, m.fp, m.ts)
       THEN /\ routing' = [routing EXCEPT ![m.to][m.fp] = [relay |-> m.relay, ts |-> m.ts]]
            /\ gossip' = rest (+) BroadcastGossipUpdate(m.to, m.fp, m.relay, m.ts)
       ELSE gossip' = rest /\ UNCHANGED routing
    /\ UNCHANGED <<timeVars, linkVars, peerVars, reqVars>>

-----------------------------------------------------------------------------
(* Neighbour connections, as the routing layer sees them *)

\* connectToNeighbor up to the GET_RELAYS it writes.
ConnectToNeighbor(l) ==
    /\ l \notin open /\ dials < MaxDial
    /\ open' = open \cup {l}
    /\ dials' = dials + 1
    /\ UNCHANGED <<timeVars, peerVars, neighbors, downs, routing, gossip, reqVars>>

\* One end registers: the dialer after its write, the acceptor on reading it.
RegisterNeighbor(r, l) ==
    /\ l \in open \ neighbors[r] /\ r \in {l[1], l[2]}
    /\ neighbors' = [neighbors EXCEPT ![r] = @ \cup {l}]
    /\ UNCHANGED <<timeVars, peerVars, open, dials, downs, routing, gossip, reqVars>>

\* The connection breaks; both handlers delete it and what it carried is lost.
NeighborConnEnds(l) ==
    /\ l \in open /\ downs < MaxDown
    /\ open' = open \ {l}
    /\ neighbors' = [r \in Relays |-> neighbors[r] \ {l}]
    /\ gossip' = [m \in {x \in DOMAIN gossip : x.link # l} |-> gossip[m]]
    /\ downs' = downs + 1
    /\ UNCHANGED <<timeVars, peerVars, dials, routing, reqVars>>

-----------------------------------------------------------------------------
(* Relay requests *)

Here(q) == hops[q][Len(hops[q])].relay

\* Mutant of RelayReq: the relay the request starts at is not recorded.
RelayReqLost(q, r) ==
    /\ status[q] = "idle"
    /\ status' = [status EXCEPT ![q] = "routing"]
    /\ UNCHANGED <<timeVars, linkVars, peerVars, target, hops, routing, gossip>>

\* A node sends RELAY_REQ to the relay it knows.
RelayReq(q, r) ==
    /\ status[q] = "idle"
    /\ status' = [status EXCEPT ![q] = "routing"]
    /\ hops' = [hops EXCEPT ![q] = <<[relay |-> r, ts |-> 0]>>]
    /\ UNCHANGED <<timeVars, linkVars, peerVars, target, routing, gossip>>

\* Mutant of Forwards: a relay whose own entry is stale forwards to itself.
ForwardsToSelf(r, p) == active[r][p] = 0 /\ routing[r][p] # NoRoute

\* handleRelayReq takes its remote branch at r.
Forwards(r, p) ==
    /\ active[r][p] = 0
    /\ routing[r][p] # NoRoute
    /\ routing[r][p].relay # r

\* handleRelayReq: the lookup under the read lock and the branch it selects.
\* Forwarding dials the remote relay, which may fail.
HandleRelayReq(q) ==
    LET r == Here(q)
        p == target[q] IN
    /\ status[q] = "routing"
    /\ \/ /\ active[r][p] # 0
          /\ status' = [status EXCEPT ![q] = "notified"] /\ UNCHANGED hops
       \/ /\ Forwards(r, p)
          /\ hops' = [hops EXCEPT ![q] = Append(@, routing[r][p])] /\ UNCHANGED status
       \/ /\ Forwards(r, p)
          /\ status' = [status EXCEPT ![q] = "unreachable"] /\ UNCHANGED hops
       \/ /\ active[r][p] = 0 /\ ~Forwards(r, p)
          /\ status' = [status EXCEPT ![q] = "offline"] /\ UNCHANGED hops
    /\ UNCHANGED <<timeVars, linkVars, peerVars, target, routing, gossip>>

\* The setup guard of an earlier hop expires and the chain is torn down.
SetupExpires(q) ==
    /\ status[q] = "routing" /\ Len(hops[q]) > 1
    /\ status' = [status EXCEPT ![q] = "expired"]
    /\ UNCHANGED <<timeVars, linkVars, peerVars, target, hops, routing, gossip>>

-----------------------------------------------------------------------------
Gossip == \E m \in BagToSet(gossip) : ProcessGossipUpdate(m)

Next ==
    \/ \E r \in Relays, p \in Peers : Announce(r, p)
    \/ \E c \in controls : HandleAnnounce(c) \/ ControlLoopEnds(c)
    \/ Gossip
    \/ \E l \in Link : ConnectToNeighbor(l) \/ NeighborConnEnds(l)
    \/ \E l \in Link : RegisterNeighbor(l[1], l) \/ RegisterNeighbor(l[2], l)
    \/ \E q \in Requests, r \in Relays : RelayReq(q, r)
    \/ \E q \in Requests : HandleRelayReq(q) \/ SetupExpires(q)

Spec == Init /\ [][Next]_vars

\* Envelopes on an open connection are delivered, and a connection that was
\* dialled is registered by both ends.
FairSpec ==
    /\ Spec
    /\ WF_vars(Gossip)
    /\ \A l \in Link : \A r \in Relays : WF_vars(RegisterNeighbor(r, l))
    /\ \A l \in Link : WF_vars(ConnectToNeighbor(l))

-----------------------------------------------------------------------------
(* Properties *)

RouteOK(r, p) ==
    LET e == routing[r][p] IN
    /\ announced[r][p] <= clock[r]
    /\ e = NoRoute => announced[r][p] = 0
    /\ e # NoRoute => /\ announced[r][p] <= e.ts
                      /\ e.ts <= announced[e.relay][p]
                      /\ e.relay # r => announced[r][p] < e.ts

\* The announcement a relay follows is the newest it knows: at least as new as
\* its own last one, newer if it names another relay, and no newer than the last
\* one of the relay it names.  Envelopes in flight carry such announcements too.
RoutingInv ==
    /\ \A r \in Relays : clock[r] <= now + Skew
    /\ \A r \in Relays, p \in Peers : RouteOK(r, p)
    /\ \A m \in BagToSet(gossip) : m.ts <= announced[m.relay][m.fp]

\* The remote branches of handleRelayReq never lead round in a circle: no set of
\* relays forwards every request for a peer from one member to another, whatever
\* the clock skew, lost envelopes and moves of the peer.
NoRoutingLoop ==
    \A p \in Peers : \A C \in SUBSET Relays :
        C # {} => \E r \in C : ~(Forwards(r, p) /\ routing[r][p].relay \in C)

\* The relays a request visits follow announcements of strictly increasing time,
\* so a request comes back to a relay only if the peer announced there again.
RequestClimbs ==
    \A q \in Requests : \A i, j \in DOMAIN hops[q] :
        i < j => hops[q][i].ts < hops[q][j].ts

\* Relays end up agreeing that a peer is where it announced last.
Converges == <>[](\A r \in Relays, p \in Peers : routing[r][p] = latest[p])
=============================================================================
