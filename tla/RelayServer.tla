----------------------------- MODULE RelayServer -----------------------------
(***************************************************************************)
(* One relay: the goroutine that handles each inbound socket, the tables   *)
(* they share under RelayServer.mu, the pairing of a RELAY_REQ with the    *)
(* ACCEPT_RELAY that answers it, the outbound leg of a two-hop tunnel, and *)
(* Close (uniconn-go/p2p/relay.go, setup.go).                              *)
(*                                                                         *)
(* pc[c] is where the handler of socket c stands.  A step is one section   *)
(* under mu or one blocking operation.  The token of a session is the      *)
(* requester's socket, of which each handleRelayReq has its own.  Which    *)
(* relay globalRouting names is left open here (GossipRouting models it).  *)
(***************************************************************************)
EXTENDS Naturals, FiniteSets

CONSTANTS
    Conns,           \* inbound sockets
    Nodes,           \* node fingerprints
    None,            \* nil
    MaxConnections   \* RelayConfig.MaxConnections, 0 for no limit

ASSUME RelayAssumption ==
    /\ None \notin Conns /\ None \notin Nodes
    /\ IsFiniteSet(Conns)
    /\ MaxConnections \in Nat

VARIABLES
    pc,               \* pc[c]: where handleIncoming(c) stands
    sock,             \* sock[c]: "none", "open" or "closed"
    connections,      \* RelayServer.connections
    connsCount,       \* RelayServer.connsCount
    unregistering,    \* sockets closed by relayConn.Close, not yet deleted from the map
    fp,               \* fp[c]: fingerprint c announces or asks for
    announced,        \* announced[c]: an ANNOUNCE of c was applied
    activeNodes,      \* activeNodes[n]: control connection of n, or None
    entry,            \* entry[c]: control connection the lookup of c found
    pendingSessions,  \* tokens ACCEPT_RELAY may still claim
    issued,           \* tokens some node has received in INCOMING_RELAY
    token,            \* token[c]: token c quotes in its ACCEPT_RELAY
    waitCh,           \* waitCh[c]: socket published to the session of c, or None
    target,           \* target[c]: socket the session of c took, or None
    out,              \* out[c]: outbound leg of handleRemoteRelayReq, as sock
    closing,          \* how far RelayServer.Close has got
    toClose           \* sockets in the snapshot Close has still to close

sockVars == <<sock, unregistering>>
tableVars == <<connections, connsCount>>
nodeVars == <<announced, activeNodes>>
sessionVars == <<pendingSessions, issued, waitCh>>
closeVars == <<closing, toClose>>
localVars == <<fp, entry, token, target, out>>
vars == <<pc, sock, connections, connsCount, unregistering, fp, announced,
          activeNodes, entry, pendingSessions, issued, token, waitCh, target,
          out, closing, toClose>>

Location == {"new", "accepted", "setup", "announce", "control", "lookup",
             "register", "notify", "wait", "proxy", "cleanup", "late", "accept",
             "handed", "dial", "remote", "pipe", "neighbor", "stray", "close", "done"}
Socket == {"none", "open", "closed"}

\* The handlers, sockets and tables hold values of their types.
TypeOK ==
    /\ pc \in [Conns -> Location]
    /\ sock \in [Conns -> Socket] /\ out \in [Conns -> Socket]
    /\ connections \subseteq Conns /\ unregistering \subseteq connections
    /\ connsCount \in Nat
    /\ fp \in [Conns -> Nodes \cup {None}]
    /\ announced \in [Conns -> BOOLEAN]
    /\ activeNodes \in [Nodes -> Conns \cup {None}]
    /\ entry \in [Conns -> Conns \cup {None}] /\ token \in [Conns -> Conns \cup {None}]
    /\ waitCh \in [Conns -> Conns \cup {None}] /\ target \in [Conns -> Conns \cup {None}]
    /\ pendingSessions \subseteq Conns /\ issued \subseteq Conns
    /\ closing \in {"run", "cancelled", "stopped", "closing", "closed"}
    /\ toClose \subseteq Conns

Init ==
    /\ pc = [c \in Conns |-> "new"]
    /\ sock = [c \in Conns |-> "none"] /\ out = [c \in Conns |-> "none"]
    /\ connections = {} /\ connsCount = 0 /\ unregistering = {}
    /\ fp = [c \in Conns |-> None] /\ announced = [c \in Conns |-> FALSE]
    /\ activeNodes = [n \in Nodes |-> None]
    /\ entry = [c \in Conns |-> None] /\ token = [c \in Conns |-> None]
    /\ waitCh = [c \in Conns |-> None] /\ target = [c \in Conns |-> None]
    /\ pendingSessions = {} /\ issued = {}
    /\ closing = "run" /\ toClose = {}

Cancelled == closing # "run"
Goto(c, l) == pc' = [pc EXCEPT ![c] = l]

\* relayConn.Close for each socket of S: close the socket first; the map and the
\* counter follow in Unregister.  A second Close of a socket does nothing.
CloseSockets(S) ==
    LET T == {c \in S : sock[c] = "open"} IN
    /\ sock' = [c \in Conns |-> IF c \in T THEN "closed" ELSE sock[c]]
    /\ unregistering' = unregistering \cup (T \cap connections)

Unregister(c) ==
    /\ c \in unregistering
    /\ unregistering' = unregistering \ {c}
    /\ connections' = connections \ {c}
    /\ connsCount' = connsCount - 1
    /\ UNCHANGED <<pc, sock, nodeVars, sessionVars, localVars, closeVars>>

-----------------------------------------------------------------------------
(* handleIncoming *)

\* Serve: Accept returns a socket and its handler starts.
Accept(c) ==
    /\ pc[c] = "new" /\ closing \in {"run", "cancelled"}
    /\ Goto(c, "accepted")
    /\ sock' = [sock EXCEPT ![c] = "open"]
    /\ UNCHANGED <<unregistering, tableVars, nodeVars, sessionVars, localVars, closeVars>>

\* Mutant of AtLimit: off by one.
AboveLimit == MaxConnections > 0 /\ connsCount > MaxConnections

AtLimit == MaxConnections > 0 /\ connsCount >= MaxConnections

\* Mutant of Refused: the relay's context is not looked at.
RefusedAtLimitOnly == AtLimit

Refused == Cancelled \/ AtLimit

\* The first section under mu: refuse the socket or start to track it.
Admit(c) ==
    /\ pc[c] = "accepted"
    /\ \/ /\ Refused
          /\ Goto(c, "done") /\ CloseSockets({c})
          /\ UNCHANGED tableVars
       \/ /\ ~Refused
          /\ Goto(c, "setup")
          /\ connections' = connections \cup {c} /\ connsCount' = connsCount + 1
          /\ UNCHANGED sockVars
    /\ UNCHANGED <<nodeVars, sessionVars, localVars, closeVars>>

\* Handshake, first envelope or its payload fails, its type is unknown, a
\* fingerprint is invalid, or the setup guard fired: the handler closes.
SetupFails(c) ==
    /\ pc[c] = "setup"
    /\ Goto(c, "close")
    /\ UNCHANGED <<sockVars, tableVars, nodeVars, sessionVars, localVars, closeVars>>

\* finish() succeeded, so the context was still live, and the envelope selects
\* the branch.  A RELAY_INTERNAL_REQ is handled as a RELAY_REQ, but when its
\* payload does not parse the handler returns and leaves the socket open.
FirstEnvelope(c) ==
    /\ pc[c] = "setup" /\ sock[c] = "open" /\ ~Cancelled
    /\ \/ /\ \E n \in Nodes : fp' = [fp EXCEPT ![c] = n]
          /\ \E l \in {"announce", "control", "lookup"} : Goto(c, l)
          /\ UNCHANGED token
       \/ /\ \E t \in issued : token' = [token EXCEPT ![c] = t]
          /\ Goto(c, "accept") /\ UNCHANGED fp
       \/ /\ \E l \in {"neighbor", "stray"} : Goto(c, l)
          /\ UNCHANGED <<fp, token>>
    /\ UNCHANGED <<sockVars, tableVars, nodeVars, sessionVars, entry, target, out, closeVars>>

\* A branch that ends with Close.
CloseAndReturn(c) ==
    /\ pc[c] = "close"
    /\ Goto(c, "done") /\ CloseSockets({c})
    /\ UNCHANGED <<tableVars, nodeVars, sessionVars, localVars, closeVars>>

List(c) ==
    /\ activeNodes' = [activeNodes EXCEPT ![fp[c]] = c]
    /\ announced' = [announced EXCEPT ![c] = TRUE]

\* The initial ANNOUNCE.  (When its payload does not parse the control loop starts
\* without it: FirstEnvelope goes straight to "control".)
Announce(c) ==
    /\ pc[c] = "announce"
    /\ List(c) /\ Goto(c, "control")
    /\ UNCHANGED <<sockVars, tableVars, sessionVars, localVars, closeVars>>

\* A later ANNOUNCE on the control connection.
HandleAnnounce(c) ==
    /\ pc[c] = "control"
    /\ List(c)
    /\ UNCHANGED <<pc, sockVars, tableVars, sessionVars, localVars, closeVars>>

Unlist(c) ==
    activeNodes' = IF activeNodes[fp[c]] = c
                   THEN [activeNodes EXCEPT ![fp[c]] = None] ELSE activeNodes

\* controlLoop returns: its deferred function.
ControlLoopEnds(c) ==
    /\ pc[c] = "control"
    /\ Unlist(c) /\ Goto(c, "close")
    /\ UNCHANGED <<sockVars, tableVars, announced, sessionVars, localVars, closeVars>>

\* handleNeighborConn of an inbound relay returns.
NeighborConnEnds(c) ==
    /\ pc[c] = "neighbor"
    /\ Goto(c, "close")
    /\ UNCHANGED <<sockVars, tableVars, nodeVars, sessionVars, localVars, closeVars>>

-----------------------------------------------------------------------------
(* handleRelayReq and handleAcceptRelay *)

\* The lookup under the read lock: a local target, a route to another relay, or
\* neither (a failed RELAY_ACK, then Close).
Lookup(c) ==
    /\ pc[c] = "lookup"
    /\ \/ /\ activeNodes[fp[c]] # None
          /\ entry' = [entry EXCEPT ![c] = activeNodes[fp[c]]]
          /\ Goto(c, "register")
       \/ /\ activeNodes[fp[c]] = None
          /\ \E l \in {"dial", "close"} : Goto(c, l)
          /\ UNCHANGED entry
    /\ UNCHANGED <<sockVars, tableVars, nodeVars, sessionVars, fp, token, target, out, closeVars>>

Register(c) ==
    /\ pc[c] = "register"
    /\ pendingSessions' = pendingSessions \cup {c}
    /\ Goto(c, "notify")
    /\ UNCHANGED <<sockVars, tableVars, nodeVars, issued, waitCh, localVars, closeVars>>

\* INCOMING_RELAY is written to the control connection found earlier, which may
\* be closed by now.  The node may answer before the write returns; the write has
\* no deadline, so while the node reads nothing it need not return at all.
Deliver(c) ==
    /\ pc[c] = "notify" /\ c \notin issued /\ sock[entry[c]] = "open"
    /\ issued' = issued \cup {c}
    /\ UNCHANGED <<pc, sockVars, tableVars, nodeVars, pendingSessions, waitCh, localVars, closeVars>>

NotifyReturns(c) ==
    /\ pc[c] = "notify" /\ Goto(c, "wait")
    /\ UNCHANGED <<sockVars, tableVars, nodeVars, sessionVars, localVars, closeVars>>

\* Mutant of Claim: the token stays valid after its first use.
ClaimAgain(t) == UNCHANGED pendingSessions

Claim(t) == pendingSessions' = pendingSessions \ {t}

\* handleAcceptRelay: claim the token and publish the socket in one section.  The
\* channel holds one socket; the send would block with mu held if it were full.
HandleAcceptRelay(c) ==
    /\ pc[c] = "accept"
    /\ \/ /\ token[c] \in pendingSessions /\ waitCh[token[c]] = None
          /\ Claim(token[c])
          /\ waitCh' = [waitCh EXCEPT ![token[c]] = c]
          /\ Goto(c, "handed")
       \/ /\ token[c] \notin pendingSessions
          /\ Goto(c, "close")
          /\ UNCHANGED <<pendingSessions, waitCh>>
    /\ UNCHANGED <<sockVars, tableVars, nodeVars, issued, localVars, closeVars>>

\* The select of handleRelayReq, one action per case; when several are ready the
\* runtime picks any.
WaitTarget(c) ==
    /\ pc[c] = "wait" /\ waitCh[c] # None
    /\ target' = [target EXCEPT ![c] = waitCh[c]]
    /\ waitCh' = [waitCh EXCEPT ![c] = None]
    /\ Goto(c, "proxy")
    /\ UNCHANGED <<sockVars, tableVars, nodeVars, pendingSessions, issued, fp, entry, token, out, closeVars>>

WaitTimeout(c) ==
    /\ pc[c] = "wait"
    /\ pendingSessions' = pendingSessions \ {c}
    /\ CloseSockets({c}) /\ Goto(c, "cleanup")
    /\ UNCHANGED <<tableVars, nodeVars, issued, waitCh, localVars, closeVars>>

WaitCancelled(c) ==
    /\ pc[c] = "wait" /\ Cancelled
    /\ CloseSockets({c}) /\ Goto(c, "cleanup")
    /\ UNCHANGED <<tableVars, nodeVars, sessionVars, localVars, closeVars>>

\* proxyConnections: when either direction ends, both sockets are closed.
ProxyEnds(c) ==
    /\ pc[c] = "proxy"
    /\ CloseSockets({c, target[c]}) /\ Goto(c, "cleanup")
    /\ UNCHANGED <<tableVars, nodeVars, sessionVars, localVars, closeVars>>

\* Mutant of Drain: a socket published while the timer fired is left behind.
DrainNothing(c) == Goto(c, "done") /\ UNCHANGED <<waitCh, target>>

\* What the deferred function finds in the channel it has to close.
Drain(c) ==
    IF waitCh[c] = None THEN Goto(c, "done") /\ UNCHANGED <<waitCh, target>>
    ELSE /\ Goto(c, "late")
         /\ target' = [target EXCEPT ![c] = waitCh[c]]
         /\ waitCh' = [waitCh EXCEPT ![c] = None]

\* The deferred function of handleRelayReq, under mu.
Cleanup(c) ==
    /\ pc[c] = "cleanup"
    /\ pendingSessions' = pendingSessions \ {c}
    /\ Drain(c)
    /\ UNCHANGED <<sockVars, tableVars, nodeVars, issued, fp, entry, token, out, closeVars>>

CloseLate(c) ==
    /\ pc[c] = "late"
    /\ CloseSockets({target[c]}) /\ Goto(c, "done")
    /\ UNCHANGED <<tableVars, nodeVars, sessionVars, localVars, closeVars>>

-----------------------------------------------------------------------------
(* handleRemoteRelayReq *)

\* Dial, handshake and RELAY_INTERNAL_REQ to the remote relay.
RemoteDial(c) ==
    /\ pc[c] = "dial"
    /\ \/ ~Cancelled /\ out' = [out EXCEPT ![c] = "open"] /\ Goto(c, "remote")
       \/ Goto(c, "close") /\ UNCHANGED out
    /\ UNCHANGED <<sockVars, tableVars, nodeVars, sessionVars, fp, entry, token, target, closeVars>>

\* RELAY_ACK arrives before the setup guard fires.
RemoteAck(c) ==
    /\ pc[c] = "remote" /\ ~Cancelled
    /\ Goto(c, "pipe")
    /\ UNCHANGED <<sockVars, tableVars, nodeVars, sessionVars, localVars, closeVars>>

\* Mutant of RemoteEnds: only the requester's side is closed.
RemoteEndsHalf(c) ==
    /\ pc[c] \in {"remote", "pipe"}
    /\ CloseSockets({c}) /\ Goto(c, "done")
    /\ UNCHANGED <<tableVars, nodeVars, sessionVars, localVars, closeVars>>

\* The answer is missing or not a RELAY_ACK, or the pipe ends: both legs close.
RemoteEnds(c) ==
    /\ pc[c] \in {"remote", "pipe"}
    /\ out' = [out EXCEPT ![c] = "closed"]
    /\ CloseSockets({c}) /\ Goto(c, "done")
    /\ UNCHANGED <<tableVars, nodeVars, sessionVars, fp, entry, token, target, closeVars>>

-----------------------------------------------------------------------------
(* RelayServer.Close *)

CloseVarsOnly == UNCHANGED <<pc, tableVars, nodeVars, sessionVars, localVars>>

Cancel == closing = "run" /\ closing' = "cancelled" /\ UNCHANGED <<toClose, sockVars>> /\ CloseVarsOnly
StopListener == closing = "cancelled" /\ closing' = "stopped" /\ UNCHANGED <<toClose, sockVars>> /\ CloseVarsOnly

\* The tracked sockets, read under the read lock.
Snapshot ==
    /\ closing = "stopped" /\ closing' = "closing"
    /\ toClose' = connections
    /\ UNCHANGED sockVars /\ CloseVarsOnly

CloseNext ==
    /\ closing = "closing"
    /\ \/ \E c \in toClose : /\ CloseSockets({c}) /\ toClose' = toClose \ {c}
                             /\ UNCHANGED closing
       \/ toClose = {} /\ closing' = "closed" /\ UNCHANGED <<toClose, sockVars>>
    /\ CloseVarsOnly

Close == Cancel \/ StopListener \/ Snapshot \/ CloseNext

-----------------------------------------------------------------------------
\* The steps of handler c that do not wait for the other side of a socket.
Handler(c) ==
    \/ Admit(c) \/ CloseAndReturn(c) \/ Lookup(c) \/ Register(c)
    \/ HandleAcceptRelay(c) \/ WaitTarget(c) \/ WaitTimeout(c) \/ WaitCancelled(c)
    \/ Cleanup(c) \/ CloseLate(c) \/ RemoteDial(c) \/ Announce(c)

\* The steps a read that fails or ends makes handler c take.
ReadEnds(c) ==
    SetupFails(c) \/ ControlLoopEnds(c) \/ NeighborConnEnds(c) \/ ProxyEnds(c) \/ RemoteEnds(c)

Next ==
    \/ \E c \in Conns : \/ Accept(c) \/ Unregister(c) \/ FirstEnvelope(c) \/ Handler(c)
                        \/ Deliver(c) \/ NotifyReturns(c)
                        \/ HandleAnnounce(c) \/ RemoteAck(c) \/ ReadEnds(c)
    \/ Close

Spec == Init /\ [][Next]_vars

\* Goroutines run, timers fire, and a read on a closed socket fails, as does the
\* read of the socket at the other end of a tunnel.
FairSpec ==
    /\ Spec /\ WF_vars(StopListener \/ Snapshot \/ CloseNext)
    /\ \A c \in Conns :
          /\ WF_vars(Handler(c)) /\ WF_vars(Unregister(c))
          /\ WF_vars(sock[c] = "closed" /\ ReadEnds(c))
          /\ WF_vars(/\ pc[c] = "notify" /\ (c \in issued \/ sock[entry[c]] = "closed")
                     /\ NotifyReturns(c))
          /\ WF_vars(pc[c] = "proxy" /\ sock[target[c]] = "closed" /\ ProxyEnds(c))

-----------------------------------------------------------------------------
(* Properties *)

\* The counter that MaxConnections is compared with is the size of the map, and
\* never are more tracked sockets open than the limit allows.
InboundLimit ==
    /\ connsCount = Cardinality(connections)
    /\ MaxConnections > 0 =>
          Cardinality({c \in connections : sock[c] = "open"}) <= MaxConnections

\* Some goroutine other than the finished handler of c will close c.
OwnedBySession(c) ==
    \E s \in Conns :
        \/ waitCh[s] = c /\ pc[s] \in {"notify", "wait", "cleanup"}
        \/ target[s] = c /\ pc[s] \in {"proxy", "late"}

\* No socket is orphaned: when its handler has returned and the socket is open, a
\* session holds it, also when ACCEPT_RELAY races the session's timeout.
NoOrphan ==
    \A c \in Conns : sock[c] = "open" /\ pc[c] \in {"handed", "done"} => OwnedBySession(c)

\* The send to waitCh under mu never blocks: a token that can be claimed belongs to
\* a session whose channel is empty.
PublishNeverBlocks == \A t \in pendingSessions : waitCh[t] = None

\* A token pairs one requester with one socket: of several ACCEPT_RELAY that quote
\* the same token at most one takes part in the session.
TokenUsedOnce ==
    \A c, d \in Conns :
        pc[c] = "handed" /\ pc[d] = "handed" /\ token[c] = token[d] => c = d

\* Once Close has returned, every tracked socket is closed: none was admitted
\* between the cancellation and the snapshot.
ClosedMeansClosed == closing = "closed" => \A c \in connections : sock[c] = "closed"

\* After Close every socket, the outbound leg of a two-hop tunnel included, ends
\* up closed for good.
ShutdownReleases ==
    closing = "closed" ~> [](\A c \in Conns : sock[c] # "open" /\ out[c] # "open")

\* A node that accepted a session is paired with the requester or let go.
AcceptSettles ==
    \A c \in Conns :
        pc[c] = "handed" ~> (sock[c] = "closed" \/ \E s \in Conns : target[s] = c)

\* MaxConnections counts inbound sockets only, but every outbound leg belongs to one
\* of them: together they are at most twice as many.
StreamBound ==
    MaxConnections > 0 =>
        Cardinality({c \in Conns : out[c] = "open"}) <= MaxConnections

\* A node whose only running control connection has announced can be reached.
AnnouncedIsListed ==
    \A c \in Conns :
        /\ pc[c] = "control" /\ announced[c]
        /\ \A d \in Conns \ {c} : fp[d] = fp[c] => pc[d] = "done"
        => activeNodes[fp[c]] = c
=============================================================================
