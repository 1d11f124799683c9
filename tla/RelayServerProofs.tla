-------------------------- MODULE RelayServerProofs --------------------------
(***************************************************************************)
(* The safety properties of RelayServer, for any number of sockets and     *)
(* nodes and any limit on connections.                                     *)
(***************************************************************************)
EXTENDS RelayServer, FiniteSetTheorems, TLAPS

\* A token that can be claimed, a published socket and a socket a session took
\* exclude each other, and the last two are sockets whose ACCEPT_RELAY quoted it.
SessionInv ==
    /\ \A s \in pendingSessions :
          pc[s] \in {"notify", "wait", "cleanup"} /\ waitCh[s] = None /\ target[s] = None
    /\ \A s \in Conns :
          /\ waitCh[s] # None =>
                /\ pc[s] \in {"notify", "wait", "cleanup"} /\ target[s] = None
                /\ pc[waitCh[s]] = "handed" /\ token[waitCh[s]] = s
          /\ target[s] # None =>
                /\ pc[s] \in {"proxy", "cleanup", "late", "done"}
                /\ pc[target[s]] = "handed" /\ token[target[s]] = s
          /\ pc[s] \in {"proxy", "late"} => target[s] # None
          /\ pc[s] \in {"accept", "handed"} => token[s] \in Conns
          /\ pc[s] = "handed" => waitCh[token[s]] = s \/ target[token[s]] = s

\* A handler that is over has closed its socket and the one it took.
SockInv ==
    \A c \in Conns :
        /\ sock[c] = "none" <=> pc[c] = "new"
        /\ pc[c] = "accepted" => sock[c] = "open"
        /\ pc[c] \in {"cleanup", "late", "done"} => sock[c] # "open"
        /\ target[c] # None /\ pc[c] \in {"cleanup", "done"} => sock[target[c]] # "open"

\* Sockets are counted while they are in the map, up to the limit.
TableInv ==
    /\ connsCount = Cardinality(connections)
    /\ MaxConnections > 0 => connsCount <= MaxConnections
    /\ \A c \in connections : pc[c] \notin {"new", "accepted"}
    /\ \A c \in unregistering : sock[c] = "closed"

\* Until Close begins the handlers on their way to a second leg are tracked, and a
\* handler that looks for a node has its fingerprint.
LegInv ==
    \A c \in Conns :
        /\ pc[c] = "lookup" => fp[c] \in Nodes
        /\ out[c] = "open" => pc[c] \in {"remote", "pipe"}
        /\ ~Cancelled /\ pc[c] \in {"setup", "lookup", "dial", "remote", "pipe"} =>
              c \in connections /\ sock[c] = "open"

\* What Close has still to close is in its snapshot.
CloseInv ==
    /\ \A c \in toClose : pc[c] \notin {"new", "accepted"}
    /\ closing \in {"closing", "closed"} =>
          \A c \in connections : sock[c] = "open" => closing = "closing" /\ c \in toClose

\* The inductive invariant.
RelayInv == TypeOK /\ SessionInv /\ SockInv /\ TableInv /\ LegInv /\ CloseInv /\ StreamBound

-----------------------------------------------------------------------------
\* The invariant holds when a relay starts.
LEMMA RelayInvInit == Init => RelayInv
<1> SUFFICES ASSUME Init PROVE RelayInv
  OBVIOUS
<1> USE RelayAssumption DEF Init
<1>1. TypeOK
  BY DEF TypeOK, Location, Socket
<1>2. SessionInv /\ SockInv /\ LegInv /\ CloseInv
  BY DEF SessionInv, SockInv, LegInv, CloseInv
<1>3. TableInv
  BY FS_EmptySet DEF TableInv
<1>4. {c \in Conns : out[c] = "open"} = {}
  OBVIOUS
<1>5. StreamBound
  BY <1>4, FS_EmptySet DEF StreamBound
<1> QED
  BY <1>1, <1>2, <1>3, <1>5 DEF RelayInv

\* The tables and the outbound legs stay as they are.
LEMMA StreamKept ==
    ASSUME StreamBound, UNCHANGED out
    PROVE  StreamBound'
BY DEF StreamBound

\* relayConn.Close opens nothing, closes what it is given and changes no other socket.
LEMMA CloseEffect ==
    ASSUME TypeOK, TableInv, NEW S, CloseSockets(S), UNCHANGED connections
    PROVE  /\ sock' \in [Conns -> Socket]
           /\ unregistering' \subseteq connections'
           /\ \A c \in unregistering' : sock'[c] = "closed"
           /\ \A c \in Conns : /\ sock'[c] = "open" <=> sock[c] = "open" /\ c \notin S
                               /\ sock'[c] = "none" <=> sock[c] = "none"
BY DEF CloseSockets, TypeOK, TableInv, Socket

\* The places where a handler is not part of a session and has its socket open.
Quiet == {"setup", "announce", "control", "lookup", "register", "accept", "dial",
          "remote", "pipe", "neighbor", "stray", "close"}
Leg == {"setup", "lookup", "dial", "remote", "pipe"}

\* A handler moves on by itself.
LEMMA QuietMove ==
    ASSUME RelayInv, TypeOK', NEW c \in Conns, NEW l \in Quiet,
           pc[c] \in Quiet, pc' = [pc EXCEPT ![c] = l],
           l \in Leg => pc[c] \in Leg,
           pc[c] \in {"remote", "pipe"} => l \in {"remote", "pipe"},
           l = "accept" => token'[c] \in Conns,
           l = "lookup" => fp'[c] \in Nodes,
           \A d \in Conns \ {c} : token'[d] = token[d] /\ fp'[d] = fp[d],
           UNCHANGED <<sock, connections, connsCount, unregistering, pendingSessions, waitCh,
                       target, out, closing, toClose>>
    PROVE  RelayInv'
<1> USE RelayAssumption
<1>1. SessionInv'
  BY DEF RelayInv, TypeOK, SessionInv, Quiet
<1>2. SockInv'
  BY DEF RelayInv, TypeOK, SockInv, Quiet
<1>3. TableInv'
  BY Zenon DEF RelayInv, TypeOK, TableInv, Quiet
<1>4. LegInv'
  BY Zenon DEF RelayInv, TypeOK, LegInv, Quiet, Leg, Cancelled
<1>5. CloseInv' /\ StreamBound'
  BY StreamKept DEF RelayInv, TypeOK, CloseInv, Quiet
<1> QED
  BY <1>1, <1>2, <1>3, <1>4, <1>5, Zenon DEF RelayInv

\* Nothing the invariant speaks of changes.
LEMMA NothingMoves ==
    ASSUME RelayInv, TypeOK',
           UNCHANGED <<pc, sock, connections, connsCount, unregistering, fp, pendingSessions,
                       token, waitCh, target, out, closing, toClose>>
    PROVE  RelayInv'
<1>1. SessionInv' /\ SockInv' /\ TableInv'
  BY Zenon DEF RelayInv, SessionInv, SockInv, TableInv
<1>2. LegInv' /\ CloseInv' /\ StreamBound'
  BY StreamKept DEF RelayInv, LegInv, CloseInv, Cancelled
<1> QED
  BY <1>1, <1>2, Zenon DEF RelayInv

-----------------------------------------------------------------------------
\* The steps in which a handler moves on by itself keep the invariant.
LEMMA QuietStep ==
    ASSUME RelayInv, NEW c \in Conns,
           \/ SetupFails(c) \/ FirstEnvelope(c) \/ Announce(c) \/ HandleAnnounce(c)
           \/ ControlLoopEnds(c) \/ NeighborConnEnds(c) \/ Lookup(c) \/ RemoteAck(c)
           \/ Deliver(c)
    PROVE  RelayInv'
<1>type. TypeOK
  BY DEF RelayInv
<1> USE RelayAssumption DEF Goto, sockVars, tableVars, nodeVars, sessionVars, closeVars, localVars
<1>1. CASE SetupFails(c)
  <2>1. TypeOK'
    BY <1>1, <1>type DEF SetupFails, TypeOK, Location
  <2> QED
    BY <1>1, <2>1, QuietMove, Zenon DEF SetupFails, Quiet, Leg
<1>2. CASE FirstEnvelope(c)
  <2>1. PICK l \in {"announce", "control", "lookup", "accept", "neighbor", "stray"} :
           pc' = [pc EXCEPT ![c] = l]
    BY <1>2, Zenon DEF FirstEnvelope
  <2>2. /\ pc[c] = "setup"
        /\ fp' = fp \/ \E n \in Nodes : fp' = [fp EXCEPT ![c] = n]
        /\ token' = token \/ \E t \in issued : token' = [token EXCEPT ![c] = t]
        /\ UNCHANGED <<sock, unregistering, connections, connsCount, announced, activeNodes,
                       pendingSessions, issued, waitCh, entry, target, out, closing, toClose>>
    BY <1>2, Zenon DEF FirstEnvelope
  <2>3. l = "lookup" => \E n \in Nodes : fp' = [fp EXCEPT ![c] = n]
    BY <1>2, <2>1, <1>type, Zenon DEF FirstEnvelope, TypeOK
  <2>4. l = "accept" => \E t \in issued : token' = [token EXCEPT ![c] = t]
    BY <1>2, <2>1, <1>type, Zenon DEF FirstEnvelope, TypeOK
  <2>5. fp' \in [Conns -> Nodes \cup {None}] /\ token' \in [Conns -> Conns \cup {None}]
    BY <2>2, <1>type DEF TypeOK
  <2>6. TypeOK'
    BY <2>1, <2>2, <2>5, <1>type, Zenon DEF TypeOK, Location
  <2>7. \A d \in Conns \ {c} : token'[d] = token[d] /\ fp'[d] = fp[d]
    BY <2>2, <1>type, Zenon DEF TypeOK
  <2>8. (l = "lookup" => fp'[c] \in Nodes) /\ (l = "accept" => token'[c] \in Conns)
    BY <2>3, <2>4, <1>type DEF TypeOK
  <2> QED
    BY <2>1, <2>2, <2>6, <2>7, <2>8, QuietMove, Zenon DEF Quiet, Leg
<1>3. CASE Announce(c)
  <2>1. TypeOK'
    BY <1>3, <1>type, Zenon DEF Announce, List, TypeOK, Location
  <2> QED
    BY <1>3, <2>1, QuietMove, Zenon DEF Announce, Quiet, Leg
<1>4. CASE HandleAnnounce(c)
  <2>1. TypeOK'
    BY <1>4, <1>type, Zenon DEF HandleAnnounce, List, TypeOK
  <2> QED
    BY <1>4, <2>1, NothingMoves DEF HandleAnnounce
<1>5. CASE ControlLoopEnds(c)
  <2>1. TypeOK'
    BY <1>5, <1>type, Zenon DEF ControlLoopEnds, Unlist, TypeOK, Location
  <2> QED
    BY <1>5, <2>1, QuietMove, Zenon DEF ControlLoopEnds, Quiet, Leg
<1>6. CASE NeighborConnEnds(c)
  <2>1. TypeOK'
    BY <1>6, <1>type DEF NeighborConnEnds, TypeOK, Location
  <2> QED
    BY <1>6, <2>1, QuietMove, Zenon DEF NeighborConnEnds, Quiet, Leg
<1>7. CASE Lookup(c)
  <2>1. PICK l \in {"register", "dial", "close"} : pc' = [pc EXCEPT ![c] = l]
    BY <1>7, Zenon DEF Lookup
  <2>2. fp[c] \in Nodes
    BY <1>7, Zenon DEF Lookup, RelayInv, LegInv
  <2>3. entry' \in [Conns -> Conns \cup {None}]
    BY <1>7, <2>2, <1>type, Zenon DEF Lookup, TypeOK
  <2>4. TypeOK'
    BY <1>7, <2>1, <2>3, <1>type, Zenon DEF Lookup, TypeOK, Location
  <2> QED
    BY <1>7, <2>1, <2>4, QuietMove, Zenon DEF Lookup, Quiet, Leg
<1>8. CASE RemoteAck(c)
  <2>1. TypeOK'
    BY <1>8, <1>type, Zenon DEF RemoteAck, TypeOK, Location
  <2> QED
    BY <1>8, <2>1, QuietMove, Zenon DEF RemoteAck, Quiet, Leg
<1>9. CASE Deliver(c)
  <2>1. TypeOK'
    BY <1>9, <1>type DEF Deliver, TypeOK
  <2> QED
    BY <1>9, <2>1, NothingMoves, Zenon DEF Deliver
<1> QED
  BY <1>1, <1>2, <1>3, <1>4, <1>5, <1>6, <1>7, <1>8, <1>9, Zenon

\* A handler moves while sockets, tables and outbound legs stay as they are.
LEMMA TablesKept ==
    ASSUME RelayInv, TypeOK', NEW c \in Conns, NEW l \in Location, pc[c] \notin {"new", "accepted"},
           l \notin {"new", "accepted"} \cup Leg, pc[c] \notin {"remote", "pipe"},
           pc' = [pc EXCEPT ![c] = l],
           UNCHANGED <<sock, connections, connsCount, unregistering, fp, out, closing, toClose>>
    PROVE  TableInv' /\ LegInv' /\ CloseInv' /\ StreamBound'
<1>1. TableInv'
  BY Zenon DEF RelayInv, TypeOK, TableInv
<1>2. LegInv'
  BY Zenon DEF RelayInv, TypeOK, LegInv, Leg, Cancelled
<1>3. CloseInv' /\ StreamBound'
  BY StreamKept DEF RelayInv, CloseInv
<1> QED
  BY <1>1, <1>2, <1>3, Zenon

\* The steps of a session that close nothing keep the invariant.
LEMMA SessionStep ==
    ASSUME RelayInv, NEW c \in Conns,
           Register(c) \/ NotifyReturns(c) \/ HandleAcceptRelay(c) \/ WaitTarget(c) \/ Cleanup(c)
    PROVE  RelayInv'
<1>type. TypeOK
  BY DEF RelayInv
<1>session. SessionInv
  BY DEF RelayInv
<1>sock. SockInv
  BY DEF RelayInv
<1> USE RelayAssumption DEF Goto, sockVars, tableVars, nodeVars, sessionVars, closeVars, localVars
<1>1. CASE Register(c)
  <2>1. TypeOK'
    BY <1>1, <1>type DEF Register, TypeOK, Location
  <2>2. TableInv' /\ LegInv' /\ CloseInv' /\ StreamBound'
    BY <1>1, <2>1, TablesKept, Zenon DEF Register, Location, Leg
  <2>3. SessionInv'
    BY <1>1, <1>type, <1>session DEF Register, TypeOK, SessionInv
  <2>4. SockInv'
    BY <1>1, <1>type, <1>sock, Zenon DEF Register, TypeOK, SockInv
  <2> QED
    BY <2>1, <2>2, <2>3, <2>4, Zenon DEF RelayInv
<1>2. CASE NotifyReturns(c)
  <2>1. TypeOK'
    BY <1>2, <1>type DEF NotifyReturns, TypeOK, Location
  <2>2. TableInv' /\ LegInv' /\ CloseInv' /\ StreamBound'
    BY <1>2, <2>1, TablesKept, Zenon DEF NotifyReturns, Location, Leg
  <2>3. SessionInv'
    BY <1>2, <1>type, <1>session DEF NotifyReturns, TypeOK, SessionInv
  <2>4. SockInv'
    BY <1>2, <1>type, <1>sock, Zenon DEF NotifyReturns, TypeOK, SockInv
  <2> QED
    BY <2>1, <2>2, <2>3, <2>4, Zenon DEF RelayInv
<1>3. CASE HandleAcceptRelay(c) /\ token[c] \in pendingSessions
  <2>1. /\ pc[c] = "accept" /\ pc' = [pc EXCEPT ![c] = "handed"]
        /\ pendingSessions' = pendingSessions \ {token[c]}
        /\ waitCh' = [waitCh EXCEPT ![token[c]] = c]
        /\ UNCHANGED <<sock, unregistering, connections, connsCount, announced, activeNodes,
                       issued, fp, entry, token, target, out, closing, toClose>>
    BY <1>3, Zenon DEF HandleAcceptRelay, Claim
  <2>2. token[c] \in Conns /\ token[c] # c
    BY <1>3, <2>1, <1>type, <1>session, Zenon DEF TypeOK, SessionInv
  <2>3. TypeOK'
    BY <2>1, <1>type, Zenon DEF TypeOK, Location
  <2>4. TableInv' /\ LegInv' /\ CloseInv' /\ StreamBound'
    BY <2>1, <2>3, TablesKept, Zenon DEF Location, Leg
  <2>5. SessionInv'
    BY <1>3, <2>1, <2>2, <1>type, <1>session DEF TypeOK, SessionInv
  <2>6. SockInv'
    BY <2>1, <1>type, <1>sock, Zenon DEF TypeOK, SockInv
  <2> QED
    BY <2>3, <2>4, <2>5, <2>6, Zenon DEF RelayInv
<1>4. CASE HandleAcceptRelay(c) /\ token[c] \notin pendingSessions
  <2>1. /\ pc[c] = "accept" /\ pc' = [pc EXCEPT ![c] = "close"]
        /\ UNCHANGED <<sock, unregistering, connections, connsCount, announced, activeNodes,
                       pendingSessions, issued, waitCh, fp, entry, token, target, out, closing,
                       toClose>>
    BY <1>4, Zenon DEF HandleAcceptRelay
  <2>2. TypeOK'
    BY <2>1, <1>type, Zenon DEF TypeOK, Location
  <2> QED
    BY <2>1, <2>2, QuietMove, Zenon DEF Quiet, Leg
<1>5. CASE WaitTarget(c)
  <2>1. waitCh[c] \in Conns /\ waitCh[c] # c
    BY <1>5, <1>type, <1>session DEF WaitTarget, TypeOK, SessionInv
  <2>2. TypeOK'
    BY <1>5, <2>1, <1>type, Zenon DEF WaitTarget, TypeOK, Location
  <2>3. TableInv' /\ LegInv' /\ CloseInv' /\ StreamBound'
    BY <1>5, <2>2, TablesKept, Zenon DEF WaitTarget, Location, Leg
  <2>4. SessionInv'
    BY <1>5, <2>1, <1>type, <1>session DEF WaitTarget, TypeOK, SessionInv
  <2>5. SockInv'
    BY <1>5, <1>type, <1>sock, Zenon DEF WaitTarget, TypeOK, SockInv
  <2> QED
    BY <2>2, <2>3, <2>4, <2>5 DEF RelayInv
<1>6. CASE Cleanup(c) /\ waitCh[c] = None
  <2>1. /\ pc[c] = "cleanup" /\ pc' = [pc EXCEPT ![c] = "done"]
        /\ pendingSessions' = pendingSessions \ {c}
        /\ UNCHANGED <<sock, unregistering, connections, connsCount, announced, activeNodes,
                       issued, waitCh, fp, entry, token, target, out, closing, toClose>>
    BY <1>6, Zenon DEF Cleanup, Drain
  <2>2. TypeOK'
    BY <2>1, <1>type DEF TypeOK, Location
  <2>3. TableInv' /\ LegInv' /\ CloseInv' /\ StreamBound'
    BY <2>1, <2>2, TablesKept, Zenon DEF Location, Leg
  <2>4. SessionInv'
    BY <1>6, <2>1, <1>type, <1>session DEF TypeOK, SessionInv
  <2>5. SockInv'
    BY <2>1, <1>type, <1>sock, Zenon DEF TypeOK, SockInv
  <2> QED
    BY <2>2, <2>3, <2>4, <2>5 DEF RelayInv
<1>7. CASE Cleanup(c) /\ waitCh[c] # None
  <2>1. /\ pc[c] = "cleanup" /\ pc' = [pc EXCEPT ![c] = "late"]
        /\ pendingSessions' = pendingSessions \ {c}
        /\ target' = [target EXCEPT ![c] = waitCh[c]] /\ waitCh' = [waitCh EXCEPT ![c] = None]
        /\ UNCHANGED <<sock, unregistering, connections, connsCount, announced, activeNodes,
                       issued, fp, entry, token, out, closing, toClose>>
    BY <1>7, Zenon DEF Cleanup, Drain
  <2>2. waitCh[c] \in Conns /\ waitCh[c] # c
    BY <1>7, <2>1, <1>type, <1>session DEF TypeOK, SessionInv
  <2>3. TypeOK'
    BY <2>1, <2>2, <1>type, Zenon DEF TypeOK, Location
  <2>4. TableInv' /\ LegInv' /\ CloseInv' /\ StreamBound'
    BY <2>1, <2>3, TablesKept, Zenon DEF Location, Leg
  <2>5. SessionInv'
    BY <1>7, <2>1, <2>2, <1>type, <1>session DEF TypeOK, SessionInv
  <2>6. SockInv'
    BY <2>1, <1>type, <1>sock, Zenon DEF TypeOK, SockInv
  <2> QED
    BY <2>3, <2>4, <2>5, <2>6 DEF RelayInv
<1> QED
  BY <1>1, <1>2, <1>3, <1>4, <1>5, <1>6, <1>7, Zenon

\* Fewer outbound legs are open.
LEMMA StreamShrinks ==
    ASSUME StreamBound, \A c \in Conns : out'[c] = "open" => out[c] = "open"
    PROVE  StreamBound'
<1> DEFINE O == {c \in Conns : out[c] = "open"}
<1>1. IsFiniteSet(O)
  BY FS_Subset, RelayAssumption
<1>2. {c \in Conns : out'[c] = "open"} \subseteq O
  OBVIOUS
<1>3. /\ Cardinality({c \in Conns : out'[c] = "open"}) \in Nat /\ Cardinality(O) \in Nat
      /\ Cardinality({c \in Conns : out'[c] = "open"}) <= Cardinality(O)
  BY <1>1, <1>2, FS_Subset, FS_CardinalityType, Zenon
<1> QED
  BY <1>3, RelayAssumption DEF StreamBound

\* A handler ends or goes to its deferred function, and closes its socket and at most
\* one it took.
LEMMA ClosingMove ==
    ASSUME RelayInv, NEW c \in Conns, NEW l \in {"done", "cleanup"}, pc[c] # "new",
           pc' = [pc EXCEPT ![c] = l],
           NEW S, CloseSockets(S), \A d \in S : d = c \/ pc[d] = "handed",
           c \in S \/ sock[c] # "open",
           \/ out' = [out EXCEPT ![c] = "closed"]
           \/ UNCHANGED out /\ pc[c] \notin {"remote", "pipe"},
           UNCHANGED <<connections, connsCount, fp, closing, toClose, target>>,
           target[c] \in Conns => target[c] \in S \/ sock[target[c]] # "open"
    PROVE  /\ pc' \in [Conns -> Location] /\ out' \in [Conns -> Socket]
           /\ sock' \in [Conns -> Socket] /\ unregistering' \subseteq connections'
           /\ SockInv' /\ TableInv' /\ LegInv' /\ CloseInv' /\ StreamBound'
<1>1. /\ sock' \in [Conns -> Socket]
      /\ unregistering' \subseteq connections'
      /\ \A d \in unregistering' : sock'[d] = "closed"
      /\ \A d \in Conns : /\ sock'[d] = "open" <=> sock[d] = "open" /\ d \notin S
                          /\ sock'[d] = "none" <=> sock[d] = "none"
  BY CloseEffect, Zenon DEF RelayInv
<1>2. pc' \in [Conns -> Location] /\ out' \in [Conns -> Socket]
  BY Zenon DEF RelayInv, TypeOK, Location, Socket
<1>3. SockInv'
  BY <1>1, RelayAssumption DEF RelayInv, TypeOK, SockInv
<1>4. TableInv'
  BY <1>1, Zenon DEF RelayInv, TypeOK, TableInv
<1>5. \A d \in Conns : out'[d] = "open" => out[d] = "open" /\ (d = c => pc[c] \notin {"remote", "pipe"})
  BY Zenon DEF RelayInv, TypeOK
<1>6. LegInv'
  BY <1>1, <1>5 DEF RelayInv, TypeOK, LegInv, Cancelled
<1>7. CloseInv'
  BY <1>1, Zenon DEF RelayInv, TypeOK, CloseInv
<1>8. StreamBound'
  BY <1>5, StreamShrinks, Zenon DEF RelayInv
<1> QED
  BY <1>1, <1>2, <1>3, <1>4, <1>6, <1>7, <1>8, Zenon

\* The steps in which a handler closes sockets keep the invariant.
LEMMA ClosingStep ==
    ASSUME RelayInv, NEW c \in Conns,
           \/ CloseAndReturn(c) \/ WaitTimeout(c) \/ WaitCancelled(c) \/ ProxyEnds(c)
           \/ CloseLate(c) \/ RemoteEnds(c) \/ (Admit(c) /\ Refused)
    PROVE  RelayInv'
<1>type. TypeOK
  BY DEF RelayInv
<1>session. SessionInv
  BY DEF RelayInv
<1>sock. SockInv
  BY Zenon DEF RelayInv
<1> DEFINE Rest == SockInv' /\ TableInv' /\ LegInv' /\ CloseInv' /\ StreamBound'
           Typed == /\ pc' \in [Conns -> Location] /\ out' \in [Conns -> Socket]
                    /\ sock' \in [Conns -> Socket] /\ unregistering' \subseteq connections'
<1> USE RelayAssumption DEF Goto, tableVars, nodeVars, sessionVars, closeVars, localVars
<1>1. CASE CloseAndReturn(c) \/ RemoteEnds(c) \/ (Admit(c) /\ Refused)
  <2>1. /\ pc[c] \in {"close", "remote", "pipe", "accepted"} /\ pc' = [pc EXCEPT ![c] = "done"]
        /\ CloseSockets({c})
        /\ \/ out' = [out EXCEPT ![c] = "closed"]
           \/ UNCHANGED out /\ pc[c] \notin {"remote", "pipe"}
        /\ UNCHANGED <<connections, connsCount, announced, activeNodes, pendingSessions, issued,
                       waitCh, fp, entry, token, target, closing, toClose>>
    BY <1>1, Zenon DEF CloseAndReturn, RemoteEnds, Admit
  <2>2. target[c] = None
    BY <2>1, <1>type, <1>session, Zenon DEF TypeOK, SessionInv
  <2>3. Rest /\ Typed
    BY <2>1, <2>2, ClosingMove, Zenon
  <2>4. SessionInv'
    BY <2>1, <1>type, <1>session DEF TypeOK, SessionInv
  <2> QED
    BY <2>1, <2>3, <2>4, <1>type, Zenon DEF RelayInv, TypeOK
<1>2. CASE WaitTimeout(c) \/ WaitCancelled(c)
  <2>1. /\ pc[c] = "wait" /\ pc' = [pc EXCEPT ![c] = "cleanup"]
        /\ CloseSockets({c}) /\ pendingSessions' \in {pendingSessions, pendingSessions \ {c}}
        /\ UNCHANGED <<connections, connsCount, announced, activeNodes, issued, waitCh, fp,
                       entry, token, target, out, closing, toClose>>
    BY <1>2, Zenon DEF WaitTimeout, WaitCancelled
  <2>2. target[c] = None
    BY <2>1, <1>type, <1>session DEF TypeOK, SessionInv
  <2>3. Rest /\ Typed
    BY <2>1, <2>2, ClosingMove, Zenon
  <2>4. SessionInv'
    BY <2>1, <1>type, <1>session DEF TypeOK, SessionInv
  <2> QED
    BY <2>1, <2>3, <2>4, <1>type, Zenon DEF RelayInv, TypeOK
<1>3. CASE ProxyEnds(c)
  <2>1. target[c] \in Conns /\ pc[target[c]] = "handed" /\ pc[c] = "proxy"
    BY <1>3, <1>type, <1>session DEF ProxyEnds, TypeOK, SessionInv
  <2>2. Rest /\ Typed
    BY <1>3, <2>1, ClosingMove, Zenon DEF ProxyEnds
  <2>3. SessionInv'
    BY <1>3, <1>type, <1>session DEF ProxyEnds, TypeOK, SessionInv
  <2> QED
    BY <1>3, <2>2, <2>3, <1>type, Zenon DEF ProxyEnds, RelayInv, TypeOK
<1>4. CASE CloseLate(c)
  <2>1. target[c] \in Conns /\ pc[target[c]] = "handed" /\ pc[c] = "late" /\ sock[c] # "open"
    BY <1>4, <1>type, <1>session, <1>sock DEF CloseLate, TypeOK, SessionInv, SockInv
  <2>2. Rest /\ Typed
    BY <1>4, <2>1, ClosingMove, Zenon DEF CloseLate
  <2>3. SessionInv'
    BY <1>4, <1>type, <1>session DEF CloseLate, TypeOK, SessionInv
  <2> QED
    BY <1>4, <2>2, <2>3, <1>type, Zenon DEF CloseLate, RelayInv, TypeOK
<1> QED
  BY <1>1, <1>2, <1>3, <1>4, Zenon

\* Accepting, tracking and forgetting a socket, and dialling another relay, keep the
\* invariant.
LEMMA TableStep ==
    ASSUME RelayInv, NEW c \in Conns,
           Accept(c) \/ (Admit(c) /\ ~Refused) \/ Unregister(c) \/ RemoteDial(c)
    PROVE  RelayInv'
<1>type. TypeOK
  BY DEF RelayInv
<1>session. SessionInv
  BY DEF RelayInv
<1>sock. SockInv
  BY DEF RelayInv
<1>table. TableInv
  BY DEF RelayInv
<1>leg. LegInv
  BY DEF RelayInv
<1>close. CloseInv
  BY Zenon DEF RelayInv
<1>finite. IsFiniteSet(connections) /\ Cardinality(connections) \in Nat
  BY <1>type, FS_Subset, FS_CardinalityType, RelayAssumption, Zenon DEF TypeOK
<1> USE RelayAssumption DEF Goto, sockVars, tableVars, nodeVars, sessionVars, closeVars, localVars
<1>1. CASE Accept(c)
  <2> USE <1>1 DEF Accept
  <2>1. TypeOK'
    BY <1>type, Zenon DEF TypeOK, Location, Socket
  <2>2. SessionInv'
    BY <1>type, <1>session DEF TypeOK, SessionInv
  <2>3. SockInv'
    BY <1>type, <1>session, <1>sock DEF TypeOK, SessionInv, SockInv
  <2>4. TableInv'
    BY <1>type, <1>table, <1>sock, Zenon DEF TypeOK, TableInv, SockInv
  <2>5. LegInv'
    BY <1>type, <1>leg DEF TypeOK, LegInv, Cancelled
  <2>6. CloseInv' /\ StreamBound'
    BY <1>type, <1>table, <1>close, StreamKept, Zenon DEF RelayInv, TypeOK, TableInv, CloseInv
  <2> QED
    BY <2>1, <2>2, <2>3, <2>4, <2>5, <2>6, Zenon DEF RelayInv
<1>2. CASE Admit(c) /\ ~Refused
  <2>1. /\ pc[c] = "accepted" /\ pc' = [pc EXCEPT ![c] = "setup"]
        /\ ~Cancelled /\ ~AtLimit
        /\ connections' = connections \cup {c} /\ connsCount' = connsCount + 1
        /\ UNCHANGED <<sock, unregistering, announced, activeNodes, pendingSessions, issued,
                       waitCh, fp, entry, token, target, out, closing, toClose>>
    BY <1>2, Zenon DEF Admit, Refused
  <2>2. TypeOK'
    BY <2>1, <1>type DEF TypeOK, Location
  <2>3. SessionInv'
    BY <2>1, <1>type, <1>session DEF TypeOK, SessionInv
  <2>4. SockInv'
    BY <2>1, <1>type, <1>sock, Zenon DEF TypeOK, SockInv
  <2>5. c \notin connections /\ sock[c] # "none"
    BY <2>1, <1>table, <1>sock DEF TableInv, SockInv
  <2>6. Cardinality(connections') = Cardinality(connections) + 1
    BY <2>1, <2>5, <1>finite, FS_AddElement, Zenon
  <2>7. TableInv'
    BY <2>1, <2>6, <1>type, <1>table, <1>finite DEF TypeOK, TableInv, AtLimit
  <2>8. LegInv'
    BY <2>1, <1>type, <1>leg, <1>sock, Zenon DEF TypeOK, LegInv, SockInv, Cancelled
  <2>9. CloseInv' /\ StreamBound'
    BY <2>1, <1>type, <1>close, StreamKept, Zenon DEF RelayInv, TypeOK, CloseInv, Cancelled
  <2> QED
    BY <2>2, <2>3, <2>4, <2>7, <2>8, <2>9, Zenon DEF RelayInv
<1>3. CASE Unregister(c)
  <2> USE <1>3 DEF Unregister
  <2>1. c \in connections /\ sock[c] = "closed"
    BY <1>type, <1>table DEF TypeOK, TableInv
  <2>2. Cardinality(connections') = Cardinality(connections) - 1
    BY <2>1, <1>finite, FS_RemoveElement, Zenon
  <2>3. IsFiniteSet(connections') /\ Cardinality(connections') \in Nat
    BY <1>finite, FS_RemoveElement, FS_CardinalityType, Zenon
  <2>4. TableInv'
    BY <2>2, <2>3, <1>type, <1>table, <1>finite DEF TypeOK, TableInv
  <2>5. TypeOK'
    BY <2>2, <2>3, <1>type, <1>table, Zenon DEF TypeOK, TableInv
  <2>6. SessionInv' /\ SockInv'
    BY <1>session, <1>sock, Zenon DEF SessionInv, SockInv
  <2>7. LegInv'
    BY <2>1, <1>type, <1>leg, Zenon DEF TypeOK, LegInv, Cancelled
  <2>8. CloseInv' /\ StreamBound'
    BY <1>close, StreamKept DEF RelayInv, CloseInv
  <2> QED
    BY <2>4, <2>5, <2>6, <2>7, <2>8, Zenon DEF RelayInv
<1>4. CASE RemoteDial(c) /\ UNCHANGED out
  <2>1. /\ pc[c] = "dial" /\ \E l \in {"close", "remote"} : pc' = [pc EXCEPT ![c] = l]
        /\ UNCHANGED <<sock, unregistering, connections, connsCount, announced, activeNodes,
                       pendingSessions, issued, waitCh, fp, entry, token, target, out, closing,
                       toClose>>
    BY <1>4, Zenon DEF RemoteDial
  <2>2. TypeOK'
    BY <2>1, <1>type DEF TypeOK, Location
  <2> QED
    BY <2>1, <2>2, QuietMove, Zenon DEF Quiet, Leg
<1>5. CASE RemoteDial(c) /\ ~UNCHANGED out
  <2>1. /\ pc[c] = "dial" /\ ~Cancelled
        /\ pc' = [pc EXCEPT ![c] = "remote"] /\ out' = [out EXCEPT ![c] = "open"]
        /\ UNCHANGED <<sock, unregistering, connections, connsCount, announced, activeNodes,
                       pendingSessions, issued, waitCh, fp, entry, token, target, closing, toClose>>
    BY <1>5, Zenon DEF RemoteDial
  <2>2. TypeOK'
    BY <2>1, <1>type, Zenon DEF TypeOK, Location, Socket
  <2>3. SessionInv'
    BY <2>1, <1>type, <1>session DEF TypeOK, SessionInv
  <2>4. SockInv'
    BY <2>1, <1>type, <1>sock, Zenon DEF TypeOK, SockInv
  <2>5. TableInv' /\ CloseInv'
    BY <2>1, <1>type, <1>table, <1>close, Zenon DEF TypeOK, TableInv, CloseInv
  <2>6. LegInv'
    BY <2>1, <1>type, <1>leg, Zenon DEF TypeOK, LegInv, Cancelled
  <2>7. {d \in Conns : out'[d] = "open"} \subseteq connections
    BY <2>1, <1>type, <1>leg, Zenon DEF TypeOK, LegInv
  <2>8. /\ Cardinality({d \in Conns : out'[d] = "open"}) \in Nat
        /\ Cardinality({d \in Conns : out'[d] = "open"}) <= Cardinality(connections)
    BY <2>7, <1>finite, FS_Subset, FS_CardinalityType, Zenon
  <2>9. StreamBound'
    BY <2>8, <1>table, <1>finite DEF StreamBound, TableInv
  <2> QED
    BY <2>2, <2>3, <2>4, <2>5, <2>6, <2>9, Zenon DEF RelayInv
<1> QED
  BY <1>1, <1>2, <1>3, <1>4, <1>5, Zenon

\* The steps of RelayServer.Close keep the invariant.
LEMMA CloseStep == ASSUME RelayInv, Close PROVE RelayInv'
<1>type. TypeOK
  BY DEF RelayInv
<1>session. SessionInv
  BY DEF RelayInv
<1>sock. SockInv
  BY DEF RelayInv
<1>table. TableInv
  BY DEF RelayInv
<1>leg. LegInv
  BY DEF RelayInv
<1>close. CloseInv
  BY Zenon DEF RelayInv
<1> USE RelayAssumption DEF CloseVarsOnly, sockVars, tableVars, nodeVars, sessionVars, localVars
<1>1. CASE Cancel \/ StopListener \/ Snapshot \/ (CloseNext /\ toClose = {})
  <2>1. /\ closing' \in {"cancelled", "stopped", "closing", "closed"}
        /\ UNCHANGED <<pc, sock, unregistering, connections, connsCount, announced, activeNodes,
                       pendingSessions, issued, waitCh, fp, entry, token, target, out>>
    BY <1>1, Zenon DEF Cancel, StopListener, Snapshot, CloseNext
  <2>2. TypeOK'
    BY <1>1, <2>1, <1>type, Zenon DEF TypeOK, Cancel, StopListener, Snapshot, CloseNext
  <2>3. SessionInv' /\ SockInv' /\ TableInv' /\ StreamBound'
    BY <2>1, <1>session, <1>sock, <1>table, StreamKept, Zenon DEF RelayInv, SessionInv, SockInv, TableInv
  <2>4. LegInv'
    BY <2>1, <1>leg, Zenon DEF LegInv, Cancelled
  <2>5. CloseInv'
    BY <1>1, <2>1, <1>type, <1>table, <1>close, Zenon
       DEF TypeOK, TableInv, CloseInv, Cancel, StopListener, Snapshot, CloseNext
  <2> QED
    BY <2>2, <2>3, <2>4, <2>5, Zenon DEF RelayInv
<1>2. ASSUME NEW c \in toClose, CloseSockets({c}), toClose' = toClose \ {c}, closing = "closing",
             UNCHANGED <<closing, pc, tableVars, nodeVars, sessionVars, localVars>>
      PROVE  RelayInv'
  <2>1. /\ sock' \in [Conns -> Socket]
        /\ unregistering' \subseteq connections'
        /\ \A d \in unregistering' : sock'[d] = "closed"
        /\ \A d \in Conns : /\ sock'[d] = "open" <=> sock[d] = "open" /\ d # c
                            /\ sock'[d] = "none" <=> sock[d] = "none"
    BY <1>2, <1>type, <1>table, CloseEffect
  <2>2. TypeOK'
    BY <1>2, <2>1, <1>type DEF TypeOK
  <2>3. SessionInv'
    BY <1>2, <1>session, Zenon DEF SessionInv
  <2>4. SockInv'
    BY <1>2, <2>1, <1>type, <1>sock, <1>close DEF TypeOK, SockInv, CloseInv
  <2>5. TableInv' /\ StreamBound'
    BY <1>2, <2>1, <1>table, StreamKept, Zenon DEF RelayInv, TableInv
  <2>6. LegInv'
    BY <1>2, <1>leg, Zenon DEF LegInv, Cancelled
  <2>7. CloseInv'
    BY <1>2, <2>1, <1>type, <1>close, Zenon DEF TypeOK, CloseInv
  <2> QED
    BY <2>2, <2>3, <2>4, <2>5, <2>6, <2>7, Zenon DEF RelayInv
<1> QED
  BY <1>1, <1>2, Zenon DEF Close, CloseNext

\* Every step of the relay keeps the invariant.
LEMMA RelayInvStep == RelayInv /\ [Next]_vars => RelayInv'
<1> SUFFICES ASSUME RelayInv, [Next]_vars PROVE RelayInv'
  OBVIOUS
<1>1. ASSUME NEW c \in Conns,
             \/ Accept(c) \/ Unregister(c) \/ FirstEnvelope(c) \/ Handler(c) \/ Deliver(c)
             \/ NotifyReturns(c) \/ HandleAnnounce(c) \/ RemoteAck(c) \/ ReadEnds(c)
      PROVE  RelayInv'
  BY <1>1, QuietStep, SessionStep, ClosingStep, TableStep, Zenon DEF Handler, ReadEnds
<1>2. CASE UNCHANGED vars
  <2>1. TypeOK'
    BY <1>2 DEF RelayInv, TypeOK, vars
  <2> QED
    BY <1>2, <2>1, NothingMoves, Zenon DEF vars
<1> QED
  BY <1>1, <1>2, CloseStep, Zenon DEF Next

\* The invariant holds as long as the relay runs.
THEOREM RelayInvariant == Spec => []RelayInv
  BY RelayInvInit, RelayInvStep, PTL DEF Spec

-----------------------------------------------------------------------------
(* The properties *)

\* For every number of connections and every limit, the counter is the size of the
\* map and never more inbound sockets are open than MaxConnections allows.
THEOREM InboundLimited == Spec => []InboundLimit
<1>1. ASSUME RelayInv PROVE InboundLimit
  <2>1. IsFiniteSet(connections)
    BY <1>1, RelayAssumption, FS_Subset, Zenon DEF RelayInv, TypeOK
  <2>2. Cardinality(connections) \in Nat
    BY <2>1, FS_CardinalityType, Zenon
  <2> DEFINE open == {c \in connections : sock[c] = "open"}
  <2>3. Cardinality(open) \in Nat /\ Cardinality(open) <= Cardinality(connections)
    BY <2>1, FS_Subset, FS_CardinalityType
  <2> QED
    BY <1>1, <2>2, <2>3, RelayAssumption DEF RelayInv, TableInv, InboundLimit
<1> QED
  BY <1>1, RelayInvariant, PTL

\* However many two-hop tunnels are dialled, their outbound legs stay within
\* MaxConnections although the relay does not count them.
THEOREM StreamsBounded == Spec => []StreamBound
<1>1. RelayInv => StreamBound
  BY Zenon DEF RelayInv
<1> QED
  BY <1>1, RelayInvariant, PTL

\* Whatever races between ACCEPT_RELAY, the session timer, Close and the end of the
\* requester, an accepted socket that is open has a goroutine that will close it.
THEOREM NoneOrphaned == Spec => []NoOrphan
<1>1. ASSUME RelayInv PROVE NoOrphan
  <2> SUFFICES ASSUME NEW c \in Conns, sock[c] = "open", pc[c] \in {"handed", "done"}
               PROVE  OwnedBySession(c)
    BY Zenon DEF NoOrphan
  <2>1. pc[c] = "handed"
    BY <1>1, Zenon DEF RelayInv, SockInv
  <2>2. PICK s \in Conns : s = token[c] /\ (waitCh[s] = c \/ target[s] = c)
    BY <1>1, <2>1 DEF RelayInv, SessionInv
  <2>3. CASE waitCh[s] = c
    BY <1>1, <2>2, <2>3, RelayAssumption DEF RelayInv, SessionInv, OwnedBySession
  <2>4. CASE target[s] = c
    BY <1>1, <2>2, <2>4, RelayAssumption DEF RelayInv, SessionInv, SockInv, OwnedBySession
  <2> QED
    BY <2>2, <2>3, <2>4, Zenon
<1> QED
  BY <1>1, RelayInvariant, PTL

\* The send to waitCh that HandleAcceptRelay makes under mu finds the channel empty.
THEOREM SendNeverBlocks == Spec => []PublishNeverBlocks
<1>1. RelayInv => PublishNeverBlocks
  BY Zenon DEF RelayInv, TypeOK, SessionInv, PublishNeverBlocks
<1> QED
  BY <1>1, RelayInvariant, PTL

\* Two sockets never share a session token.
THEOREM TokensUsedOnce == Spec => []TokenUsedOnce
<1>1. RelayInv => TokenUsedOnce
  BY RelayAssumption DEF RelayInv, SessionInv, TokenUsedOnce
<1> QED
  BY <1>1, RelayInvariant, PTL

\* Close leaves no tracked socket open.
THEOREM CloseClosesAll == Spec => []ClosedMeansClosed
<1>1. RelayInv => ClosedMeansClosed
  BY DEF RelayInv, TypeOK, Socket, SockInv, TableInv, CloseInv, ClosedMeansClosed
<1> QED
  BY <1>1, RelayInvariant, PTL
=============================================================================
