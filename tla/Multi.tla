-------------------------------- MODULE Multi --------------------------------
(***************************************************************************)
(* A MultiDialer that dials a MultiListener.  What connects the two: the   *)
(* dialer reads the listener's configuration, and a connection reaches a   *)
(* listener's queue when its library surfaces it there.  A TCP or WebSocket *)
(* connection is surfaced once it is established, even if the client gave  *)
(* up meanwhile; a QUIC stream, a WebTransport stream and a KCP            *)
(* conversation only when the client has written to it.                    *)
(***************************************************************************)
EXTENDS MultiDialer

vars == <<listenerVars, dialerVars>>

Init == ListenerInit /\ DialerInit

Surface(c) ==
    \/ c \in up /\ (TcpOnConnect(c) \/ WsHandler(c))
    \/ c \in up \cap wrote /\ (QuicStreamHandler(c) \/ WtStreamData(c))
    \/ c \in wrote /\ KcpHandleData(c)

Next ==
    \/ ListenerNext /\ UNCHANGED dialerVars
    \/ (\E c \in Conns : Surface(c)) /\ UNCHANGED dialerVars
    \/ DialerNext /\ UNCHANGED listenerVars

Spec == Init /\ [][Next]_vars

\* What the event loops and the network do by themselves.
Works ==
    \/ /\ Binding \/ Start \/ Looping \/ Closing \/ (\E a \in Accepts : Accepting(a)) \/ (\E c \in Conns : Surface(c))
       /\ UNCHANGED dialerVars
    \/ (\E d \in Dials : DialSteps(d) \/ DialErrors(d)) /\ UNCHANGED listenerVars

\* The event loops run what is ready, the network delivers, timers fire; nobody has
\* to dial, accept, write or close.  No part of Works can go on for ever, so that
\* something of it always happens is enough for each part to happen.
Fairness == WF_vars(Works)

FairSpec == Spec /\ Fairness

-----------------------------------------------------------------------------
TypeOK == ListenerTypeOK /\ DialerTypeOK

Handed(c) == \E a \in Accepts : acc[a] = "returned" /\ item[a] = c
InHand(c) == \E a \in Accepts : acc[a] \in {"waiting", "ending"} /\ item[a] = c

\* Where a connection waits or has gone: the queues and the accepts that have it.
Places(c) ==
    {<<"queued", i>> : i \in {i \in 1 .. Len(queued[c[2]]) : queued[c[2]][i] = c}}
    \cup {<<"incoming", i>> : i \in {i \in 1 .. Len(incoming) : incoming[i] = c}}
    \cup {<<"item", a>> : a \in {a \in Accepts : item[a] = c}}

\* MultiListener neither loses a connection it has taken from a listener nor hands it
\* out twice.  As long as it is open it is still in the listener's queue, in _queue,
\* with one accept call or with the close call that will close it; only a cancelled
\* close() forgets any.
Kept ==
    \A c \in Conns :
        /\ Cardinality(Places(c)) <= 1
        /\ server[c] = "open" => \/ c \in Entries(queued[c[2]]) \/ Handed(c)
                                 \/ shut \notin {"done", "cut"} /\ (c \in Entries(incoming) \cup doomed)
                                 \/ InHand(c)
                                 \/ shut = "cut"

\* accept reports the end only when there is nothing more to come: _ended is set by
\* close() or when the loop of every transport has failed.
EndedOnlyThen == ended /\ ~closed => \A p \in transports : loop[p] = "over"

\* dial returns the first transport of the priority list that both sides have and
\* that has not failed, and once it has the server's list it gives up only when all
\* of those have failed.  What it returns is agreed with the server, except over KCP,
\* where a dial succeeds without a server.
BestProtocol ==
    \A d \in Dials :
        /\ dial[d] = "returned" =>
              /\ {Priority[j] : j \in {j \in 1 .. at[d] - 1 : Priority[j] \in transports \cap dialers}} = failed[d]
              /\ Current(d) \in up \/ Priority[at[d]] = "kcp"
        /\ dial[d] = "failed" => failed[d] = transports \cap dialers

\* A socket outlives the try that opened it only if dial returned it, or the try was
\* cancelled or failed in the QUIC handshake: the other error paths close it.
SocketsReleased ==
    \A c \in Conns :
        socket[c] = "open" => \/ dial[c[1]] \in {"trying", "returned"} /\ Current(c[1]) = c
                              \/ c \in cut /\ c[2] \in {"quic", "webtransport", "kcp"}

\* close() wakes every pending accept, and so does the failure of the last loop: no
\* accept stays waiting after it.
AcceptsWake ==
    \A a \in Accepts :
        (closed \/ ended) /\ acc[a] \in {"waiting", "ending"} ~> acc[a] \in {"returned", "raised"}

\* close() returns, unless it is cancelled or Server.wait_closed waits for a TCP
\* connection that is still open: one a caller has, or one left in the listener's
\* queue, which nobody will close.
CloseEnds ==
    closed ~> shut \in {"done", "cut"} \/ (waits /\ \E c \in Conns : c[2] = "tcp" /\ server[c] = "open")

\* The connection that dial d returned, and what has become of it.
Dialed(d, Is(_)) == dial[d] = "returned" /\ Is(Current(d))

Waits(c) == server[c] = "open" /\ ~Handed(c) /\ loop[c[2]] = "accepting"

\* A connection that was dialled and reaches a listener whose loop runs is handed to
\* a caller that waits, or closed.
Served ==
    \A d \in Dials :
        Dialed(d, Waits) ~> ~Dialed(d, Waits) \/ \A a \in Accepts : acc[a] # "waiting"
=============================================================================
