----------------------------- MODULE MultiDialer -----------------------------
(***************************************************************************)
(* MultiDialer.dial: fetch the server's transports, then try those both    *)
(* sides have in the order of DEFAULT_PRIORITY, each under a timeout, and  *)
(* return the first connection; and the five dialers it tries, from one    *)
(* await to the next, with the socket each of them opens.                  *)
(* (uniconn-py/uniconn: multi/__init__.py, tcp/dialer.py,                  *)
(* websocket/dialer.py, quic/dialer.py, kcp/__init__.py,                   *)
(* webtransport/dialer.py)                                                 *)
(*                                                                         *)
(* The server is MultiListener's: its configuration, the servers that take *)
(* connections, and the callbacks a connection is surfaced by.             *)
(***************************************************************************)
EXTENDS MultiListener

VARIABLES
    dialers,   \* the transports the client has a dialer for
    dial,      \* each call of dial
    at,        \* the place in the priority list it has come to
    phase,     \* the await its current try is suspended in
    failed,    \* the transports it has tried in vain
    socket,    \* the client's end of each connection
    up,        \* connections both ends' libraries have agreed on
    wrote,     \* connections the client has written to
    cut        \* connections whose try was cancelled, or ended in the QUIC handshake

dialerVars == <<dialers, dial, at, phase, failed, socket, up, wrote, cut>>

Current(d) == <<d, Priority[at[d]]>>

DialerTypeOK ==
    /\ dialers \subseteq Protocols
    /\ dial \in [Dials -> {"idle", "negotiating", "trying", "returned", "failed", "refused"}]
    /\ at \in [Dials -> 0 .. Len(Priority)]
    /\ phase \in [Dials -> {"none", "connecting", "endpoint", "handshake", "settling", "session"}]
    /\ failed \in [Dials -> SUBSET Protocols]
    /\ socket \in [Conns -> {"none", "open", "closed"}]
    /\ up \subseteq Conns /\ wrote \subseteq Conns /\ cut \subseteq Conns

DialerInit ==
    /\ dialers \in {T \in SUBSET Protocols : <<transports, T>> \in Configs}
    /\ dial = [d \in Dials |-> "idle"] /\ at = [d \in Dials |-> 0]
    /\ phase = [d \in Dials |-> "none"] /\ failed = [d \in Dials |-> {}]
    /\ socket = [c \in Conns |-> "none"]
    /\ up = {} /\ wrote = {} /\ cut = {}

-----------------------------------------------------------------------------
(* MultiDialer.dial *)

\* The response of get_negotiate_response: the configured transports.
NegotiateResponse == transports

\* The places after i of transports that both sides have.
Candidates(i) == {j \in (i + 1) .. Len(Priority) : Priority[j] \in NegotiateResponse \cap dialers}

FirstPhase(p) ==
    CASE p \in {"tcp", "websocket"} -> "connecting"
      [] p \in {"quic", "webtransport"} -> "endpoint"
      [] p = "kcp" -> "settling"

\* Mutant of TryNext: a transport only one side has ends the search.
TryNextStop(d, from, s) ==
    IF from + 1 \notin Candidates(from)
    THEN /\ dial' = [dial EXCEPT ![d] = "failed"]
         /\ phase' = [phase EXCEPT ![d] = "none"]
         /\ socket' = s
         /\ UNCHANGED at
    ELSE /\ dial' = [dial EXCEPT ![d] = "trying"]
         /\ at' = [at EXCEPT ![d] = from + 1]
         /\ phase' = [phase EXCEPT ![d] = FirstPhase(Priority[from + 1])]
         /\ socket' = s

\* Go on to the next transport of the list that both sides have, or fail.  s is what
\* the tries so far leave of their sockets; KcpDialer starts its client before its
\* first await.
TryNext(d, from, s) ==
    IF Candidates(from) = {}
    THEN /\ dial' = [dial EXCEPT ![d] = "failed"]
         /\ phase' = [phase EXCEPT ![d] = "none"]
         /\ socket' = s
         /\ UNCHANGED at
    ELSE LET i == CHOOSE j \in Candidates(from) : \A k \in Candidates(from) : j <= k
             p == Priority[i]
         IN /\ dial' = [dial EXCEPT ![d] = "trying"]
            /\ at' = [at EXCEPT ![d] = i]
            /\ phase' = [phase EXCEPT ![d] = FirstPhase(p)]
            /\ socket' = IF p = "kcp" THEN [s EXCEPT ![<<d, p>>] = "open"] ELSE s

\* The GET of negotiate_url.
Dial(d) ==
    /\ dial[d] = "idle"
    /\ dial' = [dial EXCEPT ![d] = "negotiating"]
    /\ UNCHANGED <<dialers, at, phase, failed, socket, up, wrote, cut>>

Negotiated(d) ==
    /\ dial[d] = "negotiating"
    /\ TryNext(d, 0, socket)
    /\ UNCHANGED <<dialers, failed, up, wrote, cut>>

NegotiateFails(d) ==
    /\ dial[d] = "negotiating"
    /\ dial' = [dial EXCEPT ![d] = "refused"]
    /\ UNCHANGED <<dialers, at, phase, failed, socket, up, wrote, cut>>

\* The try raises, having left its socket as res says.
TryFails(d, res) ==
    /\ dial[d] = "trying"
    /\ failed' = [failed EXCEPT ![d] = @ \cup {Priority[at[d]]}]
    /\ TryNext(d, at[d], [socket EXCEPT ![Current(d)] = res])
    /\ UNCHANGED <<dialers, up, wrote>>

TryReturns(d) ==
    /\ dial[d] = "trying"
    /\ dial' = [dial EXCEPT ![d] = "returned"]
    /\ phase' = [phase EXCEPT ![d] = "none"]
    /\ socket' = [socket EXCEPT ![Current(d)] = "open"]
    /\ UNCHANGED <<dialers, at, failed, up, wrote, cut>>

\* A try goes on to its next await.
Goes(d, from, to) ==
    /\ dial[d] = "trying" /\ phase[d] = from
    /\ phase' = [phase EXCEPT ![d] = to]
    /\ UNCHANGED <<dialers, dial, at, failed, up, wrote, cut>>

-----------------------------------------------------------------------------
(* The dialers *)

Trying(d, p, ph) == dial[d] = "trying" /\ Priority[at[d]] = p /\ phase[d] = ph

TcpDial(d) == Trying(d, "tcp", "connecting") /\ Current(d) \in up /\ TryReturns(d)
WsDial(d) == Trying(d, "websocket", "connecting") /\ Current(d) \in up /\ TryReturns(d)

\* open_connection and websockets.connect clean up when they fail.
ConnectFails(d) ==
    /\ phase[d] = "connecting"
    /\ TryFails(d, "closed")
    /\ UNCHANGED cut

\* The address has been resolved and the UDP endpoint exists: connect to the server.
QuicEndpoint(d) ==
    /\ Trying(d, "quic", "endpoint")
    /\ Goes(d, "endpoint", "handshake")
    /\ socket' = [socket EXCEPT ![Current(d)] = "open"]

QuicDial(d) == Trying(d, "quic", "handshake") /\ Current(d) \in up /\ TryReturns(d)

WtEndpoint(d) ==
    /\ Trying(d, "webtransport", "endpoint")
    /\ Goes(d, "endpoint", "handshake")
    /\ socket' = [socket EXCEPT ![Current(d)] = "open"]

\* The handshake's event has made the H3 connection: ask for a session.
WtConnected(d) ==
    /\ Trying(d, "webtransport", "handshake") /\ Current(d) \in up
    /\ Goes(d, "handshake", "session")
    /\ UNCHANGED socket

\* The server has answered 200: open the stream.
WtDial(d) == Trying(d, "webtransport", "session") /\ "webtransport" \in bound /\ TryReturns(d)

\* Mutant of WtSessionTimeout: the transport stays open.
WtSessionTimeoutOpen(d) ==
    /\ Trying(d, "webtransport", "session")
    /\ TryFails(d, "open")
    /\ UNCHANGED cut

WtSessionTimeout(d) ==
    /\ Trying(d, "webtransport", "session")
    /\ TryFails(d, "closed")
    /\ UNCHANGED cut

EndpointFails(d) ==
    /\ phase[d] = "endpoint"
    /\ TryFails(d, "closed")
    /\ UNCHANGED cut

\* wait_connected raises; nothing closes the endpoint.
HandshakeFails(d) ==
    /\ phase[d] = "handshake"
    /\ TryFails(d, "open")
    /\ cut' = cut \cup {Current(d)}

\* The client runs in its thread: dial returns, whether there is a server or not.
KcpDial(d) == Trying(d, "kcp", "settling") /\ TryReturns(d)

\* dial_timeout: the try is cancelled at the await it is suspended in.
DialTimeout(d) ==
    LET leaks == phase[d] \in {"handshake", "session", "settling"} IN
    /\ TryFails(d, IF leaks THEN "open" ELSE "closed")
    /\ cut' = IF leaks THEN cut \cup {Current(d)} ELSE cut

-----------------------------------------------------------------------------
(* The network, and the use of a connection *)

\* The server answers; for KCP there is nothing to agree on.
Establish(c) ==
    /\ dial[c[1]] = "trying" /\ Current(c[1]) = c /\ phase[c[1]] \in {"connecting", "handshake"}
    /\ c[2] \in bound /\ c \notin up
    /\ up' = up \cup {c}
    /\ UNCHANGED <<dialers, dial, at, phase, failed, socket, wrote, cut>>

\* Over the other two transports nothing depends on it.
FirstWrite(d) ==
    /\ dial[d] = "returned" /\ Current(d)[2] \in {"quic", "kcp", "webtransport"} /\ Current(d) \notin wrote
    /\ wrote' = wrote \cup {Current(d)}
    /\ UNCHANGED <<dialers, dial, at, phase, failed, socket, up, cut>>

DialSteps(d) ==
    \/ Negotiated(d) \/ TcpDial(d) \/ WsDial(d) \/ KcpDial(d)
    \/ QuicEndpoint(d) \/ QuicDial(d) \/ WtEndpoint(d) \/ WtConnected(d) \/ WtDial(d)

DialErrors(d) ==
    \/ NegotiateFails(d) \/ ConnectFails(d) \/ EndpointFails(d) \/ HandshakeFails(d)
    \/ WtSessionTimeout(d) \/ DialTimeout(d)

DialerNext ==
    \/ \E d \in Dials : Dial(d) \/ DialSteps(d) \/ DialErrors(d) \/ FirstWrite(d)
    \/ \E c \in Conns : Establish(c)
=============================================================================
