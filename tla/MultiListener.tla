---------------------------- MODULE MultiListener ----------------------------
(***************************************************************************)
(* MultiListener: connections from the listeners of several transports,    *)
(* handed to the callers of accept through one queue; and the listeners    *)
(* themselves, each with a queue that its library's callback fills.        *)
(* (uniconn-py/uniconn: multi/__init__.py, tcp/listener.py,                *)
(* websocket/listener.py, quic/listener.py, kcp/__init__.py,               *)
(* webtransport/listener.py)                                               *)
(*                                                                         *)
(* A connection is named by the dial call that makes it and its transport. *)
(* A step runs from one await to the next.  close() of a connection marks  *)
(* it closed before its first await, so it is part of the step that calls  *)
(* it.                                                                     *)
(***************************************************************************)
EXTENDS Naturals, FiniteSets, Sequences

CONSTANTS
    Dials,      \* calls of MultiDialer.dial
    Accepts,    \* calls of MultiListener.accept_with
    Configs,    \* transports of the server and dialers of the client, in pairs
    None        \* no connection

Priority == <<"webtransport", "quic", "websocket", "kcp", "tcp">>
Protocols == {Priority[i] : i \in 1 .. Len(Priority)}
Conns == Dials \X Protocols

ASSUME MultiAssumption ==
    /\ Configs \subseteq ((SUBSET Protocols) \ {{}}) \X (SUBSET Protocols)
    /\ None \notin Conns

VARIABLES
    transports,   \* the configured transports
    waits,        \* Server.wait_closed waits for connections (Python 3.12.1 and later)
    opened,       \* transports whose bind has returned
    bound,        \* transports whose server takes connections
    queued,       \* _conn_queue of each listener
    server,       \* the server's end of each connection
    loop,         \* _accept_loop of each transport
    active,       \* _active_loops
    incoming,     \* _queue
    closed,       \* _closed
    ended,        \* _ended
    acc,          \* each call of accept_with
    item,         \* the connection its task has taken from _queue
    shut,         \* the call of close that found _closed unset
    left,         \* the listeners that call still has to close
    doomed        \* the connections that call still has to close

listenerVars == <<transports, waits, opened, bound, queued, server, loop, active,
                  incoming, closed, ended, acc, item, shut, left, doomed>>
configVars == <<transports, waits, opened>>
acceptVars == <<acc, item>>

ListenerTypeOK ==
    /\ transports \subseteq Protocols /\ waits \in BOOLEAN
    /\ opened \subseteq transports /\ bound \subseteq opened
    /\ queued \in [Protocols -> Seq(Conns)] /\ incoming \in Seq(Conns)
    /\ server \in [Conns -> {"none", "open", "closed"}]
    /\ loop \in [Protocols -> {"none", "accepting", "over"}]
    /\ active \in 0 .. Cardinality(transports)
    /\ closed \in BOOLEAN /\ ended \in BOOLEAN
    /\ acc \in [Accepts -> {"idle", "waiting", "ending", "returned", "raised"}]
    /\ item \in [Accepts -> Conns \cup {None}]
    /\ shut \in {"no", "loops", "closing", "done", "cut"}
    /\ left \subseteq transports /\ doomed \subseteq Conns

ListenerInit ==
    /\ transports \in {c[1] : c \in Configs} /\ waits \in {FALSE, "tcp" \in transports}
    /\ opened = {} /\ bound = {}
    /\ queued = [p \in Protocols |-> <<>>] /\ incoming = <<>>
    /\ server = [c \in Conns |-> "none"]
    /\ loop = [p \in Protocols |-> "none"] /\ active = 0
    /\ closed = FALSE /\ ended = FALSE
    /\ acc = [a \in Accepts |-> "idle"] /\ item = [a \in Accepts |-> None]
    /\ shut = "no" /\ left = {} /\ doomed = {}

-----------------------------------------------------------------------------
(* The listeners of the transports *)

\* The application binds the listeners one after the other.
Binds(p) ==
    /\ p \in transports \ opened
    /\ \A q \in transports \ opened :
          \E i, j \in 1 .. Len(Priority) : Priority[i] = p /\ Priority[j] = q /\ i <= j
    /\ opened' = opened \cup {p}
    /\ UNCHANGED <<transports, waits, queued, server, loop, active, incoming, closed, ended,
                   acceptVars, shut, left, doomed>>

TcpBind == Binds("tcp") /\ bound' = bound \cup {"tcp"}
WsBind == Binds("websocket") /\ bound' = bound \cup {"websocket"}
QuicBind == Binds("quic") /\ bound' = bound \cup {"quic"}
WtBind == Binds("webtransport") /\ bound' = bound \cup {"webtransport"}

\* server.listen() runs in a task of its own, whose failure nobody sees.
KcpBind == Binds("kcp") /\ (bound' = bound \cup {"kcp"} \/ UNCHANGED bound)

\* A callback makes a connection and puts it into the listener's queue.
Surfaces(c) ==
    /\ c[2] \in bound /\ server[c] = "none"
    /\ server' = [server EXCEPT ![c] = "open"]
    /\ queued' = [queued EXCEPT ![c[2]] = Append(@, c)]
    /\ UNCHANGED <<configVars, bound, loop, active, incoming, closed, ended, acceptVars, shut, left, doomed>>

TcpOnConnect(c) == c[2] = "tcp" /\ Surfaces(c)
WsHandler(c) == c[2] = "websocket" /\ Surfaces(c)
QuicStreamHandler(c) == c[2] = "quic" /\ Surfaces(c)
KcpHandleData(c) == c[2] = "kcp" /\ Surfaces(c)
WtStreamData(c) == c[2] = "webtransport" /\ Surfaces(c)

\* The server's end of every connection of a transport is closed.
CloseAll(p) == server' = [c \in Conns |-> IF c[2] = p /\ server[c] = "open" THEN "closed" ELSE server[c]]

StopListening(p) ==
    /\ shut = "closing" /\ p \in left
    /\ UNCHANGED <<configVars, queued, loop, active, incoming, closed, ended, acceptVars, shut, doomed>>

\* server.close() stops listening; what has been accepted stays open.
TcpClose ==
    /\ StopListening("tcp") /\ "tcp" \in bound
    /\ bound' = bound \ {"tcp"}
    /\ UNCHANGED <<server, left>>

\* wait_closed() returns at once, or when no connection of the server is open.
TcpWaitClosed ==
    /\ StopListening("tcp") /\ "tcp" \notin bound
    /\ waits => \A c \in Conns : c[2] = "tcp" => server[c] # "open"
    /\ left' = left \ {"tcp"}
    /\ UNCHANGED <<bound, server>>

\* The libraries' servers close their connections along with themselves.
ServerClose(p) ==
    /\ StopListening(p)
    /\ bound' = bound \ {p} /\ left' = left \ {p}
    /\ CloseAll(p)

WsClose == ServerClose("websocket")
QuicClose == ServerClose("quic")
WtClose == ServerClose("webtransport")

\* Mutant of KcpClose: it waits for its connections to be closed.
KcpCloseWaits ==
    /\ StopListening("kcp")
    /\ \A c \in Conns : c[2] = "kcp" => server[c] # "open"
    /\ left' = left \ {"kcp"}
    /\ UNCHANGED <<bound, server>>

\* Only a flag, which nothing reads.
KcpClose ==
    /\ StopListening("kcp")
    /\ left' = left \ {"kcp"}
    /\ UNCHANGED <<bound, server>>

-----------------------------------------------------------------------------
(* start and _accept_loop *)

Start ==
    /\ opened = transports /\ ~closed /\ \A p \in transports : loop[p] = "none"
    /\ active' = Cardinality(transports)
    /\ loop' = [p \in Protocols |-> IF p \in transports THEN "accepting" ELSE "none"]
    /\ UNCHANGED <<configVars, bound, queued, server, incoming, closed, ended, acceptVars, shut, left, doomed>>

AcceptLoop(p) ==
    /\ loop[p] = "accepting" /\ ~closed /\ queued[p] # <<>>
    /\ queued' = [queued EXCEPT ![p] = Tail(@)]
    /\ incoming' = Append(incoming, Head(queued[p]))
    /\ UNCHANGED <<configVars, bound, server, loop, active, closed, ended, acceptVars, shut, left, doomed>>

\* Mutant of LoopFails: the first loop to fail ends them all.
LoopFailsFirst(p) ==
    /\ loop[p] = "accepting" /\ ~closed
    /\ loop' = [loop EXCEPT ![p] = "over"]
    /\ active' = active - 1
    /\ ended' = TRUE
    /\ UNCHANGED <<configVars, bound, queued, server, incoming, closed, acceptVars, shut, left, doomed>>

\* listener.accept() raises: the last loop to fail ends the MultiListener.
LoopFails(p) ==
    /\ loop[p] = "accepting" /\ ~closed
    /\ loop' = [loop EXCEPT ![p] = "over"]
    /\ active' = active - 1
    /\ ended' = (ended \/ active' = 0)
    /\ UNCHANGED <<configVars, bound, queued, server, incoming, closed, acceptVars, shut, left, doomed>>

\* close() has cancelled the loop; a connection it was about to take stays in the
\* listener's queue.
LoopCancelled(p) ==
    /\ loop[p] = "accepting" /\ closed
    /\ loop' = [loop EXCEPT ![p] = "over"]
    /\ UNCHANGED <<configVars, bound, queued, server, active, incoming, closed, ended, acceptVars, shut, left, doomed>>

-----------------------------------------------------------------------------
(* accept_with *)

AcceptWith(a) ==
    /\ acc[a] = "idle"
    /\ acc' = [acc EXCEPT ![a] = IF ended THEN "raised" ELSE "waiting"]
    /\ UNCHANGED <<configVars, bound, queued, server, loop, active, incoming, closed, ended, item, shut, left, doomed>>

\* The task that waits for _queue gets a connection.
Taken(a) ==
    /\ acc[a] = "waiting" /\ item[a] = None /\ incoming # <<>>
    /\ item' = [item EXCEPT ![a] = Head(incoming)]
    /\ incoming' = Tail(incoming)
    /\ UNCHANGED <<configVars, bound, queued, server, loop, active, closed, ended, acc, shut, left, doomed>>

\* Mutant of AcceptWakes: only the end wakes the call.
AcceptWakesEnd(a) ==
    /\ acc[a] = "waiting" /\ ended
    /\ acc' = [acc EXCEPT ![a] = "ending"]
    /\ UNCHANGED <<configVars, bound, queued, server, loop, active, incoming, closed, ended, item, shut, left, doomed>>

\* One of the two tasks is done: both are cancelled, and awaited.
AcceptWakes(a) ==
    /\ acc[a] = "waiting" /\ (item[a] # None \/ ended)
    /\ acc' = [acc EXCEPT ![a] = "ending"]
    /\ UNCHANGED <<configVars, bound, queued, server, loop, active, incoming, closed, ended, item, shut, left, doomed>>

\* Mutant of Raise: the connection in hand is forgotten.
RaiseForget(a) ==
    /\ acc' = [acc EXCEPT ![a] = "raised"]
    /\ UNCHANGED server

\* accept_with raises; a connection in hand is closed.
Raise(a) ==
    /\ acc' = [acc EXCEPT ![a] = "raised"]
    /\ server' = IF item[a] = None THEN server ELSE [server EXCEPT ![item[a]] = "closed"]

AcceptEnds(a) ==
    /\ acc[a] = "ending"
    /\ IF ended
       THEN Raise(a)
       ELSE acc' = [acc EXCEPT ![a] = "returned"] /\ UNCHANGED server
    /\ UNCHANGED <<configVars, bound, queued, loop, active, incoming, closed, ended, item, shut, left, doomed>>

\* The caller is cancelled, by a timeout of its own for instance.
AcceptCancelled(a) ==
    /\ acc[a] \in {"waiting", "ending"}
    /\ Raise(a)
    /\ UNCHANGED <<configVars, bound, queued, loop, active, incoming, closed, ended, item, shut, left, doomed>>

\* A caller closes the connection it has been given.
CallerCloses(a) ==
    /\ acc[a] = "returned" /\ server[item[a]] = "open"
    /\ server' = [server EXCEPT ![item[a]] = "closed"]
    /\ UNCHANGED <<configVars, bound, queued, loop, active, incoming, closed, ended, acceptVars, shut, left, doomed>>

-----------------------------------------------------------------------------
(* close *)

\* Mutant of Close: pending accepts are not woken.
CloseSilent ==
    /\ ~closed /\ opened = transports
    /\ closed' = TRUE /\ shut' = "loops"
    /\ UNCHANGED <<configVars, bound, queued, server, loop, active, incoming, acceptVars, ended, left, doomed>>

Close ==
    /\ ~closed /\ opened = transports
    /\ closed' = TRUE /\ ended' = TRUE /\ shut' = "loops"
    /\ UNCHANGED <<configVars, bound, queued, server, loop, active, incoming, acceptVars, left, doomed>>

Entries(s) == {s[i] : i \in 1 .. Len(s)}

\* The loops are over: what is queued is taken, to be closed along with the listeners.
Drain ==
    /\ shut = "loops" /\ \A p \in transports : loop[p] # "accepting"
    /\ shut' = "closing"
    /\ left' = transports /\ doomed' = Entries(incoming)
    /\ incoming' = <<>>
    /\ UNCHANGED <<configVars, bound, queued, server, loop, active, closed, ended, acceptVars>>

CloseQueued(c) ==
    /\ shut = "closing" /\ c \in doomed
    /\ server' = [server EXCEPT ![c] = "closed"]
    /\ doomed' = doomed \ {c}
    /\ UNCHANGED <<configVars, bound, queued, loop, active, incoming, closed, ended, acceptVars, shut, left>>

CloseReturns ==
    /\ shut = "closing" /\ left = {} /\ doomed = {}
    /\ shut' = "done"
    /\ UNCHANGED <<configVars, bound, queued, server, loop, active, incoming, closed, ended, acceptVars, left, doomed>>

\* The caller of close is cancelled: what it has not begun to close it never closes,
\* and neither does another call.
CloseCut ==
    /\ shut \in {"loops", "closing"}
    /\ shut' = "cut" /\ left' = {} /\ doomed' = {}
    /\ UNCHANGED <<configVars, bound, queued, server, loop, active, incoming, closed, ended, acceptVars>>

ListenerStops == TcpClose \/ TcpWaitClosed \/ WsClose \/ QuicClose \/ WtClose \/ KcpClose
Closing == Drain \/ ListenerStops \/ (\E c \in Conns : CloseQueued(c)) \/ CloseReturns
Binding == TcpBind \/ WsBind \/ QuicBind \/ KcpBind \/ WtBind
Looping == \E p \in Protocols : AcceptLoop(p) \/ LoopCancelled(p)
Accepting(a) == Taken(a) \/ AcceptWakes(a) \/ AcceptEnds(a)

ListenerNext ==
    \/ Binding \/ Start \/ Looping \/ Closing \/ Close \/ CloseCut
    \/ \E p \in Protocols : LoopFails(p)
    \/ \E a \in Accepts : AcceptWith(a) \/ Accepting(a) \/ AcceptCancelled(a) \/ CallerCloses(a)
=============================================================================
