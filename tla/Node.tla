-------------------------------- MODULE Node --------------------------------
(***************************************************************************)
(* A node as asyncio tasks: relay sessions, setups, the control loop, the  *)
(* queue of incoming peers, accept and close.                              *)
(* (uniconn-py/uniconn/p2p/node.py)                                        *)
(*                                                                         *)
(* A step runs from one await to the next.  Every call of connect_relay,   *)
(* dial_peer and accept, and every INCOMING_RELAY, is used once.  A        *)
(* session is named by the connect_relay call that made it, and a socket   *)
(* by the setup that dialled it.  run[o] is where the task run() of setup  *)
(* o stands, pc[o] where the call around it stands.                        *)
(*                                                                         *)
(* wait_for follows Python 3.11 and later: when the timeout or a           *)
(* cancellation arrives and run() has already finished, the result is      *)
(* delivered (3.11) or dropped (3.12).  A task that has been told to       *)
(* cancel may still finish, because the call it awaits may swallow it.     *)
(* relay_addr, relay_fp and control_conn are written and never read.       *)
(***************************************************************************)
EXTENDS Naturals, Sequences

CONSTANTS
    Connects,   \* calls of connect_relay
    Dials,      \* calls of dial_peer
    Proxies,    \* INCOMING_RELAY envelopes
    Accepts,    \* calls of accept
    None

Setups == Connects \cup Dials \cup Proxies
Calls == Setups \cup Accepts

ASSUME NodeAssumption ==
    /\ Connects \cap Dials = {} /\ Connects \cap Proxies = {} /\ Dials \cap Proxies = {}
    /\ Accepts \cap Setups = {}
    /\ None \notin Calls
    /\ {"no", "done", "cut", "close", "loop"} \cap Calls = {}

VARIABLES
    closed,     \* _closed
    session,    \* _session
    lock,       \* the call that holds _connect_lock
    stop,       \* _stop_session of a session: "no", who is in it, "done", or "cut" short
    control,    \* sessions with a control connection
    reading,    \* sessions whose _read_control_loop runs
    pending,    \* session.pending
    closing,    \* the connections _stop_session is about to close
    incoming,   \* session.incoming
    pc,         \* where each call stands
    ses,        \* the session of a call
    run,        \* where run() of each setup stands
    hit,        \* setups whose run() has been told to cancel
    late,       \* setups told to stop waiting after run() had finished
    socket,     \* the raw connection of each setup
    item        \* the peer the getter of an accept has taken

vars == <<closed, session, lock, stop, control, reading, pending, closing, incoming, pc, ses, run, hit, late, socket, item>>

Stoppers == {"close", "loop"} \cup Connects

TypeOK ==
    /\ closed \in BOOLEAN
    /\ session \in Connects \cup {None} /\ lock \in Connects \cup {None}
    /\ stop \in [Connects -> Stoppers \cup {"no", "done", "cut"}]
    /\ control \subseteq Connects /\ reading \subseteq Connects
    /\ pending \in [Connects -> SUBSET Setups] /\ closing \in [Connects -> SUBSET Setups]
    /\ incoming \in [Connects -> Seq(Proxies)]
    /\ pc \in [Calls -> {"idle", "lock", "replacing", "setup", "failing", "waiting", "ok", "failed"}]
    /\ ses \in [Calls -> Connects \cup {None}]
    /\ run \in [Setups -> {"none", "dialing", "operating", "done", "failed"}]
    /\ hit \subseteq Setups /\ late \subseteq Setups
    /\ socket \in [Setups -> {"none", "open", "closed"}]
    /\ item \in [Accepts -> Proxies \cup {None}]

Init ==
    /\ closed = FALSE /\ session = None /\ lock = None
    /\ stop = [s \in Connects |-> "no"] /\ control = {} /\ reading = {}
    /\ pending = [s \in Connects |-> {}] /\ closing = [s \in Connects |-> {}]
    /\ incoming = [s \in Connects |-> <<>>]
    /\ pc = [o \in Calls |-> "idle"] /\ ses = [o \in Calls |-> None]
    /\ run = [o \in Setups |-> "none"] /\ hit = {} /\ late = {}
    /\ socket = [o \in Setups |-> "none"] /\ item = [a \in Accepts |-> None]

-----------------------------------------------------------------------------
(* _stop_session *)

Ended(s) == stop[s] # "no"
Live == session # None /\ ~Ended(session)
Running(o) == run[o] \in {"dialing", "operating"}

\* Up to the first await: set the error, cancel the tasks, take over pending.
BeginStop(s, who) ==
    /\ stop' = [stop EXCEPT ![s] = who]
    /\ hit' = hit \cup {o \in Setups : ses[o] = s /\ Running(o)}
    /\ late' = late \cup {p \in Proxies : ses[p] = s /\ pc[p] = "setup" /\ run[p] = "done"}
    /\ reading' = reading \ {s}
    /\ closing' = [closing EXCEPT ![s] = pending[s]]
    /\ pending' = [pending EXCEPT ![s] = {}]

\* The tasks of the first gather run conn.close().
CloseConnections(s) ==
    /\ stop[s] \in Stoppers /\ closing[s] # {}
    /\ socket' = [o \in Setups |-> IF o \in closing[s] THEN "closed" ELSE socket[o]]
    /\ closing' = [closing EXCEPT ![s] = {}]
    /\ UNCHANGED <<closed, session, lock, stop, control, reading, pending, incoming, pc, ses, run, hit, late, item>>

\* Both gathers are over: drop the peers nobody accepted.
StopEnds(s) ==
    /\ stop[s] \in Stoppers /\ closing[s] = {}
    /\ \A o \in Setups : ses[o] = s => ~Running(o)
    /\ \A p \in Proxies : ses[p] = s => pc[p] # "setup"
    /\ incoming' = [incoming EXCEPT ![s] = <<>>]
    /\ stop' = [stop EXCEPT ![s] = "done"]
    /\ UNCHANGED <<closed, session, lock, control, reading, pending, closing, pc, ses, run, hit, late, socket, item>>

\* The caller of close() or connect_relay() is cancelled inside _stop_session:
\* closes that have not started never do, and nobody stops the session again.
StopCut(s) ==
    /\ stop[s] \in Stoppers \ {"loop"}
    /\ stop' = [stop EXCEPT ![s] = "cut"]
    /\ closing' = [closing EXCEPT ![s] = {}]
    /\ IF stop[s] \in Connects
       THEN pc' = [pc EXCEPT ![stop[s]] = "failed"] /\ lock' = None
       ELSE UNCHANGED <<pc, lock>>
    /\ UNCHANGED <<closed, session, control, reading, pending, incoming, ses, run, hit, late, socket, item>>

-----------------------------------------------------------------------------
(* _setup: the task run() and the wait_for around it *)

\* The dial returns a connection; it is refused if the session has ended.
DialReturns(o) ==
    /\ run[o] = "dialing"
    /\ IF Ended(ses[o])
       THEN /\ run' = [run EXCEPT ![o] = "failed"]
            /\ socket' = [socket EXCEPT ![o] = "closed"]
            /\ UNCHANGED pending
       ELSE /\ run' = [run EXCEPT ![o] = "operating"]
            /\ socket' = [socket EXCEPT ![o] = "open"]
            /\ pending' = [pending EXCEPT ![ses[o]] = @ \cup {o}]
    /\ UNCHANGED <<closed, session, lock, stop, control, reading, closing, incoming, pc, ses, hit, late, item>>

\* Mutant of Fail: the socket is forgotten, not closed.
FailOpen(o) ==
    /\ run' = [run EXCEPT ![o] = "failed"]
    /\ pending' = [pending EXCEPT ![ses[o]] = @ \ {o}]
    /\ UNCHANGED socket

\* The except clause of run(): forget the socket and close it.
Fail(o) ==
    /\ run' = [run EXCEPT ![o] = "failed"]
    /\ pending' = [pending EXCEPT ![ses[o]] = @ \ {o}]
    /\ socket' = [socket EXCEPT ![o] = IF @ = "open" THEN "closed" ELSE @]

\* Dial, handshake or envelope fails, or run() is cancelled at its await.
RunFails(o) ==
    /\ Running(o)
    /\ Fail(o)
    /\ UNCHANGED <<closed, session, lock, stop, control, reading, closing, incoming, pc, ses, hit, late, item>>

\* operation(raw) returns.
OperationReturns(o) ==
    /\ run[o] = "operating"
    /\ IF Ended(ses[o]) THEN Fail(o)
       ELSE run' = [run EXCEPT ![o] = "done"] /\ UNCHANGED <<pending, socket>>
    /\ UNCHANGED <<closed, session, lock, stop, control, reading, closing, incoming, pc, ses, hit, late, item>>

\* setup_timeout passes, or the caller is cancelled.
SetupCut(o) ==
    /\ pc[o] = "setup" /\ o \notin hit \cup late
    /\ IF Running(o) THEN hit' = hit \cup {o} /\ UNCHANGED late
       ELSE run[o] = "done" /\ late' = late \cup {o} /\ UNCHANGED hit
    /\ UNCHANGED <<closed, session, lock, stop, control, reading, pending, closing, incoming, pc, ses, run, socket, item>>

\* How wait_for may end.
Delivered(o) == pc[o] = "setup" /\ run[o] = "done"
Undelivered(o) == pc[o] = "setup" /\ (run[o] = "failed" \/ (run[o] = "done" /\ o \in late))

Finish(o, end) == pc' = [pc EXCEPT ![o] = end]

-----------------------------------------------------------------------------
(* connect_relay *)

ConnectRelay(c) ==
    /\ pc[c] = "idle"
    /\ Finish(c, "lock")
    /\ UNCHANGED <<closed, session, lock, stop, control, reading, pending, closing, incoming, ses, run, hit, late, socket, item>>

\* A new session, its setup spawned.
NewSession(c) ==
    /\ session' = c /\ ses' = [ses EXCEPT ![c] = c]
    /\ run' = [run EXCEPT ![c] = "dialing"]
    /\ Finish(c, "setup")

\* The lock is taken; a live session is stopped first.
Locked(c) ==
    /\ pc[c] = "lock" /\ lock = None
    /\ \/ /\ closed
          /\ Finish(c, "failed")
          /\ UNCHANGED <<session, lock, stop, reading, pending, closing, ses, run, hit, late>>
       \/ /\ ~closed /\ Live
          /\ lock' = c
          /\ BeginStop(session, c)
          /\ Finish(c, "replacing")
          /\ UNCHANGED <<session, ses, run>>
       \/ /\ ~closed /\ ~Live
          /\ lock' = c
          /\ NewSession(c)
          /\ UNCHANGED <<stop, reading, pending, closing, hit, late>>
    /\ UNCHANGED <<closed, control, incoming, socket, item>>

\* _stop_session returns and the new session starts.  _closed is not looked at again.
Replaced(c) ==
    /\ pc[c] = "replacing" /\ stop[session] = "done"
    /\ NewSession(c)
    /\ UNCHANGED <<closed, lock, stop, control, reading, pending, closing, incoming, hit, late, socket, item>>

Connected(c) ==
    /\ Delivered(c)
    /\ control' = control \cup {c} /\ reading' = reading \cup {c}
    /\ lock' = None
    /\ Finish(c, "ok")
    /\ UNCHANGED <<closed, session, stop, pending, closing, incoming, ses, run, hit, late, socket, item>>

\* Mutant of ConnectFails: it waits for a stop of its own.
ConnectFailsWait(c) ==
    /\ Undelivered(c) /\ ~Ended(c)
    /\ BeginStop(c, c) /\ Finish(c, "failing")
    /\ UNCHANGED <<closed, session, lock, control, incoming, ses, run, socket, item>>

\* The setup failed: stop the session, unless it is being stopped already.
ConnectFails(c) ==
    /\ Undelivered(c)
    /\ IF Ended(c)
       THEN /\ Finish(c, "failed") /\ lock' = None
            /\ UNCHANGED <<stop, reading, pending, closing, hit, late>>
       ELSE BeginStop(c, c) /\ Finish(c, "failing") /\ UNCHANGED lock
    /\ UNCHANGED <<closed, session, control, incoming, ses, run, socket, item>>

ConnectFailed(c) ==
    /\ pc[c] = "failing" /\ stop[c] = "done"
    /\ Finish(c, "failed") /\ lock' = None
    /\ UNCHANGED <<closed, session, stop, control, reading, pending, closing, incoming, ses, run, hit, late, socket, item>>

-----------------------------------------------------------------------------
(* _read_control_loop and _accept_relay_proxy *)

\* An INCOMING_RELAY envelope; its task starts a setup.
IncomingRelay(p, s) ==
    /\ s \in reading /\ ~Ended(s) /\ pc[p] = "idle"
    /\ ses' = [ses EXCEPT ![p] = s]
    /\ run' = [run EXCEPT ![p] = "dialing"]
    /\ Finish(p, "setup")
    /\ UNCHANGED <<closed, session, lock, stop, control, reading, pending, closing, incoming, hit, late, socket, item>>

\* The control connection ends or an envelope does not parse.
ControlLost(s) ==
    /\ s \in reading
    /\ IF Ended(s) THEN reading' = reading \ {s} /\ UNCHANGED <<stop, pending, closing, hit, late>>
       ELSE BeginStop(s, "loop")
    /\ UNCHANGED <<closed, session, lock, control, incoming, pc, ses, run, socket, item>>

ProxyReady(p) ==
    /\ Delivered(p)
    /\ incoming' = [incoming EXCEPT ![ses[p]] = Append(@, p)]
    /\ Finish(p, "ok")
    /\ UNCHANGED <<closed, session, lock, stop, control, reading, pending, closing, ses, run, hit, late, socket, item>>

SetupFails(o) ==
    /\ Undelivered(o)
    /\ Finish(o, "failed")
    /\ UNCHANGED <<closed, session, lock, stop, control, reading, pending, closing, incoming, ses, run, hit, late, socket, item>>

-----------------------------------------------------------------------------
(* dial_peer, accept and close *)

\* _current_session returns; otherwise the call raises at once.
Usable == ~closed /\ Live /\ session \in control

DialPeer(d) ==
    /\ Usable /\ pc[d] = "idle"
    /\ ses' = [ses EXCEPT ![d] = session]
    /\ run' = [run EXCEPT ![d] = "dialing"]
    /\ Finish(d, "setup")
    /\ UNCHANGED <<closed, session, lock, stop, control, reading, pending, closing, incoming, hit, late, socket, item>>

\* Mutant of Hand: pending keeps the connection handed to the caller.
HandKept(o) == UNCHANGED pending

\* The connection becomes the caller's.
Hand(o) == pending' = [pending EXCEPT ![ses[o]] = @ \ {o}]

DialedPeer(d) ==
    /\ Delivered(d)
    /\ IF Ended(ses[d])
       THEN /\ socket' = [socket EXCEPT ![d] = "closed"]
            /\ Finish(d, "failed")
            /\ UNCHANGED pending
       ELSE Hand(d) /\ Finish(d, "ok") /\ UNCHANGED socket
    /\ UNCHANGED <<closed, session, lock, stop, control, reading, closing, incoming, ses, run, hit, late, item>>

Accept(a) ==
    /\ Usable /\ pc[a] = "idle"
    /\ ses' = [ses EXCEPT ![a] = session]
    /\ Finish(a, "waiting")
    /\ UNCHANGED <<closed, session, lock, stop, control, reading, pending, closing, incoming, run, hit, late, socket, item>>

\* The task of session.incoming.get() takes the next peer.
Take(a) ==
    /\ pc[a] = "waiting" /\ item[a] = None
    /\ incoming[ses[a]] # <<>>
    /\ item' = [item EXCEPT ![a] = Head(incoming[ses[a]])]
    /\ incoming' = [incoming EXCEPT ![ses[a]] = Tail(@)]
    /\ UNCHANGED <<closed, session, lock, stop, control, reading, pending, closing, pc, ses, run, hit, late, socket>>

AcceptReturns(a) ==
    /\ pc[a] = "waiting" /\ item[a] # None /\ ~Ended(ses[a])
    /\ Hand(item[a])
    /\ Finish(a, "ok")
    /\ UNCHANGED <<closed, session, lock, stop, control, reading, closing, incoming, ses, run, hit, late, socket, item>>

\* The except clause of accept: close the peer it has taken, if any.
Drop(a) ==
    IF item[a] = None THEN UNCHANGED <<pending, socket>>
    ELSE Hand(item[a]) /\ socket' = [socket EXCEPT ![item[a]] = "closed"]

\* Mutant of AcceptFails: only an accept that has a peer is woken.
AcceptFailsTaken(a) ==
    /\ pc[a] = "waiting" /\ item[a] # None
    /\ Drop(a)
    /\ Finish(a, "failed")
    /\ UNCHANGED <<closed, session, lock, stop, control, reading, closing, incoming, ses, run, hit, late, item>>

\* The session has ended, or the caller is cancelled.
AcceptFails(a) ==
    /\ pc[a] = "waiting"
    /\ Drop(a)
    /\ Finish(a, "failed")
    /\ UNCHANGED <<closed, session, lock, stop, control, reading, closing, incoming, ses, run, hit, late, item>>

Close ==
    /\ ~closed \/ Live
    /\ closed' = TRUE
    /\ IF Live THEN BeginStop(session, "close")
       ELSE UNCHANGED <<stop, hit, late, reading, closing, pending>>
    /\ UNCHANGED <<session, lock, control, incoming, pc, ses, run, socket, item>>

-----------------------------------------------------------------------------
Next ==
    \/ Close
    \/ \E s \in Connects : CloseConnections(s) \/ StopEnds(s) \/ StopCut(s) \/ ControlLost(s)
    \/ \E c \in Connects :
         \/ ConnectRelay(c) \/ Locked(c) \/ Replaced(c)
         \/ Connected(c) \/ ConnectFails(c) \/ ConnectFailed(c)
    \/ \E o \in Setups :
         DialReturns(o) \/ RunFails(o) \/ OperationReturns(o) \/ SetupCut(o)
    \/ \E p \in Proxies : ProxyReady(p) \/ (\E s \in Connects : IncomingRelay(p, s))
    \/ \E d \in Dials : DialPeer(d) \/ DialedPeer(d)
    \/ \E o \in Dials \cup Proxies : SetupFails(o)
    \/ \E a \in Accepts : Accept(a) \/ Take(a) \/ AcceptReturns(a) \/ AcceptFails(a)

Spec == Init /\ [][Next]_vars

\* Tasks that can run do, a cancelled run() reaches its except clause, the setup
\* timeout fires, and an accept whose session has ended is woken.
Fairness ==
    /\ \A s \in Connects : WF_vars(CloseConnections(s)) /\ WF_vars(StopEnds(s))
    /\ \A c \in Connects :
         /\ WF_vars(Locked(c)) /\ WF_vars(Replaced(c)) /\ WF_vars(ConnectFailed(c))
         /\ WF_vars(Connected(c) \/ ConnectFails(c))
    /\ \A o \in Setups : WF_vars(SetupCut(o)) /\ WF_vars(o \in hit /\ RunFails(o))
    /\ \A o \in Proxies : WF_vars(ProxyReady(o) \/ SetupFails(o))
    /\ \A o \in Dials : WF_vars(DialedPeer(o) \/ SetupFails(o))
    /\ \A a \in Accepts : WF_vars(ses[a] # None /\ Ended(ses[a]) /\ AcceptFails(a))

FairSpec == Spec /\ Fairness

-----------------------------------------------------------------------------
(* Properties *)

\* Sockets that have been returned to a caller.
Returned == {d \in Dials : pc[d] = "ok"} \cup {item[a] : a \in {b \in Accepts : pc[b] = "ok"}}

\* An open socket always has an owner that will close it: the caller it was
\* returned to, pending of a session that has not ended, or the _stop_session that
\* has taken over pending.  The exception is a session whose _stop_session was
\* itself cancelled.
Owned ==
    \A o \in Setups : socket[o] = "open" =>
        \/ o \in Returned
        \/ o \in pending[ses[o]] /\ ~Ended(ses[o])
        \/ o \in closing[ses[o]]
        \/ stop[ses[o]] = "cut"

\* Closing the node, losing the relay or replacing it never closes a connection
\* that dial_peer or accept has returned.
CallerKeeps == [][\A o \in Returned : socket'[o] = socket[o]]_vars

\* When a session ends, every accept and setup of it ends, and every socket that
\* was not returned is closed.
StopReleases ==
    \A s \in Connects : Ended(s) ~>
        \/ stop[s] = "cut"
        \/ /\ \A o \in Calls : ses[o] = s => pc[o] \in {"ok", "failed"}
           /\ \A o \in Setups : ses[o] = s /\ o \notin Returned => socket[o] # "open"

\* connect_relay returns, whatever happens to the session it replaces and to its
\* own: nobody waits for the lock, or for the tasks of a session, for ever.
ConnectSettles == \A c \in Connects : pc[c] = "lock" ~> pc[c] \in {"ok", "failed"}

\* A closed node takes up no further relay session.
ClosedStaysClosed == [][closed => session' = session]_vars
=============================================================================
