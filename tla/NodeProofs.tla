----------------------------- MODULE NodeProofs -----------------------------
(***************************************************************************)
(* Theorems about Node: for any number of calls, sessions and incoming     *)
(* peers, every open socket has an owner, and a connection that has been   *)
(* returned to a caller is never closed by the node.                       *)
(***************************************************************************)
EXTENDS Node, TLAPS

\* The task of a setup, the call around it and its socket agree.
SetupOK(o) ==
    /\ run[o] = "none" <=> ses[o] = None
    /\ pc[o] \in {"idle", "lock", "replacing"} => run[o] = "none"
    /\ pc[o] = "ok" => run[o] = "done"
    /\ run[o] \in {"none", "dialing"} => socket[o] = "none"
    /\ run[o] = "failed" => socket[o] # "open"

SetupInv == \A o \in Setups : SetupOK(o)

\* What a session or its _stop_session holds is its own and not the caller's, and
\* pending is empty once the session has ended.
HeldInv ==
    \A s \in Connects :
        /\ \A o \in pending[s] \cup closing[s] :
              ses[o] = s /\ run[o] \notin {"none", "dialing"} /\ o \notin Returned
        /\ pending[s] # {} => stop[s] = "no"
        /\ closing[s] # {} => stop[s] # "no"

\* A peer is in the queue of its session once, or with one accept of that session.
QueueInv ==
    \A s \in Connects : \A i \in 1 .. Len(incoming[s]) :
        /\ pc[incoming[s][i]] = "ok" /\ ses[incoming[s][i]] = s
        /\ \A a \in Accepts : item[a] # incoming[s][i]
        /\ \A j \in 1 .. Len(incoming[s]) : incoming[s][i] = incoming[s][j] => i = j

\* An accept has a peer of its session, and no other accept has the same.
ItemOK(a) ==
    /\ pc[a] = "waiting" => ses[a] \in Connects
    /\ pc[a] = "idle" => item[a] = None
    /\ pc[a] = "ok" => item[a] # None
    /\ item[a] # None => pc[item[a]] = "ok" /\ ses[item[a]] = ses[a]
    /\ \A b \in Accepts : item[a] = item[b] /\ item[a] # None => a = b

ItemInv == \A a \in Accepts : ItemOK(a)

\* The inductive invariant.
NodeInv == TypeOK /\ SetupInv /\ HeldInv /\ QueueInv /\ ItemInv /\ Owned

\* The invariant holds when a node has been made.
LEMMA NodeInvInit == Init => NodeInv
<1> SUFFICES ASSUME Init PROVE NodeInv
  OBVIOUS
<1> USE NodeAssumption DEF Init, Setups, Calls
<1>0. incoming \in [Connects -> Seq(Proxies)]
  OBVIOUS
<1>1. TypeOK
  BY <1>0, Zenon DEF TypeOK, Stoppers
<1>2. SetupInv /\ HeldInv /\ ItemInv /\ Owned
  BY Zenon DEF SetupInv, SetupOK, HeldInv, ItemInv, ItemOK, Owned
<1>3. QueueInv
  BY DEF QueueInv
<1> QED
  BY <1>1, <1>2, <1>3, Zenon DEF NodeInv

\* _stop_session up to its first await: what was pending is now about to be closed.
LEMMA BeginStopHolds ==
    ASSUME NodeInv, NEW s \in Connects, NEW who \in Stoppers, ~Ended(s), BeginStop(s, who),
           UNCHANGED <<ses, run, socket, Returned>>
    PROVE  /\ stop' \in [Connects -> Stoppers \cup {"no", "done", "cut"}]
           /\ hit' \subseteq Setups /\ late' \subseteq Setups /\ reading' \subseteq Connects
           /\ pending' \in [Connects -> SUBSET Setups] /\ closing' \in [Connects -> SUBSET Setups]
           /\ HeldInv' /\ Owned'
<1> USE NodeAssumption DEF NodeInv, TypeOK, Setups, Calls, Stoppers, Ended, BeginStop
<1>0. who # "no"
  OBVIOUS
<1>1. /\ stop' \in [Connects -> Stoppers \cup {"no", "done", "cut"}]
      /\ hit' \subseteq Setups /\ late' \subseteq Setups /\ reading' \subseteq Connects
      /\ pending' \in [Connects -> SUBSET Setups] /\ closing' \in [Connects -> SUBSET Setups]
  OBVIOUS
<1>2. HeldInv'
  BY <1>0 DEF HeldInv
<1>3. Owned'
  BY <1>0 DEF Owned, HeldInv
<1> QED
  BY <1>2, <1>3, Zenon

\* A step that moves no socket and no call.
LEMMA NothingMoves ==
    ASSUME NodeInv, UNCHANGED <<stop, pending, closing, incoming, pc, ses, run, socket, item>>
    PROVE  SetupInv' /\ HeldInv' /\ QueueInv' /\ ItemInv' /\ Owned'
<1>1. UNCHANGED Returned
  BY Zenon DEF Returned
<1>2. SetupInv' /\ QueueInv' /\ ItemInv'
  BY DEF NodeInv, SetupInv, SetupOK, QueueInv, ItemInv, ItemOK
<1>3. HeldInv' /\ Owned'
  BY <1>1, Zenon DEF NodeInv, HeldInv, Owned, Ended
<1> QED
  BY <1>2, <1>3, Zenon

\* Only call o moves; it returns nothing to a caller.  Sockets are at most closed, and
\* what a session no longer holds is.
Moves(o) ==
    /\ UNCHANGED <<stop, incoming, item>>
    /\ \A q \in Calls \ {o} : pc'[q] = pc[q] /\ ses'[q] = ses[q]
    /\ \A q \in Setups \ {o} : /\ run'[q] = run[q]
                               /\ run[q] \in {"none", "dialing"} => socket'[q] = socket[q]
    /\ pc'[o] = pc[o] \/ (pc[o] # "ok" /\ (pc'[o] = "ok" => o \in Connects))
    /\ o \in Setups => /\ \/ run[o] = "none"
                          \/ ses'[o] = ses[o] /\ run'[o] \in {run[o], "done", "failed"}
                       /\ SetupOK(o)'
    /\ o \in Accepts => ItemOK(o)'
    /\ \A q \in Setups : socket'[q] \in {socket[q], "closed"}
    /\ \A s \in Connects : /\ pending'[s] \subseteq pending[s] /\ closing'[s] \subseteq closing[s]
                           /\ \A q \in pending[s] \ pending'[s] : socket'[q] # "open"
                           /\ \A q \in closing[s] \ closing'[s] : socket'[q] # "open"

\* Such a step disturbs no other call, and leaves no open socket without an owner.
LEMMA CallMoves ==
    ASSUME NodeInv, TypeOK', NEW o \in Calls, Moves(o)
    PROVE  NodeInv'
<1>same. \A q \in Calls \ {o} : pc'[q] = pc[q] /\ ses'[q] = ses[q]
  BY Zenon DEF Moves
<1>run. \A q \in Setups \ {o} : /\ run'[q] = run[q]
                                /\ run[q] \in {"none", "dialing"} => socket'[q] = socket[q]
  BY Zenon DEF Moves
<1>own. o \in Setups => run[o] = "none" \/ (ses'[o] = ses[o] /\ run'[o] \in {run[o], "done", "failed"})
  BY Zenon DEF Moves
<1>socket. \A q \in Setups : socket'[q] \in {socket[q], "closed"}
  BY Zenon DEF Moves
<1>1. ASSUME NEW q \in Setups PROVE SetupOK(q)'
  <2>1. CASE q = o
    BY <2>1, Zenon DEF Moves
  <2>2. CASE q # o
    <3>1. SetupOK(q) /\ q \in Calls
      BY Zenon DEF NodeInv, SetupInv, Calls
    <3>2. /\ pc'[q] = pc[q] /\ ses'[q] = ses[q] /\ run'[q] = run[q]
          /\ run[q] \in {"none", "dialing"} => socket'[q] = socket[q]
          /\ socket'[q] \in {socket[q], "closed"}
      BY <2>2, <3>1, <1>same, <1>run, <1>socket
    <3> QED
      BY <3>1, <3>2, Zenon DEF SetupOK
  <2> QED
    BY <2>1, <2>2, Zenon
<1> USE NodeAssumption
<1>2. Returned' = Returned
  BY DEF NodeInv, TypeOK, Returned, Setups, Calls, Moves
<1>3. ASSUME NEW s \in Connects, NEW q \in pending[s] \cup closing[s]
      PROVE  ses'[q] = ses[q] /\ run'[q] \notin {"none", "dialing"}
  <2>1. q \in Setups /\ q \in Calls /\ run[q] \notin {"none", "dialing"}
    BY DEF NodeInv, TypeOK, HeldInv, Calls
  <2> QED
    BY <2>1, <1>same, <1>run, <1>own
<1>4. HeldInv'
  BY <1>2, <1>3 DEF NodeInv, HeldInv, Moves
<1>5. \A p \in Proxies : pc[p] = "ok" => pc'[p] = "ok" /\ ses'[p] = ses[p]
  BY Zenon DEF NodeInv, SetupInv, SetupOK, Setups, Calls, Moves
<1>6. QueueInv'
  BY <1>5 DEF NodeInv, TypeOK, QueueInv, Moves
<1>7. ItemInv'
  BY <1>5 DEF NodeInv, TypeOK, ItemInv, ItemOK, Calls, Moves
<1>8. \A q \in Setups : socket'[q] = "open" =>
         socket[q] = "open" /\ ses'[q] = ses[q] /\ ses[q] \in Connects
  BY <1>same, <1>own, <1>socket DEF NodeInv, TypeOK, SetupInv, SetupOK, Calls
<1>9. Owned'
  BY <1>2, <1>8 DEF NodeInv, Owned, Ended, Moves
<1> QED
  BY <1>1, <1>4, <1>6, <1>7, <1>9, Zenon DEF NodeInv, SetupInv

\* A new session starts with its setup in the dial.
LEMMA NewSessionHolds ==
    ASSUME NodeInv, NEW c \in Connects, pc[c] \in {"lock", "replacing"}, NewSession(c),
           lock' \in Connects \cup {None},
           UNCHANGED <<closed, stop, control, reading, pending, closing, incoming, hit, late, socket, item>>
    PROVE  NodeInv'
<1> USE NodeAssumption DEF NewSession, Finish, Setups, Calls
<1>1. TypeOK'
  BY Zenon DEF NodeInv, TypeOK
<1>2. Moves(c)
  BY DEF NodeInv, TypeOK, SetupInv, SetupOK, Moves
<1> QED
  BY <1>1, <1>2, CallMoves, Zenon

\* run() fails: its socket is forgotten and closed.
LEMMA RunEnds ==
    ASSUME NodeInv, NEW o \in Setups, Running(o), Fail(o),
           UNCHANGED <<closed, session, lock, stop, control, reading, closing, incoming, pc, ses,
                       hit, late, item>>
    PROVE  NodeInv'
<1> USE NodeAssumption DEF Fail, Running, Setups, Calls
<1>1. TypeOK'
  BY Zenon DEF NodeInv, TypeOK
<1>2. Moves(o)
  BY DEF NodeInv, TypeOK, SetupInv, SetupOK, HeldInv, Moves
<1> QED
  BY <1>1, <1>2, CallMoves, Zenon

\* The steps of connect_relay, close, _stop_session and the end of the control loop.
SessionNext ==
    \/ Close
    \/ \E s \in Connects : ControlLost(s) \/ CloseConnections(s) \/ StopEnds(s) \/ StopCut(s)
    \/ \E c \in Connects : \/ ConnectRelay(c) \/ Locked(c) \/ Replaced(c)
                           \/ Connected(c) \/ ConnectFails(c) \/ ConnectFailed(c)

\* Opening, replacing, losing and closing a session keep the invariant.
LEMMA SessionStep == ASSUME NodeInv, SessionNext PROVE NodeInv'
<1>type. TypeOK
  BY Zenon DEF NodeInv
<1>setup. SetupInv
  BY Zenon DEF NodeInv
<1>held. HeldInv
  BY Zenon DEF NodeInv
<1>queue. QueueInv
  BY Zenon DEF NodeInv
<1>item. ItemInv
  BY Zenon DEF NodeInv
<1>owned. Owned
  BY Zenon DEF NodeInv
<1>1. CASE Close
  <2> USE DEF Close
  <2>1. CASE Live
    <3>1. session \in Connects /\ ~Ended(session) /\ "close" \in Stoppers
      BY <2>1, <1>type, Zenon DEF TypeOK, Live, Stoppers
    <3>2. BeginStop(session, "close") /\ UNCHANGED <<ses, run, socket, Returned>>
      BY <1>1, <2>1, Zenon DEF Returned
    <3>3. TypeOK' /\ HeldInv' /\ Owned'
      BY <1>1, <3>1, <3>2, BeginStopHolds, <1>type, Zenon DEF TypeOK
    <3>4. SetupInv' /\ QueueInv' /\ ItemInv'
      BY <1>1, <1>setup, <1>queue, <1>item DEF SetupInv, SetupOK, QueueInv, ItemInv, ItemOK
    <3> QED
      BY <3>3, <3>4, Zenon DEF NodeInv
  <2>2. CASE ~Live
    <3>1. /\ closed' = TRUE
          /\ UNCHANGED <<session, lock, control, reading, hit, late, stop, pending, closing, incoming,
                         pc, ses, run, socket, item>>
      BY <1>1, <2>2, Zenon
    <3>2. TypeOK'
      BY <3>1, <1>type, Zenon DEF TypeOK
    <3> QED
      BY <3>1, <3>2, NothingMoves, Zenon DEF NodeInv
  <2> QED
    BY <2>1, <2>2, Zenon
<1>2. ASSUME NEW s \in Connects, ControlLost(s) PROVE NodeInv'
  <2> USE DEF ControlLost
  <2>1. CASE ~Ended(s)
    <3>1. BeginStop(s, "loop") /\ "loop" \in Stoppers /\ UNCHANGED <<ses, run, socket, Returned>>
      BY <1>2, <2>1, Zenon DEF Returned, Stoppers
    <3>2. TypeOK' /\ HeldInv' /\ Owned'
      BY <1>2, <2>1, <3>1, BeginStopHolds, <1>type, Zenon DEF TypeOK
    <3>3. SetupInv' /\ QueueInv' /\ ItemInv'
      BY <1>2, <1>setup, <1>queue, <1>item DEF SetupInv, SetupOK, QueueInv, ItemInv, ItemOK
    <3> QED
      BY <3>2, <3>3, Zenon DEF NodeInv
  <2>2. CASE Ended(s)
    <3>1. /\ reading' = reading \ {s}
          /\ UNCHANGED <<closed, session, lock, control, hit, late, stop, pending, closing, incoming,
                         pc, ses, run, socket, item>>
      BY <1>2, <2>2, Zenon
    <3>2. TypeOK'
      BY <3>1, <1>type, Zenon DEF TypeOK
    <3> QED
      BY <3>1, <3>2, NothingMoves, Zenon DEF NodeInv
  <2> QED
    BY <2>1, <2>2, Zenon
<1>3. ASSUME NEW s \in Connects, CloseConnections(s) PROVE NodeInv'
  <2> USE <1>3 DEF CloseConnections
  <2>1. TypeOK'
    BY <1>type, Zenon DEF TypeOK
  <2>2. Moves(s)
    BY <1>type, <1>setup, <1>held, NodeAssumption DEF TypeOK, SetupInv, SetupOK, HeldInv, Moves, Setups, Calls
  <2> QED
    BY <2>1, <2>2, CallMoves, Zenon DEF Setups, Calls
<1>4. ASSUME NEW s \in Connects, StopEnds(s) PROVE NodeInv'
  <2> USE <1>4 DEF StopEnds, Running
  <2>1. TypeOK'
    BY <1>type DEF TypeOK
  <2>2. SetupInv' /\ ItemInv'
    BY <1>setup, <1>item, Zenon DEF SetupInv, SetupOK, ItemInv, ItemOK
  <2>3. HeldInv'
    BY <1>held, NodeAssumption DEF HeldInv, Returned, Stoppers, Setups, Calls
  <2>4. QueueInv'
    BY <1>queue DEF QueueInv
  <2>5. Owned'
    BY <1>owned, NodeAssumption DEF Owned, Returned, Ended, SetupInv, SetupOK, Stoppers, Setups, Calls
  <2> QED
    BY <2>1, <2>2, <2>3, <2>4, <2>5, Zenon DEF NodeInv
<1>5. ASSUME NEW s \in Connects, StopCut(s) PROVE NodeInv'
  <2>1. /\ stop' = [stop EXCEPT ![s] = "cut"] /\ closing' = [closing EXCEPT ![s] = {}]
        /\ UNCHANGED <<closed, session, control, reading, pending, incoming, ses, run, hit, late, socket, item>>
    BY <1>5, Zenon DEF StopCut
  <2>2. stop[s] # "no"
    BY <1>5, NodeAssumption, Zenon DEF Stoppers, StopCut, Setups, Calls
  <2>3. /\ pc' \in [Calls -> {"idle", "lock", "replacing", "setup", "failing", "waiting", "ok", "failed"}]
        /\ lock' \in Connects \cup {None}
        /\ \A o \in Calls : pc'[o] = pc[o] \/ (o \in Connects /\ pc'[o] = "failed")
    <3>1. CASE stop[s] \in Connects
      <4>1. pc' = [pc EXCEPT ![stop[s]] = "failed"] /\ lock' = None
        BY <1>5, <3>1, Zenon DEF StopCut
      <4> QED
        BY <3>1, <4>1, <1>type, Zenon DEF TypeOK, Setups, Calls
    <3>2. CASE stop[s] \notin Connects
      <4>1. UNCHANGED <<pc, lock>>
        BY <1>5, <3>2, Zenon DEF StopCut
      <4> QED
        BY <4>1, <1>type, Zenon DEF TypeOK
    <3> QED
      BY <3>1, <3>2, Zenon
  <2>4. TypeOK'
    BY <2>1, <2>3, <1>type, Zenon DEF TypeOK
  <2>5. \A d \in Dials : pc'[d] = pc[d]
    BY <2>3, NodeAssumption, Zenon DEF Setups, Calls
  <2>6. \A a \in Accepts : pc'[a] = pc[a]
    BY <2>3, NodeAssumption, Zenon DEF Setups, Calls
  <2>7. Returned' = Returned
    BY <2>1, <2>5, <2>6, Zenon DEF Returned
  <2>8. SetupInv'
    BY <2>1, <2>3, <1>setup, Zenon DEF SetupInv, SetupOK, Calls
  <2>9. HeldInv'
    BY <2>1, <2>2, <2>7, <1>held DEF HeldInv
  <2>10. \A p \in Proxies : pc'[p] = pc[p]
    BY <2>3, NodeAssumption, Zenon DEF Setups, Calls
  <2>11. QueueInv' /\ ItemInv'
    BY <2>1, <2>6, <2>10, <1>type, <1>queue, <1>item, NodeAssumption DEF TypeOK, QueueInv, ItemInv, ItemOK
  <2>12. Owned'
    BY <2>1, <2>7, <1>type, <1>owned DEF TypeOK, Owned, Ended
  <2> QED
    BY <2>4, <2>8, <2>9, <2>11, <2>12, Zenon DEF NodeInv
<1>6. ASSUME NEW c \in Connects, ConnectRelay(c) PROVE NodeInv'
  <2> USE <1>6 DEF ConnectRelay, Finish
  <2>1. TypeOK'
    BY <1>type, NodeAssumption, Zenon DEF TypeOK, Stoppers, Setups, Calls
  <2>2. Moves(c)
    BY <1>type, <1>setup, <1>item, NodeAssumption, Zenon
       DEF TypeOK, SetupInv, SetupOK, ItemInv, ItemOK, Moves, Setups, Calls
  <2> QED
    BY <2>1, <2>2, CallMoves, Zenon DEF Setups, Calls
<1>7. ASSUME NEW c \in Connects, Locked(c) PROVE NodeInv'
  <2> USE DEF Locked, Finish
  <2>1. CASE closed
    <3>1. /\ pc' = [pc EXCEPT ![c] = "failed"]
          /\ UNCHANGED <<closed, session, lock, stop, control, reading, pending, closing, incoming,
                         ses, run, hit, late, socket, item>>
      BY <1>7, <2>1, Zenon
    <3> HIDE DEF Locked
    <3>2. TypeOK'
      BY <3>1, <1>type, Zenon DEF TypeOK, Setups, Calls
    <3>3. Moves(c)
      BY <1>7, <3>1, <1>type, <1>setup, <1>item, NodeAssumption, Zenon
         DEF TypeOK, SetupInv, SetupOK, ItemInv, ItemOK, Moves, Locked, Setups, Calls
    <3> QED
      BY <3>2, <3>3, CallMoves, Zenon DEF Setups, Calls
  <2>2. CASE ~closed /\ Live
    <3>1. session \in Connects /\ ~Ended(session) /\ c \in Stoppers
      BY <2>2, <1>type, Zenon DEF TypeOK, Live, Stoppers
    <3>2. BeginStop(session, c) /\ UNCHANGED <<ses, run, socket, Returned>>
      BY <1>7, <2>2, <1>type DEF Returned, TypeOK, Setups, Calls
    <3>3. HeldInv' /\ Owned'
      BY <3>1, <3>2, BeginStopHolds, Zenon
    <3>4. /\ lock' = c /\ pc' = [pc EXCEPT ![c] = "replacing"]
          /\ UNCHANGED <<closed, session, control, incoming, ses, run, socket, item>>
      BY <1>7, <2>2, Zenon
    <3> HIDE DEF Locked
    <3>5. TypeOK'
      BY <3>1, <3>2, <3>4, BeginStopHolds, <1>type, Zenon DEF TypeOK, Setups, Calls
    <3>6. SetupInv'
      BY <1>7, <3>4, <1>setup DEF SetupInv, SetupOK, Locked
    <3>7. QueueInv' /\ ItemInv'
      BY <3>4, <1>type, <1>queue, <1>item, NodeAssumption DEF TypeOK, QueueInv, ItemInv, ItemOK
    <3> QED
      BY <3>3, <3>5, <3>6, <3>7, Zenon DEF NodeInv
  <2>3. CASE ~closed /\ ~Live
    <3>1. /\ pc[c] = "lock" /\ lock' = c /\ NewSession(c)
          /\ UNCHANGED <<closed, stop, control, reading, pending, closing, incoming, hit, late, socket, item>>
      BY <1>7, <2>3, Zenon
    <3> QED
      BY <3>1, NewSessionHolds, Zenon
  <2> QED
    BY <1>7, <2>1, <2>2, <2>3, Zenon
<1>8. ASSUME NEW c \in Connects, Replaced(c) PROVE NodeInv'
  <2>1. /\ pc[c] = "replacing" /\ NewSession(c)
        /\ UNCHANGED <<closed, lock, stop, control, reading, pending, closing, incoming, hit, late,
                       socket, item>>
    BY <1>8, Zenon DEF Replaced
  <2>2. lock' \in Connects \cup {None}
    BY <2>1, <1>type, Zenon DEF TypeOK
  <2> QED
    BY <2>1, <2>2, NewSessionHolds, Zenon
<1>9. ASSUME NEW c \in Connects, Connected(c) PROVE NodeInv'
  <2> USE <1>9 DEF Connected, Finish, Delivered
  <2>1. TypeOK'
    BY <1>type, NodeAssumption DEF TypeOK, Stoppers, Setups, Calls
  <2>2. Moves(c)
    BY <1>type, <1>setup, <1>item, NodeAssumption, Zenon
       DEF TypeOK, SetupInv, SetupOK, ItemInv, ItemOK, Moves, Setups, Calls
  <2> QED
    BY <2>1, <2>2, CallMoves, Zenon DEF Setups, Calls
<1>10. ASSUME NEW c \in Connects, ConnectFails(c) PROVE NodeInv'
  <2> USE DEF ConnectFails, Finish, Undelivered
  <2>1. CASE Ended(c)
    <3>1. /\ pc' = [pc EXCEPT ![c] = "failed"] /\ lock' = None
          /\ UNCHANGED <<closed, session, stop, control, reading, pending, closing, incoming, ses, run,
                         hit, late, socket, item>>
      BY <1>10, <2>1, Zenon
    <3> HIDE DEF ConnectFails
    <3>2. TypeOK'
      BY <3>1, <1>type, Zenon DEF TypeOK, Setups, Calls
    <3>3. Moves(c)
      BY <1>10, <3>1, <1>type, <1>setup, <1>item, NodeAssumption, Zenon
         DEF TypeOK, SetupInv, SetupOK, ItemInv, ItemOK, Moves, ConnectFails, Setups, Calls
    <3> QED
      BY <3>2, <3>3, CallMoves, Zenon DEF Setups, Calls
  <2>2. CASE ~Ended(c)
    <3>1. BeginStop(c, c) /\ c \in Stoppers /\ UNCHANGED <<ses, run, socket, Returned>>
      BY <1>10, <2>2, <1>type DEF Returned, TypeOK, Stoppers, Setups, Calls
    <3>2. HeldInv' /\ Owned'
      BY <2>2, <3>1, BeginStopHolds, Zenon
    <3>3. /\ pc' = [pc EXCEPT ![c] = "failing"]
          /\ UNCHANGED <<closed, session, lock, control, incoming, ses, run, socket, item>>
      BY <1>10, <2>2, Zenon
    <3> HIDE DEF ConnectFails
    <3>4. TypeOK'
      BY <2>2, <3>1, <3>3, BeginStopHolds, <1>type, Zenon DEF TypeOK, Setups, Calls
    <3>5. SetupInv'
      BY <3>3, <1>setup, NodeAssumption DEF SetupInv, SetupOK
    <3>6. QueueInv' /\ ItemInv'
      BY <3>3, <1>type, <1>queue, <1>item, NodeAssumption DEF TypeOK, QueueInv, ItemInv, ItemOK, Calls
    <3> QED
      BY <3>2, <3>4, <3>5, <3>6, Zenon DEF NodeInv
  <2> QED
    BY <2>1, <2>2, Zenon
<1>11. ASSUME NEW c \in Connects, ConnectFailed(c) PROVE NodeInv'
  <2> USE <1>11 DEF ConnectFailed, Finish
  <2>1. TypeOK'
    BY <1>type, NodeAssumption, Zenon DEF TypeOK, Stoppers, Setups, Calls
  <2>2. Moves(c)
    BY <1>type, <1>setup, <1>item, NodeAssumption, Zenon
       DEF TypeOK, SetupInv, SetupOK, ItemInv, ItemOK, Moves, Setups, Calls
  <2> QED
    BY <2>1, <2>2, CallMoves, Zenon DEF Setups, Calls
<1> QED
  BY <1>1, <1>2, <1>3, <1>4, <1>5, <1>6, <1>7, <1>8, <1>9, <1>10, <1>11, Zenon DEF SessionNext

-----------------------------------------------------------------------------
(* The steps of the task run() of _setup, of dial_peer and of an incoming peer *)

\* The steps of _setup, dial_peer and _accept_relay_proxy.
SetupNext ==
    \/ \E o \in Setups : DialReturns(o) \/ RunFails(o) \/ OperationReturns(o) \/ SetupCut(o)
    \/ \E p \in Proxies : ProxyReady(p) \/ \E s \in Connects : IncomingRelay(p, s)
    \/ \E d \in Dials : DialPeer(d) \/ DialedPeer(d)
    \/ \E o \in Dials \cup Proxies : SetupFails(o)

\* A setup keeps the invariant, whether it succeeds, fails, times out or is cancelled.
LEMMA SetupStep == ASSUME NodeInv, SetupNext PROVE NodeInv'
<1>type. TypeOK
  BY Zenon DEF NodeInv
<1>setup. SetupInv
  BY Zenon DEF NodeInv
<1>held. HeldInv
  BY Zenon DEF NodeInv
<1>queue. QueueInv
  BY Zenon DEF NodeInv
<1>item. ItemInv
  BY Zenon DEF NodeInv
<1>owned. Owned
  BY Zenon DEF NodeInv
<1>1. ASSUME NEW o \in Setups, DialReturns(o) PROVE NodeInv'
  <2>1. CASE Ended(ses[o])
    <3>1. /\ run' = [run EXCEPT ![o] = "failed"] /\ socket' = [socket EXCEPT ![o] = "closed"]
          /\ UNCHANGED <<closed, session, lock, stop, control, reading, pending, closing, incoming, pc,
                         ses, hit, late, item>>
      BY <1>1, <2>1, Zenon DEF DialReturns
    <3>2. TypeOK'
      BY <3>1, <1>type, NodeAssumption, Zenon DEF TypeOK, Stoppers, Setups, Calls
    <3>3. Moves(o)
      BY <1>1, <3>1, <1>type, <1>setup, NodeAssumption, Zenon
         DEF TypeOK, SetupInv, SetupOK, Moves, DialReturns, Setups, Calls
    <3> QED
      BY <3>2, <3>3, CallMoves, Zenon DEF Calls
  <2>2. CASE ~Ended(ses[o])
    <3>1. /\ run' = [run EXCEPT ![o] = "operating"]
          /\ socket' = [socket EXCEPT ![o] = "open"]
          /\ pending' = [pending EXCEPT ![ses[o]] = @ \cup {o}]
          /\ UNCHANGED <<closed, session, lock, stop, control, reading, closing, incoming, pc, ses,
                         hit, late, item>>
      BY <1>1, <2>2, Zenon DEF DialReturns
    <3> USE <3>1
    <3>2. ses[o] \in Connects /\ o \notin Returned
      BY <1>1, <2>2, <1>type, <1>setup, <1>item, NodeAssumption
         DEF TypeOK, Returned, SetupInv, SetupOK, ItemInv, ItemOK, DialReturns, Setups, Calls
    <3>3. pending' \in [Connects -> SUBSET Setups]
      BY <3>2, <1>type, NodeAssumption DEF TypeOK, Setups, Calls
    <3>4. TypeOK'
      BY <3>3, <1>type, NodeAssumption, Zenon DEF TypeOK, Setups, Calls
    <3>5. SetupInv'
      BY <1>1, <1>type, <1>setup, Zenon DEF TypeOK, SetupInv, SetupOK, DialReturns, Calls
    <3>6. HeldInv'
      BY <2>2, <3>2, <1>type, <1>held, NodeAssumption
         DEF TypeOK, HeldInv, Ended, Returned, Setups, Calls
    <3>7. QueueInv' /\ ItemInv'
      BY <1>queue, <1>item DEF QueueInv, ItemInv, ItemOK
    <3>8. Owned'
      BY <2>2, <3>2, <1>type, <1>owned, NodeAssumption DEF TypeOK, Owned, Returned, Ended, Setups, Calls
    <3> QED
      BY <3>2, <3>3, <3>4, <3>5, <3>6, <3>7, <3>8, Zenon DEF NodeInv
  <2> QED
    BY <2>1, <2>2, Zenon DEF NodeInv
<1>2. ASSUME NEW o \in Setups, RunFails(o) PROVE NodeInv'
  BY <1>2, RunEnds, Zenon DEF RunFails
<1>3. ASSUME NEW o \in Setups, OperationReturns(o) PROVE NodeInv'
  <2>1. CASE Ended(ses[o])
    <3>1. /\ Running(o) /\ Fail(o)
          /\ UNCHANGED <<closed, session, lock, stop, control, reading, closing, incoming, pc, ses,
                         hit, late, item>>
      BY <1>3, <2>1, Zenon DEF OperationReturns, Running
    <3> QED
      BY <3>1, RunEnds, Zenon
  <2>2. CASE ~Ended(ses[o])
    <3>1. /\ run[o] = "operating" /\ run' = [run EXCEPT ![o] = "done"]
          /\ UNCHANGED <<closed, session, lock, stop, control, reading, pending, closing, incoming, pc,
                         ses, hit, late, socket, item>>
      BY <1>3, <2>2, Zenon DEF OperationReturns, Fail
    <3>2. TypeOK'
      BY <3>1, <1>type, NodeAssumption, Zenon DEF TypeOK, Stoppers, Setups, Calls
    <3>3. Moves(o)
      BY <3>1, <1>type, <1>setup, NodeAssumption, Zenon DEF TypeOK, SetupInv, SetupOK, Moves, Setups, Calls
    <3> QED
      BY <3>2, <3>3, CallMoves, Zenon DEF Calls
  <2> QED
    BY <2>1, <2>2, Zenon
<1>4. ASSUME NEW o \in Setups, SetupCut(o) PROVE NodeInv'
  <2>1. /\ UNCHANGED <<closed, session, lock, control, reading, stop, pending, closing, incoming, pc,
                       ses, run, socket, item>>
        /\ hit' \subseteq hit \cup {o} /\ late' \subseteq late \cup {o}
    BY <1>4, Zenon DEF SetupCut
  <2>2. TypeOK'
    BY <2>1, <1>type, NodeAssumption DEF TypeOK, Setups, Calls
  <2> QED
    BY <2>1, <2>2, NothingMoves, Zenon DEF NodeInv
<1>5. ASSUME NEW p \in Proxies, ProxyReady(p) PROVE NodeInv'
  <2> USE <1>5 DEF ProxyReady, Delivered, Finish
  <2>1. ses[p] \in Connects
    BY <1>type, <1>setup, NodeAssumption, Zenon DEF TypeOK, SetupInv, SetupOK, Setups, Calls
  <2>2. TypeOK'
    BY <2>1, <1>type, NodeAssumption DEF TypeOK, Stoppers, Setups, Calls
  <2>3. SetupInv'
    BY <1>type, <1>setup, NodeAssumption, Zenon DEF TypeOK, SetupInv, SetupOK, Setups, Calls
  <2>4. HeldInv'
    BY <1>type, <1>setup, <1>held, <1>item, NodeAssumption
       DEF TypeOK, HeldInv, Returned, ItemInv, ItemOK, SetupInv, SetupOK, Setups, Calls
  <2>5. QueueInv'
    <3> SUFFICES ASSUME NEW s \in Connects, NEW i \in 1 .. Len(incoming'[s])
                 PROVE  /\ pc'[incoming'[s][i]] = "ok" /\ ses'[incoming'[s][i]] = s
                        /\ \A a \in Accepts : item'[a] # incoming'[s][i]
                        /\ \A j \in 1 .. Len(incoming'[s]) : incoming'[s][i] = incoming'[s][j] => i = j
      BY <1>queue, Zenon DEF QueueInv
    <3>1. CASE s # ses[p]
      BY <3>1, <1>type, <1>queue, NodeAssumption DEF TypeOK, QueueInv, Setups, Calls
    <3>2. CASE s = ses[p]
      <4>1. incoming[s] \in Seq(Proxies) /\ incoming'[s] = Append(incoming[s], p)
        BY <3>2, <1>type, NodeAssumption, Zenon DEF TypeOK, Setups, Calls
      <4>2. /\ Len(incoming'[s]) = Len(incoming[s]) + 1 /\ incoming'[s][Len(incoming[s]) + 1] = p
            /\ \A j \in 1 .. Len(incoming[s]) : incoming'[s][j] = incoming[s][j] /\ incoming[s][j] \in Proxies
        BY <4>1
      <4>3. \A j \in 1 .. Len(incoming[s]) : incoming[s][j] # p
        BY <1>queue, Zenon DEF QueueInv
      <4>4. \A a \in Accepts : item[a] # p
        BY <1>item, NodeAssumption, Zenon DEF ItemInv, ItemOK, Setups, Calls
      <4>5. \A q \in Proxies : pc[q] = "ok" => pc'[q] = "ok"
        BY <1>type, NodeAssumption, Zenon DEF TypeOK, Setups, Calls
      <4> QED
        BY <3>2, <4>2, <4>3, <4>4, <4>5, <1>type, <1>queue, NodeAssumption
           DEF QueueInv, TypeOK, Setups, Calls
    <3> QED
      BY <3>1, <3>2, Zenon DEF NodeInv
  <2>6. ItemInv'
    BY <1>type, <1>setup, <1>queue, <1>item, NodeAssumption
       DEF TypeOK, ItemInv, ItemOK, QueueInv, SetupInv, SetupOK, Setups, Calls
  <2>7. Owned'
    BY <1>owned DEF Owned, Returned, Ended
  <2> QED
    BY <2>1, <2>2, <2>3, <2>4, <2>5, <2>6, <2>7, Zenon DEF NodeInv
<1>6. ASSUME NEW p \in Proxies, NEW s \in Connects, IncomingRelay(p, s) PROVE NodeInv'
  <2> USE <1>6 DEF IncomingRelay, Finish
  <2>1. TypeOK'
    BY <1>type, NodeAssumption, Zenon DEF TypeOK, Stoppers, Setups, Calls
  <2>2. Moves(p)
    BY <1>type, <1>setup, <1>item, NodeAssumption
       DEF TypeOK, SetupInv, SetupOK, ItemInv, ItemOK, Moves, Setups, Calls
  <2> QED
    BY <2>1, <2>2, CallMoves, Zenon DEF Setups, Calls
<1>7. ASSUME NEW d \in Dials, DialPeer(d) PROVE NodeInv'
  <2> USE <1>7 DEF DialPeer, Finish, Usable, Live
  <2>1. TypeOK'
    BY <1>type, NodeAssumption, Zenon DEF TypeOK, Stoppers, Setups, Calls
  <2>2. Moves(d)
    BY <1>type, <1>setup, <1>item, NodeAssumption, Zenon
       DEF TypeOK, SetupInv, SetupOK, ItemInv, ItemOK, Moves, Setups, Calls
  <2> QED
    BY <2>1, <2>2, CallMoves, Zenon DEF Setups, Calls
<1>8. ASSUME NEW d \in Dials, DialedPeer(d) PROVE NodeInv'
  <2>1. CASE Ended(ses[d])
    <3>1. /\ socket' = [socket EXCEPT ![d] = "closed"] /\ pc' = [pc EXCEPT ![d] = "failed"]
          /\ UNCHANGED <<closed, session, lock, stop, control, reading, pending, closing, incoming,
                         ses, run, hit, late, item>>
      BY <1>8, <2>1, Zenon DEF DialedPeer, Finish, Hand
    <3>2. TypeOK'
      BY <3>1, <1>type, NodeAssumption, Zenon DEF TypeOK, Stoppers, Setups, Calls
    <3>3. Moves(d)
      BY <1>8, <3>1, <1>type, <1>setup, NodeAssumption, Zenon
         DEF TypeOK, SetupInv, SetupOK, Moves, DialedPeer, Delivered, Setups, Calls
    <3> QED
      BY <3>2, <3>3, CallMoves, Zenon DEF Setups, Calls
  <2>2. CASE ~Ended(ses[d])
    <3>1. /\ pending' = [pending EXCEPT ![ses[d]] = @ \ {d}] /\ pc' = [pc EXCEPT ![d] = "ok"]
          /\ UNCHANGED <<closed, session, lock, stop, control, reading, closing, incoming, ses, run,
                         hit, late, socket, item>>
      BY <1>8, <2>2, Zenon DEF DialedPeer, Finish, Hand
    <3> USE <3>1
    <3>2. TypeOK'
      BY <1>type, NodeAssumption, Zenon DEF TypeOK, Stoppers, Setups, Calls
    <3>3. SetupInv'
      BY <1>8, <1>type, <1>setup, NodeAssumption, Zenon
         DEF TypeOK, SetupInv, SetupOK, DialedPeer, Delivered, Setups, Calls
    <3>4. Returned' = Returned \cup {d}
      BY <1>type, NodeAssumption DEF TypeOK, Returned, Setups, Calls
    <3>5. HeldInv'
      BY <2>2, <3>4, <1>type, <1>held DEF TypeOK, HeldInv, Ended, Setups, Calls
    <3>6. QueueInv' /\ ItemInv'
      BY <1>queue, <1>item, NodeAssumption DEF QueueInv, ItemInv, ItemOK, Setups
    <3>7. Owned'
      BY <3>4, <1>owned DEF Owned, Ended, Calls
    <3> QED
      BY <3>2, <3>3, <3>4, <3>5, <3>6, <3>7, Zenon DEF NodeInv
  <2> QED
    BY <2>1, <2>2, Zenon DEF NodeInv
<1>9. ASSUME NEW o \in Dials \cup Proxies, SetupFails(o) PROVE NodeInv'
  <2> USE <1>9 DEF SetupFails, Finish, Undelivered
  <2>1. TypeOK'
    BY <1>type, NodeAssumption, Zenon DEF TypeOK, Stoppers, Setups, Calls
  <2>2. Moves(o)
    BY <1>type, <1>setup, <1>item, NodeAssumption, Zenon
       DEF TypeOK, SetupInv, SetupOK, ItemInv, ItemOK, Moves, Setups, Calls
  <2> QED
    BY <2>1, <2>2, CallMoves, Zenon DEF Setups, Calls
<1> QED
  BY <1>1, <1>2, <1>3, <1>4, <1>5, <1>6, <1>7, <1>8, <1>9, Zenon DEF SetupNext

-----------------------------------------------------------------------------
(* accept, and the theorems *)

\* The steps of accept.
AcceptNext ==
    \E a \in Accepts : Accept(a) \/ Take(a) \/ AcceptReturns(a) \/ AcceptFails(a)

\* accept keeps the invariant, whether it returns, is cancelled or finds its session ended.
LEMMA AcceptStep == ASSUME NodeInv, AcceptNext PROVE NodeInv'
<1>type. TypeOK
  BY Zenon DEF NodeInv
<1>setup. SetupInv
  BY Zenon DEF NodeInv
<1>held. HeldInv
  BY Zenon DEF NodeInv
<1>queue. QueueInv
  BY Zenon DEF NodeInv
<1>item. ItemInv
  BY Zenon DEF NodeInv
<1>owned. Owned
  BY Zenon DEF NodeInv
<1>1. ASSUME NEW a \in Accepts, Accept(a) PROVE NodeInv'
  <2> USE <1>1 DEF Accept, Finish, Usable, Live
  <2>1. TypeOK'
    BY <1>type, NodeAssumption, Zenon DEF TypeOK, Stoppers, Setups, Calls
  <2>2. Moves(a)
    BY <1>type, <1>setup, <1>item, NodeAssumption, Zenon
       DEF TypeOK, SetupInv, SetupOK, ItemInv, ItemOK, Moves, Setups, Calls
  <2> QED
    BY <2>1, <2>2, CallMoves, Zenon DEF Setups, Calls
<1>2. ASSUME NEW a \in Accepts, Take(a) PROVE NodeInv'
  <2> USE <1>2 DEF Take
  <2>1. TypeOK'
    BY <1>type, <1>item DEF TypeOK, ItemInv, ItemOK
  <2>2. SetupInv'
    BY <1>type, <1>setup, NodeAssumption, Zenon DEF TypeOK, SetupInv, SetupOK, Setups, Calls
  <2>3. HeldInv'
    BY <1>held DEF HeldInv, Returned
  <2>4. QueueInv'
    BY <1>type, <1>queue, <1>item DEF TypeOK, QueueInv, ItemInv, ItemOK, SetupInv, SetupOK, Calls
  <2>5. ItemInv'
    BY <1>queue, <1>item DEF ItemInv, ItemOK, QueueInv
  <2>6. Owned'
    BY <1>owned DEF Owned, Returned, Ended
  <2> QED
    BY <2>1, <2>2, <2>3, <2>4, <2>5, <2>6, Zenon DEF NodeInv
<1>3. ASSUME NEW a \in Accepts, AcceptReturns(a) PROVE NodeInv'
  <2> USE <1>3 DEF AcceptReturns, Hand, Finish, Ended
  <2>1. TypeOK'
    BY <1>type, NodeAssumption, Zenon DEF TypeOK, Stoppers, Setups, Calls
  <2>2. SetupInv'
    BY <1>setup, NodeAssumption DEF SetupInv, SetupOK
  <2>3. HeldInv'
    BY SMTT(20), <1>type, <1>held, <1>item, NodeAssumption DEF TypeOK, HeldInv, Returned, ItemInv, ItemOK
  <2>4. QueueInv'
    BY SMTT(20), <1>queue DEF QueueInv
  <2>5. ItemInv'
    BY <1>item DEF ItemInv, ItemOK
  <2>6. Owned'
    BY <1>type, <1>owned DEF TypeOK, Owned, Returned, SetupInv, SetupOK, Calls
  <2> QED
    BY <2>1, <2>2, <2>3, <2>4, <2>5, <2>6, Zenon DEF NodeInv
<1>4. ASSUME NEW a \in Accepts, AcceptFails(a) PROVE NodeInv'
  <2>1. CASE item[a] = None
    <3>1. /\ pc' = [pc EXCEPT ![a] = "failed"]
          /\ UNCHANGED <<closed, session, lock, stop, control, reading, pending, closing, incoming,
                         ses, run, hit, late, socket, item>>
      BY <1>4, <2>1, Zenon DEF AcceptFails, Drop, Hand, Finish
    <3>2. TypeOK'
      BY <3>1, <1>type, Zenon DEF TypeOK, Setups, Calls
    <3>3. Moves(a)
      BY <1>4, <3>1, <1>type, <1>setup, <1>item, NodeAssumption
         DEF TypeOK, SetupInv, SetupOK, ItemInv, ItemOK, Moves, AcceptFails, Setups, Calls
    <3> QED
      BY <3>2, <3>3, CallMoves, Zenon DEF Setups, Calls
  <2>2. CASE ~item[a] = None
    <3>1. /\ pending' = [pending EXCEPT ![ses[item[a]]] = @ \ {item[a]}]
          /\ socket' = [socket EXCEPT ![item[a]] = "closed"]
          /\ pc' = [pc EXCEPT ![a] = "failed"]
          /\ UNCHANGED <<closed, session, lock, stop, control, reading, closing, incoming, ses, run,
                         hit, late, item>>
      BY <1>4, <2>2, Zenon DEF AcceptFails, Drop, Hand, Finish
    <3>2. TypeOK'
      BY <3>1, <1>type, NodeAssumption, Zenon DEF TypeOK, Stoppers, Setups, Calls
    <3>3. item[a] \in Proxies /\ run[item[a]] = "done"
      BY SMTT(20), <2>2, <1>type, <1>setup, <1>item, NodeAssumption
         DEF TypeOK, SetupInv, SetupOK, ItemInv, ItemOK, Setups
    <3>4. Moves(a)
      BY SMTT(20), <1>4, <3>1, <3>3, <1>type, <1>item, NodeAssumption
         DEF TypeOK, ItemInv, ItemOK, Moves, AcceptFails, Setups, Calls
    <3> QED
      BY <3>2, <3>4, CallMoves, Zenon DEF Calls
  <2> QED
    BY <2>1, <2>2, Zenon DEF NodeInv
<1> QED
  BY <1>1, <1>2, <1>3, <1>4, Zenon DEF AcceptNext

\* Every step of a node keeps the invariant.
LEMMA NodeInvStep == ASSUME NodeInv, [Next]_vars PROVE NodeInv'
<1>1. CASE SessionNext
  BY <1>1, SessionStep, Zenon
<1>2. CASE SetupNext
  BY <1>2, SetupStep, Zenon
<1>3. CASE AcceptNext
  BY <1>3, AcceptStep, Zenon
<1>4. CASE UNCHANGED vars
  <2>1. TypeOK'
    BY <1>4, NodeAssumption, Zenon DEF NodeInv, vars, TypeOK, Setups, Calls
  <2> QED
    BY <1>4, <2>1, NothingMoves, Zenon DEF vars, NodeInv
<1> QED
  BY <1>1, <1>2, <1>3, <1>4, Zenon DEF Next, SessionNext, SetupNext, AcceptNext

\* NodeInv is an invariant of every node.
LEMMA NodeInvariant == Spec => []NodeInv
<1>1. NodeInv /\ [Next]_vars => NodeInv'
  BY NodeInvStep, Zenon
<1> QED
  BY <1>1, NodeInvInit, PTL DEF Spec

\* Every variable keeps its type.
THEOREM NodeTypes == Spec => []TypeOK
<1>1. NodeInv => TypeOK
  BY Zenon DEF NodeInv
<1> QED
  BY <1>1, NodeInvariant, PTL

\* An open socket always has an owner that will close it, whatever ends, is
\* cancelled or times out, and whenever.
THEOREM SocketsOwned == Spec => []Owned
<1>1. NodeInv => Owned
  BY Zenon DEF NodeInv
<1> QED
  BY <1>1, NodeInvariant, PTL

\* What has been returned is done with: its setup is over, no session holds it, and
\* no accept that still waits has it.
LEMMA ReturnedIsFree ==
    ASSUME NodeInv, NEW o \in Returned
    PROVE  /\ o \in Setups /\ run[o] = "done" /\ pc[o] = "ok"
           /\ \A s \in Connects : o \notin pending[s] \cup closing[s]
           /\ \A a \in Accepts : pc[a] = "waiting" => item[a] # o
<1>1. o \in Dials \cup Proxies /\ pc[o] = "ok"
  BY DEF NodeInv, TypeOK, ItemInv, ItemOK, Returned
<1>2. o \in Setups /\ run[o] = "done"
  BY <1>1, Zenon DEF NodeInv, SetupInv, SetupOK, Setups
<1>3. \A s \in Connects : o \notin pending[s] \cup closing[s]
  BY Zenon DEF NodeInv, HeldInv
<1>4. ASSUME NEW a \in Accepts, pc[a] = "waiting" PROVE item[a] # o
  BY <1>4, NodeAssumption DEF NodeInv, TypeOK, ItemInv, ItemOK, Returned, Setups, Calls
<1> QED
  BY <1>1, <1>2, <1>3, <1>4, Zenon

\* No step of a node touches a connection that dial_peer or accept has returned.
THEOREM CallersKeep == Spec => CallerKeeps
<1>1. ASSUME NodeInv, [Next]_vars PROVE [\A o \in Returned : socket'[o] = socket[o]]_vars
  <2> SUFFICES ASSUME Next, NEW o \in Returned PROVE socket'[o] = socket[o]
    BY <1>1, Zenon DEF vars
  <2> DEFINE Free == /\ o \in Setups /\ run[o] = "done" /\ pc[o] = "ok"
                     /\ \A s \in Connects : o \notin pending[s] \cup closing[s]
                     /\ \A a \in Accepts : pc[a] = "waiting" => item[a] # o
  <2>1. Free /\ socket \in [Setups -> {"none", "open", "closed"}]
    BY <1>1, ReturnedIsFree, Zenon DEF NodeInv, TypeOK
  <2>2. CASE Close \/ \E s \in Connects : StopEnds(s) \/ StopCut(s) \/ ControlLost(s)
    BY <2>2, Zenon DEF Close, StopEnds, StopCut, ControlLost
  <2>3. ASSUME NEW s \in Connects, CloseConnections(s) PROVE socket'[o] = socket[o]
    BY <2>1, <2>3, Zenon DEF CloseConnections
  <2>4. ASSUME NEW q \in Setups, DialReturns(q) \/ RunFails(q) \/ OperationReturns(q)
        PROVE  socket'[o] = socket[o]
    <3>1. q # o
      BY <2>1, <2>4, Zenon DEF DialReturns, RunFails, OperationReturns, Running
    <3>2. \E v : socket' = [socket EXCEPT ![q] = v] \/ UNCHANGED socket
      BY <2>4, Zenon DEF DialReturns, RunFails, OperationReturns, Fail
    <3> QED
      BY <2>1, <3>1, <3>2, Zenon
  <2>5. ASSUME NEW d \in Dials, DialedPeer(d) PROVE socket'[o] = socket[o]
    BY <2>1, <2>5, Zenon DEF DialedPeer, Delivered
  <2>6. ASSUME NEW a \in Accepts, AcceptFails(a) PROVE socket'[o] = socket[o]
    BY <2>1, <2>6, Zenon DEF AcceptFails, Drop
  <2>7. CASE \E c \in Connects : \/ ConnectRelay(c) \/ Locked(c) \/ Replaced(c)
                                 \/ Connected(c) \/ ConnectFails(c) \/ ConnectFailed(c)
    BY <2>7, Zenon
       DEF ConnectRelay, Locked, Replaced, Connected, ConnectFails, ConnectFailed
  <2>8. CASE \/ \E q \in Setups : SetupCut(q)
             \/ \E p \in Proxies : ProxyReady(p) \/ \E s \in Connects : IncomingRelay(p, s)
             \/ \E q \in Dials \cup Proxies : SetupFails(q)
    BY <2>8, Zenon DEF SetupCut, ProxyReady, IncomingRelay, SetupFails
  <2>9. CASE \/ \E d \in Dials : DialPeer(d)
             \/ \E a \in Accepts : Accept(a) \/ Take(a) \/ AcceptReturns(a)
    BY <2>9, Zenon DEF DialPeer, Accept, Take, AcceptReturns
  <2> HIDE DEF Free
  <2> QED
    BY <2>2, <2>3, <2>4, <2>5, <2>6, <2>7, <2>8, <2>9, Zenon DEF Next
<1> QED
  BY <1>1, NodeInvariant, PTL DEF Spec, CallerKeeps
=============================================================================
