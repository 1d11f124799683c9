----------------------------- MODULE NeighborMesh -----------------------------
(***************************************************************************)
(* How one relay keeps its gossip neighbours: the five second tick, the    *)
(* goroutines that dial, the connections other relays open, the relay      *)
(* lists, and Close (uniconn-go/p2p/relay_gossip.go, relay.go).            *)
(*                                                                         *)
(* A conn is one connection together with the goroutine that serves it and *)
(* may be used again once it is over.  neighbors is keyed by the dialled   *)
(* address, or by the remote address of an inbound connection, which is    *)
(* different for each: the conn itself stands for it.                      *)
(***************************************************************************)
EXTENDS Naturals, FiniteSets, FiniteSetsExt

CONSTANTS
    Conns,          \* connections and their goroutines
    Addrs,          \* listening addresses of other relays
    Seeds,          \* RelayConfig.SeedRelays
    MaxNeighbors,   \* RelayConfig.MaxNeighbors
    None            \* nil

ASSUME MeshAssumption ==
    /\ IsFiniteSet(Conns) /\ IsFiniteSet(Addrs) /\ Seeds \subseteq Addrs
    /\ Conns \cap Addrs = {} /\ None \notin Conns \cup Addrs
    /\ MaxNeighbors \in Nat

VARIABLES
    knownRelays,   \* RelayServer.knownRelays
    neighbors,     \* neighbors[k]: connection registered under key k, or None
    pc,            \* pc[c]: where the goroutine of c stands
    key,           \* key[c]: address c was dialled at, c itself if inbound, or None
    sock,          \* sock[c]: "none", "open" or "closed"
    loop,          \* maintainNeighbors is running
    closing,       \* how far RelayServer.Close has got
    toClose        \* connections in the snapshot Close has still to close

vars == <<knownRelays, neighbors, pc, key, sock, loop, closing, toClose>>

Keys == Addrs \cup Conns
Registered == {k \in Keys : neighbors[k] # None}

\* The maps, goroutines and sockets hold values of their types.
TypeOK ==
    /\ knownRelays \subseteq Addrs
    /\ neighbors \in [Keys -> Conns \cup {None}]
    /\ pc \in [Conns -> {"idle", "dial", "setup", "ready", "reject", "accepted", "serve", "unlist"}]
    /\ key \in [Conns -> Keys \cup {None}]
    /\ sock \in [Conns -> {"none", "open", "closed"}]
    /\ loop \in BOOLEAN
    /\ closing \in {"run", "cancelled", "closing", "closed"}
    /\ toClose \subseteq Conns

\* StartGossipLoop: the seeds are known, maintainNeighbors starts.
Init ==
    /\ knownRelays = Seeds
    /\ neighbors = [k \in Keys |-> None]
    /\ pc = [c \in Conns |-> "idle"] /\ key = [c \in Conns |-> None]
    /\ sock = [c \in Conns |-> "none"]
    /\ loop = TRUE
    /\ closing = "run" /\ toClose = {}

Cancelled == closing # "run"
Goto(c, l) == pc' = [pc EXCEPT ![c] = l]
CloseSock(c) == sock' = [sock EXCEPT ![c] = IF @ = "open" THEN "closed" ELSE @]

-----------------------------------------------------------------------------
(* maintainNeighbors *)

\* Mutant of Candidates: relays learnt from others are never dialled.
CandidatesFromConfig == Seeds \ Registered

Candidates == knownRelays \ Registered

\* reconnectNeighbors: dial as many candidates as there are free places.  The
\* select of maintainNeighbors may take a tick although the context is done.  A dial
\* there is no connection left for in the model is one that fails at once.
ReconnectNeighbors ==
    /\ loop
    /\ Cardinality(Registered) < MaxNeighbors
    /\ LET free == MaxNeighbors - Cardinality(Registered)
           idle == {c \in Conns : pc[c] = "idle"}
           n == Min({free, Cardinality(Candidates), Cardinality(idle)}) IN
       /\ n > 0
       /\ \E A \in kSubset(n, Candidates), D \in kSubset(n, idle) :
             \E f \in [D -> A] :
                /\ \A c, d \in D : f[c] = f[d] => c = d
                /\ pc' = [c \in Conns |-> IF c \in D THEN "dial" ELSE pc[c]]
                /\ key' = [c \in Conns |-> IF c \in D THEN f[c] ELSE key[c]]
    /\ UNCHANGED <<knownRelays, neighbors, sock, loop, closing, toClose>>

LoopEnds ==
    /\ loop /\ Cancelled
    /\ loop' = FALSE
    /\ UNCHANGED <<knownRelays, neighbors, pc, key, sock, closing, toClose>>

-----------------------------------------------------------------------------
(* connectToNeighbor *)

\* The goroutine of c is over.
Finish(c) ==
    /\ pc' = [pc EXCEPT ![c] = "idle"] /\ key' = [key EXCEPT ![c] = None]
    /\ sock' = [sock EXCEPT ![c] = "none"]

Dial(c) ==
    /\ pc[c] = "dial"
    /\ \/ /\ ~Cancelled
          /\ sock' = [sock EXCEPT ![c] = "open"] /\ Goto(c, "setup") /\ UNCHANGED key
       \/ Finish(c)
    /\ UNCHANGED <<knownRelays, neighbors, loop, closing, toClose>>

\* Handshake and GET_RELAYS under the setup guard; finish() looks at the context.
Setup(c) ==
    /\ pc[c] = "setup"
    /\ \/ ~Cancelled /\ Goto(c, "ready") /\ UNCHANGED <<sock, key>>
       \/ Finish(c)
    /\ UNCHANGED <<knownRelays, neighbors, loop, closing, toClose>>

\* Mutant of Refused: the entry of an overlapping dial is overwritten.
RefusedIfCancelled(c) == Cancelled

Refused(c) == Cancelled \/ neighbors[key[c]] # None

\* The section under mu that registers the new neighbour.
RegisterDialled(c) ==
    /\ pc[c] = "ready"
    /\ \/ Refused(c) /\ Goto(c, "reject") /\ UNCHANGED neighbors
       \/ ~Refused(c) /\ Goto(c, "serve") /\ neighbors' = [neighbors EXCEPT ![key[c]] = c]
    /\ UNCHANGED <<knownRelays, key, sock, loop, closing, toClose>>

Reject(c) ==
    /\ pc[c] = "reject" /\ Finish(c)
    /\ UNCHANGED <<knownRelays, neighbors, loop, closing, toClose>>

-----------------------------------------------------------------------------
(* Inbound neighbours and the connections themselves *)

\* handleIncoming has read a gossip envelope as the first one.
Inbound(c) ==
    /\ pc[c] = "idle" /\ ~Cancelled
    /\ sock' = [sock EXCEPT ![c] = "open"] /\ key' = [key EXCEPT ![c] = c]
    /\ Goto(c, "accepted")
    /\ UNCHANGED <<knownRelays, neighbors, loop, closing, toClose>>

\* It is recorded whatever MaxNeighbors says.
RegisterInbound(c) ==
    /\ pc[c] = "accepted"
    /\ neighbors' = [neighbors EXCEPT ![c] = c]
    /\ Goto(c, "serve")
    /\ UNCHANGED <<knownRelays, key, sock, loop, closing, toClose>>

\* RELAYS_LIST: whatever addresses the other relay knows.
RelaysList(c) ==
    /\ pc[c] = "serve" /\ sock[c] = "open"
    /\ \E A \in SUBSET Addrs : knownRelays' = knownRelays \cup A
    /\ UNCHANGED <<neighbors, pc, key, sock, loop, closing, toClose>>

\* handleNeighborConn: the read fails, the deferred function closes the socket ...
ServeEnds(c) ==
    /\ pc[c] = "serve" /\ CloseSock(c) /\ Goto(c, "unlist")
    /\ UNCHANGED <<knownRelays, neighbors, key, loop, closing, toClose>>

\* Mutant of Unlist: the socket is closed but its entry stays.
UnlistNothing(c) == UNCHANGED neighbors

\* ... and, under mu, deletes the entry if it is still this connection's.
Unlist(c) ==
    neighbors' = IF neighbors[key[c]] = c
                 THEN [neighbors EXCEPT ![key[c]] = None] ELSE neighbors

Unregister(c) ==
    /\ pc[c] = "unlist" /\ Unlist(c) /\ Finish(c)
    /\ UNCHANGED <<knownRelays, loop, closing, toClose>>

-----------------------------------------------------------------------------
(* RelayServer.Close *)

Cancel ==
    /\ closing = "run" /\ closing' = "cancelled"
    /\ UNCHANGED <<knownRelays, neighbors, pc, key, sock, loop, toClose>>

\* The registered neighbours, and the inbound sockets, which the relay tracks in
\* its connections.
Snapshot ==
    /\ closing = "cancelled" /\ closing' = "closing"
    /\ toClose' = {neighbors[k] : k \in Registered} \cup {c \in Conns : key[c] = c}
    /\ UNCHANGED <<knownRelays, neighbors, pc, key, sock, loop>>

CloseNext ==
    /\ closing = "closing"
    /\ \/ \E c \in toClose : CloseSock(c) /\ toClose' = toClose \ {c} /\ UNCHANGED closing
       \/ toClose = {} /\ closing' = "closed" /\ UNCHANGED <<toClose, sock>>
    /\ UNCHANGED <<knownRelays, neighbors, pc, key, loop>>

-----------------------------------------------------------------------------
Goroutine(c) ==
    Dial(c) \/ Setup(c) \/ RegisterDialled(c) \/ Reject(c) \/ RegisterInbound(c) \/ Unregister(c)

Next ==
    \/ ReconnectNeighbors \/ LoopEnds
    \/ \E c \in Conns : Goroutine(c) \/ Inbound(c) \/ RelaysList(c) \/ ServeEnds(c)
    \/ Cancel \/ Snapshot \/ CloseNext

Spec == Init /\ [][Next]_vars

\* Goroutines run, ticks keep coming, and a read on a closed socket fails.  The tick
\* is strongly fair because only the bound on connections ever holds it up.
FairSpec ==
    /\ Spec
    /\ SF_vars(ReconnectNeighbors) /\ WF_vars(LoopEnds) /\ WF_vars(Snapshot \/ CloseNext)
    /\ \A c \in Conns :
          WF_vars(Goroutine(c)) /\ WF_vars(sock[c] = "closed" /\ ServeEnds(c))

-----------------------------------------------------------------------------
(* Properties *)

\* Overlapping dials never leave two served connections to one address, and a
\* served connection is the registered one: none is open but unknown to Close.
ServedIsRegistered ==
    \A c \in Conns : pc[c] = "serve" => neighbors[key[c]] = c

\* After Close every neighbour connection is closed and forgotten for good.
MeshDissolves ==
    closing = "closed" ~> [](Registered = {} /\ \A c \in Conns : sock[c] # "open")

\* While the relay runs and has free places, a known relay that is not a neighbour
\* becomes one, or some relay is dialled again.
KeepsDialling ==
    \A a \in Addrs :
        (a \in knownRelays /\ neighbors[a] = None /\ Cardinality(Registered) < MaxNeighbors)
            ~> \/ Cancelled \/ Cardinality(Registered) >= MaxNeighbors
               \/ neighbors[a] # None \/ \E c \in Conns : pc[c] = "dial"
=============================================================================
