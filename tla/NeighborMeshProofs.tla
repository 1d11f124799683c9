-------------------------- MODULE NeighborMeshProofs --------------------------
(***************************************************************************)
(* The neighbour table of a relay, for any number of connections,          *)
(* addresses and seeds and any MaxNeighbors.                               *)
(***************************************************************************)
EXTENDS NeighborMesh, TLAPS

\* A goroutine knows the key it registers under: the address it dials, or the
\* connection itself if it is inbound, which no other goroutine has.
KeyOK(c) ==
    /\ pc[c] \in {"dial", "setup", "ready", "reject"} => key[c] \in Addrs
    /\ pc[c] = "accepted" => key[c] = c
    /\ pc[c] \in {"serve", "unlist"} => key[c] \in Addrs \cup {c}
    /\ pc[c] = "serve" => neighbors[key[c]] = c

\* An entry belongs to a goroutine that has registered and will delete it.
EntryOK(k) ==
    neighbors[k] # None => /\ key[neighbors[k]] = k
                           /\ pc[neighbors[k]] \in {"serve", "unlist"}

\* The inductive invariant.
MeshInv ==
    /\ TypeOK
    /\ \A c \in Conns : KeyOK(c)
    /\ \A k \in Keys : EntryOK(k)

\* The invariant holds when the loop starts.
LEMMA MeshInvInit == Init => MeshInv
BY MeshAssumption DEF Init, MeshInv, TypeOK, KeyOK, EntryOK, Keys

\* Goroutines that have not registered, or not yet begun, may change their state and
\* their key as long as they know the key.
LEMMA Unregistered ==
    ASSUME MeshInv, TypeOK', UNCHANGED neighbors,
           \A c \in Conns :
              \/ pc'[c] = pc[c] /\ key'[c] = key[c]
              \/ /\ pc[c] \notin {"serve", "unlist"} /\ pc'[c] \notin {"serve", "unlist"}
                 /\ pc'[c] \in {"dial", "setup", "ready", "reject"} => key'[c] \in Addrs
                 /\ pc'[c] = "accepted" => key'[c] = c
    PROVE  MeshInv'
<1>1. ASSUME NEW c \in Conns PROVE KeyOK(c)'
  BY <1>1 DEF MeshInv, KeyOK
<1>2. ASSUME NEW k \in Keys PROVE EntryOK(k)'
  BY <1>2 DEF MeshInv, TypeOK, EntryOK
<1> QED
  BY <1>1, <1>2 DEF MeshInv, Keys

\* The tick starts goroutines that know the address they dial.
LEMMA TickStep == ASSUME MeshInv, ReconnectNeighbors PROVE MeshInv'
<1> DEFINE idle == {c \in Conns : pc[c] = "idle"}
           free == MaxNeighbors - Cardinality(Registered)
           n == Min({free, Cardinality(Candidates), Cardinality(idle)})
<1>0. PICK A \in kSubset(n, Candidates), D \in kSubset(n, idle) : \E f \in [D -> A] :
         /\ \A c, d \in D : f[c] = f[d] => c = d
         /\ pc' = [c \in Conns |-> IF c \in D THEN "dial" ELSE pc[c]]
         /\ key' = [c \in Conns |-> IF c \in D THEN f[c] ELSE key[c]]
  BY Zenon DEF ReconnectNeighbors
<1>1. PICK f \in [D -> A] :
         /\ \A c, d \in D : f[c] = f[d] => c = d
         /\ pc' = [c \in Conns |-> IF c \in D THEN "dial" ELSE pc[c]]
         /\ key' = [c \in Conns |-> IF c \in D THEN f[c] ELSE key[c]]
  BY <1>0, Zenon
<1>2. D \subseteq idle /\ A \subseteq Candidates
  BY <1>0 DEF kSubset
<1>3. \A c \in D : f[c] \in Addrs
  BY <1>1, <1>2 DEF Candidates, MeshInv, TypeOK
<1>4. UNCHANGED <<knownRelays, neighbors, sock, loop, closing, toClose>>
  BY DEF ReconnectNeighbors
<1>5. TypeOK'
  BY <1>1, <1>2, <1>3, <1>4 DEF MeshInv, TypeOK, Keys
<1> QED
  BY <1>1, <1>2, <1>3, <1>4, <1>5, Unregistered

\* A goroutine's own steps keep the invariant.
LEMMA GoroutineStep ==
    ASSUME MeshInv, NEW c \in Conns, Goroutine(c) \/ Inbound(c) \/ RelaysList(c) \/ ServeEnds(c)
    PROVE  MeshInv'
<1>type. TypeOK
  BY DEF MeshInv
<1>key. \A d \in Conns : KeyOK(d)
  BY DEF MeshInv
<1>entry. \A k \in Keys : EntryOK(k)
  BY DEF MeshInv
<1> USE MeshAssumption DEF Goto, Finish
<1>1. CASE Dial(c) \/ Setup(c) \/ Reject(c) \/ Inbound(c) \/ (RegisterDialled(c) /\ Refused(c))
  <2>1. TypeOK'
    BY <1>1, <1>type DEF Dial, Setup, Reject, Inbound, RegisterDialled, TypeOK, Keys
  <2>2. /\ UNCHANGED neighbors
        /\ pc[c] \notin {"serve", "unlist"} /\ pc'[c] \notin {"serve", "unlist"}
        /\ pc'[c] \in {"dial", "setup", "ready", "reject"} => key'[c] \in Addrs
        /\ pc'[c] = "accepted" => key'[c] = c
    BY <1>1, <1>type, <1>key DEF Dial, Setup, Reject, Inbound, RegisterDialled, TypeOK, KeyOK
  <2>3. \A d \in Conns \ {c} : pc'[d] = pc[d] /\ key'[d] = key[d]
    BY <1>1, <1>type DEF Dial, Setup, Reject, Inbound, RegisterDialled, TypeOK
  <2> QED
    BY <2>1, <2>2, <2>3, Unregistered
<1>2. CASE RegisterDialled(c) /\ ~Refused(c)
  <2>1. /\ pc[c] = "ready" /\ key[c] \in Addrs /\ neighbors[key[c]] = None
        /\ pc' = [pc EXCEPT ![c] = "serve"] /\ neighbors' = [neighbors EXCEPT ![key[c]] = c]
        /\ UNCHANGED <<knownRelays, key, sock, loop, closing, toClose>>
    BY <1>2, <1>key DEF RegisterDialled, Refused, KeyOK
  <2>2. TypeOK'
    BY <2>1, <1>type DEF TypeOK
  <2>3. \A d \in Conns : KeyOK(d)'
    BY <2>1, <1>type, <1>key DEF TypeOK, KeyOK, Keys
  <2>4. \A k \in Keys : EntryOK(k)'
    BY <2>1, <1>type, <1>entry DEF TypeOK, EntryOK, Keys
  <2> QED
    BY <2>2, <2>3, <2>4 DEF MeshInv, Keys
<1>3. CASE RegisterInbound(c)
  <2>1. /\ pc[c] = "accepted" /\ key[c] = c
        /\ pc' = [pc EXCEPT ![c] = "serve"] /\ neighbors' = [neighbors EXCEPT ![c] = c]
        /\ UNCHANGED <<knownRelays, key, sock, loop, closing, toClose>>
    BY <1>3, <1>key DEF RegisterInbound, KeyOK
  <2>2. TypeOK'
    BY <2>1, <1>type DEF TypeOK, Keys
  <2>3. \A d \in Conns : KeyOK(d)'
    BY <2>1, <1>type, <1>key DEF TypeOK, KeyOK, Keys
  <2>4. \A k \in Keys : EntryOK(k)'
    BY <2>1, <1>type, <1>entry DEF TypeOK, EntryOK, Keys
  <2> QED
    BY <2>2, <2>3, <2>4 DEF MeshInv, Keys
<1>4. CASE RelaysList(c)
  BY <1>4, <1>type, <1>key, <1>entry DEF RelaysList, MeshInv, TypeOK, KeyOK, EntryOK, Keys
<1>5. CASE ServeEnds(c)
  <2>1. TypeOK'
    BY <1>5, <1>type DEF ServeEnds, CloseSock, TypeOK
  <2>2. \A d \in Conns : KeyOK(d)'
    BY <1>5, <1>type, <1>key DEF ServeEnds, TypeOK, KeyOK
  <2>3. \A k \in Keys : EntryOK(k)'
    BY <1>5, <1>type, <1>entry DEF ServeEnds, TypeOK, EntryOK
  <2> QED
    BY <2>1, <2>2, <2>3 DEF MeshInv, Keys
<1>6. CASE Unregister(c)
  <2>1. /\ pc[c] = "unlist" /\ key[c] \in Keys
        /\ pc' = [pc EXCEPT ![c] = "idle"] /\ key' = [key EXCEPT ![c] = None]
        /\ sock' = [sock EXCEPT ![c] = "none"]
        /\ UNCHANGED <<knownRelays, loop, closing, toClose>>
    BY <1>6, <1>key DEF Unregister, KeyOK, Keys
  <2>2. neighbors' \in [Keys -> Conns \cup {None}]
    BY <1>6, <2>1, <1>type DEF Unregister, Unlist, TypeOK
  <2>3. \A k \in Keys : neighbors'[k] = IF neighbors[k] = c THEN None ELSE neighbors[k]
    BY <1>6, <2>1, <1>type, <1>entry DEF Unregister, Unlist, TypeOK, EntryOK
  <2>4. TypeOK'
    BY <2>1, <2>2, <1>type DEF TypeOK
  <2>5. \A d \in Conns : KeyOK(d)'
    BY <2>1, <2>3, <1>type, <1>key DEF TypeOK, KeyOK, Keys
  <2>6. \A k \in Keys : EntryOK(k)'
    BY <2>1, <2>3, <1>type, <1>entry DEF TypeOK, EntryOK
  <2> QED
    BY <2>4, <2>5, <2>6 DEF MeshInv, Keys
<1> QED
  BY <1>1, <1>2, <1>3, <1>4, <1>5, <1>6 DEF Goroutine

\* Close, and the end of the loop, touch neither the keys nor the entries.
LEMMA CloseStep ==
    ASSUME MeshInv, LoopEnds \/ Cancel \/ Snapshot \/ CloseNext \/ UNCHANGED vars
    PROVE  MeshInv'
<1>1. UNCHANGED <<knownRelays, neighbors, pc, key>>
  BY DEF LoopEnds, Cancel, Snapshot, CloseNext, vars
<1>2. toClose' \subseteq Conns
  BY DEF MeshInv, TypeOK, LoopEnds, Cancel, Snapshot, CloseNext, vars, Registered
<1>3. sock' \in [Conns -> {"none", "open", "closed"}]
  BY DEF MeshInv, TypeOK, LoopEnds, Cancel, Snapshot, CloseNext, CloseSock, vars
<1>4. loop' \in BOOLEAN /\ closing' \in {"run", "cancelled", "closing", "closed"}
  BY Zenon DEF MeshInv, TypeOK, LoopEnds, Cancel, Snapshot, CloseNext, vars
<1>5. TypeOK'
  BY <1>1, <1>2, <1>3, <1>4 DEF MeshInv, TypeOK, Keys
<1> QED
  BY <1>1, <1>5 DEF MeshInv, KeyOK, EntryOK, Keys

\* The invariant holds as long as the relay runs.
THEOREM MeshInvariant == Spec => []MeshInv
<1>1. MeshInv /\ [Next]_vars => MeshInv'
  BY TickStep, GoroutineStep, CloseStep, Zenon DEF Next
<1> QED
  BY <1>1, MeshInvInit, PTL DEF Spec

\* connectToNeighbor and handleNeighborConn: however dials overlap, a connection
\* that is served is the one registered under its key, so that no two served
\* connections have one address and Close finds every one of them.
THEOREM ServedAreRegistered == Spec => []ServedIsRegistered
<1>1. MeshInv => ServedIsRegistered
  BY DEF MeshInv, KeyOK, ServedIsRegistered
<1> QED
  BY <1>1, MeshInvariant, PTL
=============================================================================
