----------------------------- MODULE MultiProofs -----------------------------
(***************************************************************************)
(* MultiListener and MultiDialer with any number of dials and accepts, and *)
(* any configuration of the two sides: a connection is in one place and is *)
(* not lost, the end is reported only when it has come, dial returns the   *)
(* best transport, and the sockets of failed tries are closed.             *)
(***************************************************************************)
EXTENDS Multi, FiniteSetTheorems, TLAPS

\* No connection twice.
Distinct(s) == \A i, j \in 1 .. Len(s) : s[i] = s[j] => i = j

\* _active_loops counts the loops that run, which start all at once.
Running == {p \in transports : loop[p] = "accepting"}

LoopInv ==
    /\ transports # {}
    /\ ~closed => active = Cardinality(Running)
    /\ \A p \in Protocols : loop[p] # "none" => p \in transports /\ \A q \in transports : loop[q] # "none"
    /\ EndedOnlyThen

\* The connections in the queues and with the accepts are different ones, and exist.
QueueInv ==
    /\ Distinct(incoming)
    /\ \A p \in Protocols :
          /\ Distinct(queued[p])
          /\ \A c \in Entries(queued[p]) : c[2] = p /\ c \notin Entries(incoming) /\ server[c] # "none"
    /\ \A c \in Entries(incoming) : server[c] # "none"
    /\ \A a \in Accepts : item[a] # None =>
          /\ server[item[a]] # "none" /\ item[a] \notin Entries(incoming)
          /\ \A p \in Protocols : item[a] \notin Entries(queued[p])
          /\ \A b \in Accepts : item[b] = item[a] => b = a

\* What close() has done so far.
ShutInv ==
    /\ closed <=> shut # "no"
    /\ shut \in {"closing", "done"} => incoming = <<>>
    /\ shut \in {"no", "loops"} => doomed = {}

\* An open connection has somebody to close it or take it.
Somewhere(c) ==
    \/ c \in Entries(queued[c[2]]) \/ Handed(c)
    \/ shut \notin {"done", "cut"} /\ (c \in Entries(incoming) \cup doomed)
    \/ InHand(c)
    \/ shut = "cut"

OpenInv == \A c \in Conns : server[c] = "open" => Somewhere(c)

\* The transports up to place i that both sides have.
Before(i) == {Priority[j] : j \in {j \in 1 .. i : Priority[j] \in transports \cap dialers}}

PhaseOK(d) ==
    /\ phase[d] \in {"handshake", "session"} => Priority[at[d]] \in {"quic", "webtransport"}
    /\ phase[d] = "session" => Current(d) \in up
    /\ phase[d] = "settling" => Priority[at[d]] = "kcp"

\* dial has tried in vain what comes before its current place in the list.
DialOK(d) ==
    /\ dial[d] \in {"idle", "negotiating"} => failed[d] = {}
    /\ dial[d] \in {"trying", "returned"} => /\ at[d] \in 1 .. 5
                                             /\ Priority[at[d]] \in transports \cap dialers
                                             /\ failed[d] = Before(at[d] - 1)
    /\ dial[d] = "trying" => PhaseOK(d)
    /\ dial[d] = "returned" => Current(d) \in up \/ Priority[at[d]] = "kcp"
    /\ dial[d] = "failed" => failed[d] = transports \cap dialers

DialInv == \A d \in Dials : DialOK(d)

ListenerInv == ListenerTypeOK /\ LoopInv /\ QueueInv /\ ShutInv /\ OpenInv
DialerInv == DialerTypeOK /\ DialInv /\ SocketsReleased

-----------------------------------------------------------------------------
(* The priority list *)

\* DEFAULT_PRIORITY has the five transports.
LEMMA PriorityIs ==
    /\ Len(Priority) = 5
    /\ Protocols = {"webtransport", "quic", "websocket", "kcp", "tcp"}
    /\ \A i \in 1 .. 5 : Priority[i] \in Protocols
    /\ \A p \in Protocols : \E i \in 1 .. 5 : Priority[i] = p
<1>1. Len(Priority) = 5
  BY DEF Priority
<1>2. Protocols = {Priority[i] : i \in 1 .. 5}
  BY <1>1, Zenon DEF Protocols
<1>3. /\ Priority[1] = "webtransport" /\ Priority[2] = "quic" /\ Priority[3] = "websocket"
      /\ Priority[4] = "kcp" /\ Priority[5] = "tcp"
  BY DEF Priority
<1>4. 1 .. 5 = {1, 2, 3, 4, 5}
  OBVIOUS
<1>5. Protocols = {"webtransport", "quic", "websocket", "kcp", "tcp"}
  BY <1>2, <1>3, <1>4, Zenon
<1> QED
  BY <1>1, <1>2, <1>5, Zenon

\* A connection is a pair of a dial call and a transport.
LEMMA ConnIs ==
    /\ \A c \in Conns : c[1] \in Dials /\ c[2] \in Protocols /\ c = <<c[1], c[2]>>
    /\ \A d \in Dials, p \in Protocols : <<d, p>> \in Conns /\ <<d, p>>[1] = d /\ <<d, p>>[2] = p
BY DEF Conns

\* Some place of a few is the first.
LEMMA LeastPlace ==
    ASSUME NEW C, C \subseteq 1 .. 5, C # {}
    PROVE  \E j \in C : \A k \in C : j <= k
<1>1. CASE 1 \in C
  BY <1>1
<1>2. CASE 1 \notin C /\ 2 \in C
  BY <1>2
<1>3. CASE 1 \notin C /\ 2 \notin C /\ 3 \in C
  BY <1>3
<1>4. CASE 1 \notin C /\ 2 \notin C /\ 3 \notin C /\ 4 \in C
  BY <1>4
<1>5. CASE 1 \notin C /\ 2 \notin C /\ 3 \notin C /\ 4 \notin C
  <2>1. \A k \in C : k = 5
    BY <1>5
  <2>2. PICK j : j \in C
    BY Zenon
  <2>3. j = 5 /\ 5 <= 5
    BY <2>1, <2>2
  <2> QED
    BY <2>1, <2>2, <2>3, Zenon
<1> QED
  BY <1>1, <1>2, <1>3, <1>4, <1>5

\* What the place a dial goes on to says about the places before it.
LEMMA NextPlace ==
    ASSUME transports \subseteq Protocols, NEW from \in 0 .. 5
    PROVE  /\ Candidates(from) = {} => Before(from) = transports \cap dialers
           /\ Candidates(from) # {} =>
                 \A i : i = (CHOOSE j \in Candidates(from) : \A k \in Candidates(from) : j <= k) =>
                    i \in 1 .. 5 /\ Priority[i] \in transports \cap dialers /\ Before(i - 1) = Before(from)
<1> DEFINE C == Candidates(from)
           T == transports \cap dialers
<1>1. C = {j \in (from + 1) .. 5 : Priority[j] \in T}
  BY PriorityIs, Zenon DEF Candidates, NegotiateResponse
<1>2. \A p \in T : \E i \in 1 .. 5 : Priority[i] = p
  BY PriorityIs, Zenon
<1>3. \A i, p : p \in Before(i) <=> \E j \in 1 .. i : Priority[j] \in T /\ p = Priority[j]
  BY Zenon DEF Before
<1> HIDE DEF T, C
<1>4. ASSUME C = {} PROVE Before(from) = T
  <2>1. ASSUME NEW p \in T PROVE p \in Before(from)
    <3>1. PICK i \in 1 .. 5 : Priority[i] = p
      BY <1>2, Zenon
    <3>2. i \in 1 .. from
      BY <1>1, <1>4, <2>1, <3>1
    <3> QED
      BY <1>3, <2>1, <3>1, <3>2, Zenon
  <2>2. Before(from) \subseteq T
    BY <1>3, Zenon
  <2> QED
    BY <2>1, <2>2, Zenon
<1>5. ASSUME C # {}, NEW i, i = CHOOSE j \in C : \A k \in C : j <= k
      PROVE  i \in 1 .. 5 /\ Priority[i] \in T /\ Before(i - 1) = Before(from)
  <2>1. C \subseteq 1 .. 5
    BY <1>1
  <2>2. \E j \in C : \A k \in C : j <= k
    BY <1>5, <2>1, LeastPlace, Zenon
  <2>3. i \in C /\ \A k \in C : i <= k
    BY <1>5, <2>2, Zenon
  <2>4. i \in (from + 1) .. 5 /\ Priority[i] \in T
    BY <1>1, <2>3, Zenon
  <2>5. \A j \in 1 .. (i - 1) : Priority[j] \in T => j \in 1 .. from
    BY <1>1, <2>3, <2>4
  <2>6. \A j \in 1 .. from : j \in 1 .. (i - 1)
    BY <2>4
  <2>7. ASSUME NEW p PROVE p \in Before(i - 1) <=> p \in Before(from)
    <3>1. ASSUME p \in Before(i - 1) PROVE p \in Before(from)
      <4>1. PICK j \in 1 .. (i - 1) : Priority[j] \in T /\ p = Priority[j]
        BY <1>3, <3>1, Zenon
      <4> QED
        BY <1>3, <2>5, <4>1, Zenon
    <3>2. ASSUME p \in Before(from) PROVE p \in Before(i - 1)
      <4>1. PICK j \in 1 .. from : Priority[j] \in T /\ p = Priority[j]
        BY <1>3, <3>2, Zenon
      <4> QED
        BY <1>3, <2>6, <4>1, Zenon
    <3> QED
      BY <3>1, <3>2, Zenon
  <2>8. i \in 1 .. 5
    BY <2>4
  <2>9. Before(i - 1) = Before(from)
    <3>1. Before(i - 1) \subseteq Before(from) /\ Before(from) \subseteq Before(i - 1)
      BY <2>7, Zenon
    <3> QED
      BY <3>1, Zenon
  <2> QED
    BY <2>4, <2>8, <2>9, Zenon
<1> QED
  BY <1>4, <1>5, Zenon DEF C, T

\* A try in vain adds its transport to those before the next place.
LEMMA OneMore ==
    ASSUME NEW i \in 1 .. 5, Priority[i] \in transports \cap dialers
    PROVE  Before(i) = Before(i - 1) \cup {Priority[i]}
<1>1. \A k, p : p \in Before(k) <=> \E j \in 1 .. k : Priority[j] \in transports \cap dialers /\ p = Priority[j]
  BY Zenon DEF Before
<1>2. \A j : j \in 1 .. i <=> j \in 1 .. (i - 1) \/ j = i
  OBVIOUS
<1>3. ASSUME NEW p \in Before(i) PROVE p \in Before(i - 1) \cup {Priority[i]}
  <2>1. PICK j \in 1 .. i : Priority[j] \in transports \cap dialers /\ p = Priority[j]
    BY <1>1, <1>3, Zenon
  <2> QED
    BY <1>1, <1>2, <2>1, Zenon
<1>4. ASSUME NEW p \in Before(i - 1) PROVE p \in Before(i)
  <2>1. PICK j \in 1 .. (i - 1) : Priority[j] \in transports \cap dialers /\ p = Priority[j]
    BY <1>1, <1>4, Zenon
  <2> QED
    BY <1>1, <1>2, <2>1, Zenon
<1>5. Priority[i] \in Before(i)
  BY <1>1, <1>2, Zenon
<1> QED
  BY <1>3, <1>4, <1>5, Zenon

\* A dial that has tried nothing has nothing before it.
LEMMA NoneBefore == Before(0) = {}
<1>1. 1 .. 0 = {}
  OBVIOUS
<1> QED
  BY <1>1, Zenon DEF Before

-----------------------------------------------------------------------------
(* MultiDialer *)

\* A dial that a step does not concern stays as it should be.
LEMMA DialFrame ==
    ASSUME NEW q \in Dials, DialOK(q),
           dial'[q] = dial[q], at'[q] = at[q], phase'[q] = phase[q], failed'[q] = failed[q],
           up \subseteq up', UNCHANGED <<transports, dialers>>
    PROVE  DialOK(q)'
<1>1. \A i : Before(i)' = Before(i)
  BY Zenon DEF Before
<1>2. Current(q)' = Current(q)
  BY Zenon DEF Current
<1>3. PhaseOK(q) => PhaseOK(q)'
  BY <1>2, Zenon DEF PhaseOK
<1> QED
  BY <1>1, <1>2, <1>3, Zenon DEF DialOK

\* What the invariant says of a dial that is trying.
LEMMA TryingIs ==
    ASSUME DialerInv, transports \subseteq Protocols, NEW d \in Dials, dial[d] = "trying"
    PROVE  /\ at[d] \in 1 .. 5 /\ Priority[at[d]] \in transports \cap dialers /\ Priority[at[d]] \in Protocols
           /\ failed[d] = Before(at[d] - 1) /\ PhaseOK(d)
           /\ Current(d) \in Conns /\ Current(d)[1] = d /\ Current(d)[2] = Priority[at[d]]
<1>1. /\ at[d] \in 1 .. 5 /\ Priority[at[d]] \in transports \cap dialers
      /\ failed[d] = Before(at[d] - 1) /\ PhaseOK(d)
  BY Zenon DEF DialerInv, DialInv, DialOK
<1>2. Priority[at[d]] \in Protocols
  BY <1>1, Zenon
<1> QED
  BY <1>1, <1>2, ConnIs, Zenon DEF Current

\* What TryNext does: the dial fails, or goes on to place i and its first await.
Went(d, from, s) ==
    \/ /\ dial' = [dial EXCEPT ![d] = "failed"] /\ phase' = [phase EXCEPT ![d] = "none"]
       /\ socket' = s /\ at' = at /\ Before(from) = transports \cap dialers
    \/ \E i \in 1 .. 5, ph \in {"connecting", "endpoint", "settling"} :
          /\ Priority[i] \in transports \cap dialers /\ Before(i - 1) = Before(from)
          /\ dial' = [dial EXCEPT ![d] = "trying"] /\ at' = [at EXCEPT ![d] = i]
          /\ phase' = [phase EXCEPT ![d] = ph] /\ (ph = "settling" => Priority[i] = "kcp")
          /\ socket' = s \/ socket' = [s EXCEPT ![<<d, Priority[i]>>] = "open"]

\* What TryNext does.
LEMMA TryNextDoes ==
    ASSUME transports \subseteq Protocols, NEW d \in Dials, NEW from \in 0 .. 5, NEW s, TryNext(d, from, s)
    PROVE  Went(d, from, s)
<1>1. CASE Candidates(from) = {}
  BY <1>1, NextPlace, Zenon DEF TryNext, Went
<1>2. CASE Candidates(from) # {}
  <2> DEFINE i == CHOOSE j \in Candidates(from) : \A k \in Candidates(from) : j <= k
  <2>1. i \in 1 .. 5 /\ Priority[i] \in transports \cap dialers /\ Before(i - 1) = Before(from)
    BY <1>2, NextPlace, Zenon
  <2>2. /\ dial' = [dial EXCEPT ![d] = "trying"] /\ at' = [at EXCEPT ![d] = i]
        /\ phase' = [phase EXCEPT ![d] = FirstPhase(Priority[i])]
        /\ socket' = IF Priority[i] = "kcp" THEN [s EXCEPT ![<<d, Priority[i]>>] = "open"] ELSE s
    BY <1>2, Zenon DEF TryNext
  <2> HIDE DEF i
  <2>3. Priority[i] \in {"webtransport", "quic", "websocket", "kcp", "tcp"}
    BY <2>1, PriorityIs, Zenon
  <2>4. /\ FirstPhase(Priority[i]) \in {"connecting", "endpoint", "settling"}
        /\ FirstPhase(Priority[i]) = "settling" => Priority[i] = "kcp"
    BY <2>3 DEF FirstPhase
  <2>5. socket' = s \/ socket' = [s EXCEPT ![<<d, Priority[i]>>] = "open"]
    BY <2>2, Zenon
  <2> QED
    BY <2>1, <2>2, <2>4, <2>5, Zenon DEF Went
<1> QED
  BY <1>1, <1>2, Zenon

\* A socket that the tries of d leave open is cut.
Freed(d, s) ==
    \A c \in Conns :
        s[c] = "open" => \/ c[1] # d /\ socket[c] = "open"
                         \/ c \in cut' /\ c[2] \in {"quic", "webtransport", "kcp"}

\* A dial goes on to the next transport, or fails: what it has tried is what comes
\* before, and the sockets of those tries are closed or cut.
LEMMA MovesOn ==
    ASSUME DialerInv, transports \subseteq Protocols, NEW d \in Dials, NEW from \in 0 .. 5,
           NEW s \in [Conns -> {"none", "open", "closed"}], TryNext(d, from, s),
           failed' = [failed EXCEPT ![d] = Before(from)],
           UNCHANGED <<transports, dialers, up, wrote>>, cut' \subseteq Conns, cut \subseteq cut',
           Freed(d, s)
    PROVE  DialerInv'
<1>types. DialerTypeOK /\ DialInv /\ SocketsReleased
  BY Zenon DEF DialerInv
<1>fun. /\ dial \in [Dials -> {"idle", "negotiating", "trying", "returned", "failed", "refused"}]
        /\ at \in [Dials -> 0 .. 5]
        /\ phase \in [Dials -> {"none", "connecting", "endpoint", "handshake", "settling", "session"}]
        /\ failed \in [Dials -> SUBSET Protocols]
  BY <1>types, PriorityIs, Zenon DEF DialerTypeOK
<1>before. \A i : Before(i)' = Before(i)
  BY Zenon DEF Before
<1>failed. /\ failed' \in [Dials -> SUBSET Protocols] /\ failed'[d] = Before(from)
           /\ \A q \in Dials : q # d => failed'[q] = failed[q]
  <2>1. Before(from) \subseteq Protocols
    BY Zenon DEF Before
  <2> QED
    BY <1>fun, <2>1, Zenon
<1>others. ASSUME /\ \A q \in Dials : q # d => dial'[q] = dial[q] /\ at'[q] = at[q] /\ phase'[q] = phase[q]
                  /\ \A c \in Conns : socket'[c] = s[c] \/ (dial'[d] = "trying" /\ Current(d)' = c)
           PROVE  /\ \A q \in Dials : q # d => DialOK(q)'
                  /\ SocketsReleased'
  <2>1. ASSUME NEW q \in Dials, q # d PROVE DialOK(q)'
    BY <1>others, <1>types, <1>failed, <2>1, DialFrame, Zenon DEF DialInv
  <2>2. ASSUME NEW c \in Conns, socket'[c] = "open"
        PROVE  \/ dial'[c[1]] \in {"trying", "returned"} /\ Current(c[1])' = c
               \/ c \in cut' /\ c[2] \in {"quic", "webtransport", "kcp"}
    <3>1. c[1] \in Dials
      BY ConnIs, Zenon
    <3>2. CASE dial'[d] = "trying" /\ Current(d)' = c
      <4>1. c[1] = d
        BY <3>2 DEF Current
      <4> QED
        BY <3>2, <4>1
    <3>3. CASE c[1] # d /\ socket[c] = "open"
      <4>1. dial'[c[1]] = dial[c[1]] /\ Current(c[1])' = Current(c[1])
        BY <1>others, <3>1, <3>3, Zenon DEF Current
      <4> QED
        BY <1>types, <3>3, <4>1, Zenon DEF SocketsReleased
    <3> QED
      BY <1>others, <2>2, <3>2, <3>3, Zenon DEF Freed
  <2> QED
    BY <2>1, <2>2, Zenon DEF SocketsReleased
<1>1. CASE /\ dial' = [dial EXCEPT ![d] = "failed"] /\ phase' = [phase EXCEPT ![d] = "none"]
           /\ socket' = s /\ at' = at /\ Before(from) = transports \cap dialers
  <2>1. DialerTypeOK'
    BY <1>1, <1>types, <1>fun, <1>failed, PriorityIs, Zenon DEF DialerTypeOK
  <2>2. /\ dial'[d] = "failed"
        /\ \A q \in Dials : q # d => dial'[q] = dial[q] /\ at'[q] = at[q] /\ phase'[q] = phase[q]
    BY <1>1, <1>fun, Zenon
  <2>3. (\A q \in Dials : q # d => DialOK(q)') /\ SocketsReleased'
    BY <1>1, <1>others, <2>2, Zenon
  <2>4. DialOK(d)'
    BY <1>1, <1>failed, <2>2, Zenon DEF DialOK
  <2> QED
    BY <2>1, <2>3, <2>4, Zenon DEF DialerInv, DialInv
<1>2. ASSUME NEW i \in 1 .. 5, NEW ph \in {"connecting", "endpoint", "settling"},
             Priority[i] \in transports \cap dialers, Before(i - 1) = Before(from),
             dial' = [dial EXCEPT ![d] = "trying"], at' = [at EXCEPT ![d] = i],
             phase' = [phase EXCEPT ![d] = ph], ph = "settling" => Priority[i] = "kcp",
             socket' = s \/ socket' = [s EXCEPT ![<<d, Priority[i]>>] = "open"]
      PROVE  DialerInv'
  <2>1. /\ dial'[d] = "trying" /\ at'[d] = i /\ phase'[d] = ph
        /\ \A q \in Dials : q # d => dial'[q] = dial[q] /\ at'[q] = at[q] /\ phase'[q] = phase[q]
    BY <1>2, <1>fun, Zenon
  <2>2. i \in 0 .. 5
    OBVIOUS
  <2>3. socket' \in [Conns -> {"none", "open", "closed"}]
    BY <1>2, Zenon
  <2>4. at' \in [Dials -> 0 .. 5]
    BY <1>2, <1>fun, <2>2, Zenon
  <2>5. DialerTypeOK'
    BY <1>2, <1>types, <1>fun, <1>failed, <2>3, <2>4, PriorityIs, Zenon DEF DialerTypeOK
  <2>6. Current(d)' = <<d, Priority[i]>>
    BY <2>1, Zenon DEF Current
  <2>7. \A c \in Conns : socket'[c] = s[c] \/ (dial'[d] = "trying" /\ Current(d)' = c)
    BY <1>2, <2>1, <2>6, Zenon
  <2>8. (\A q \in Dials : q # d => DialOK(q)') /\ SocketsReleased'
    BY <1>others, <2>1, <2>7, Zenon
  <2>9. PhaseOK(d)'
    BY <1>2, <2>1 DEF PhaseOK
  <2>10. DialOK(d)'
    BY <1>2, <1>before, <1>failed, <2>1, <2>9, Zenon DEF DialOK
  <2> QED
    BY <2>5, <2>8, <2>10, Zenon DEF DialerInv, DialInv
<1>3. Went(d, from, s)
  BY TryNextDoes, Zenon
<1> QED
  BY <1>1, <1>2, <1>3, Zenon DEF Went

\* A try fails, having closed its socket or left it open; the latter only where the
\* try is cancelled, or in the QUIC handshake.
LEMMA TryFailsStep ==
    ASSUME DialerInv, transports \subseteq Protocols, NEW d \in Dials, NEW res \in {"open", "closed"},
           TryFails(d, res), UNCHANGED transports,
           \/ res = "closed" /\ cut' = cut
           \/ /\ res = "open" /\ cut' = cut \cup {Current(d)}
              /\ phase[d] \in {"handshake", "session", "settling"}
    PROVE  DialerInv'
<1> DEFINE s == [socket EXCEPT ![Current(d)] = res]
<1>types. DialerTypeOK /\ SocketsReleased
  BY Zenon DEF DialerInv
<1>1. /\ dial[d] = "trying" /\ failed' = [failed EXCEPT ![d] = @ \cup {Priority[at[d]]}]
      /\ TryNext(d, at[d], s) /\ UNCHANGED <<dialers, up, wrote>>
  BY Zenon DEF TryFails
<1>2. /\ at[d] \in 1 .. 5 /\ Priority[at[d]] \in transports \cap dialers
      /\ failed[d] = Before(at[d] - 1) /\ PhaseOK(d)
      /\ Current(d) \in Conns /\ Current(d)[1] = d /\ Current(d)[2] = Priority[at[d]]
  BY <1>1, TryingIs, Zenon
<1>3. failed' = [failed EXCEPT ![d] = Before(at[d])] /\ at[d] \in 0 .. 5
  <2>1. Before(at[d]) = failed[d] \cup {Priority[at[d]]}
    BY <1>2, OneMore, Zenon
  <2>2. at[d] \in 0 .. 5
    BY <1>2
  <2> QED
    BY <1>1, <2>1, <2>2, Zenon
<1>4. socket \in [Conns -> {"none", "open", "closed"}] /\ cut \subseteq Conns
  BY <1>types, Zenon DEF DialerTypeOK
<1>5. s \in [Conns -> {"none", "open", "closed"}]
  BY <1>4, Zenon
<1>6. cut' \subseteq Conns /\ cut \subseteq cut'
  BY <1>2, <1>4, Zenon
<1>7. ASSUME NEW c \in Conns, s[c] = "open"
      PROVE  \/ c[1] # d /\ socket[c] = "open"
             \/ c \in cut' /\ c[2] \in {"quic", "webtransport", "kcp"}
  <2>1. CASE c = Current(d)
    <3>1. res = "open"
      BY <1>4, <1>7, <2>1, Zenon
    <3>2. Priority[at[d]] \in {"quic", "webtransport", "kcp"}
      BY <1>2, <3>1 DEF PhaseOK
    <3> QED
      BY <1>2, <2>1, <3>1, <3>2
  <2>2. CASE c # Current(d)
    <3>1. socket[c] = "open"
      BY <1>4, <1>7, <2>2, Zenon
    <3>2. c[1] = d => c \in cut /\ c[2] \in {"quic", "webtransport", "kcp"}
      BY <1>types, <2>2, <3>1, Zenon DEF SocketsReleased
    <3> QED
      BY <1>6, <3>1, <3>2, Zenon
  <2> QED
    BY <2>1, <2>2, Zenon
<1> HIDE DEF s
<1>8. Freed(d, s)
  BY <1>7, Zenon DEF Freed
<1> QED
  BY <1>1, <1>3, <1>5, <1>6, <1>8, MovesOn, Zenon

\* The server's list has come: the search begins.
LEMMA NegotiatedStep ==
    ASSUME DialerInv, transports \subseteq Protocols, NEW d \in Dials, Negotiated(d), UNCHANGED transports
    PROVE  DialerInv'
<1>types. DialerTypeOK /\ SocketsReleased /\ DialOK(d)
  BY Zenon DEF DialerInv, DialInv
<1>1. dial[d] = "negotiating" /\ TryNext(d, 0, socket) /\ UNCHANGED <<dialers, failed, up, wrote, cut>>
  BY Zenon DEF Negotiated
<1>2. failed[d] = Before(0)
  BY <1>types, <1>1, NoneBefore, Zenon DEF DialOK
<1>3. failed' = [failed EXCEPT ![d] = Before(0)]
  BY <1>types, <1>1, <1>2 DEF DialerTypeOK
<1>4. socket \in [Conns -> {"none", "open", "closed"}] /\ cut' \subseteq Conns /\ cut \subseteq cut'
  BY <1>types, <1>1, Zenon DEF DialerTypeOK
<1>5. ASSUME NEW c \in Conns, socket[c] = "open"
      PROVE  \/ c[1] # d /\ socket[c] = "open"
             \/ c \in cut' /\ c[2] \in {"quic", "webtransport", "kcp"}
  BY <1>types, <1>1, <1>5, Zenon DEF SocketsReleased
<1>6. 0 \in 0 .. 5
  OBVIOUS
<1>7. Freed(d, socket)
  BY <1>5, Zenon DEF Freed
<1> QED
  BY <1>1, <1>3, <1>4, <1>6, <1>7, MovesOn, Zenon

\* A step of one dial that neither begins nor ends a try in vain.
LEMMA DialMoves ==
    ASSUME DialerInv, transports \subseteq Protocols, NEW d \in Dials,
           UNCHANGED <<transports, dialers, at, failed, wrote, cut>>, up' = up,
           NEW ds \in {"idle", "negotiating", "trying", "returned", "refused"},
           dial' = [dial EXCEPT ![d] = ds],
           NEW ph \in {"none", "connecting", "endpoint", "handshake", "settling", "session"},
           phase' = [phase EXCEPT ![d] = ph],
           \/ socket' = socket
           \/ Current(d) \in Conns /\ socket' = [socket EXCEPT ![Current(d)] = "open"],
           \/ dial[d] \in {"idle", "negotiating"} /\ ds \in {"negotiating", "refused"} /\ socket' = socket
           \/ /\ dial[d] = "trying" /\ ds \in {"trying", "returned"}
              /\ ds = "returned" => Current(d) \in up \/ Priority[at[d]] = "kcp"
              /\ ph \in {"handshake", "session"} => Priority[at[d]] \in {"quic", "webtransport"}
              /\ ph = "session" => Current(d) \in up
              /\ ph \notin {"settling"}
    PROVE  DialerInv'
<1>types. DialerTypeOK /\ DialInv /\ SocketsReleased
  BY Zenon DEF DialerInv
<1>fun. /\ dial \in [Dials -> {"idle", "negotiating", "trying", "returned", "failed", "refused"}]
        /\ phase \in [Dials -> {"none", "connecting", "endpoint", "handshake", "settling", "session"}]
        /\ socket \in [Conns -> {"none", "open", "closed"}]
  BY <1>types, Zenon DEF DialerTypeOK
<1>1. DialerTypeOK'
  <2>1. /\ dial' \in [Dials -> {"idle", "negotiating", "trying", "returned", "failed", "refused"}]
        /\ phase' \in [Dials -> {"none", "connecting", "endpoint", "handshake", "settling", "session"}]
        /\ socket' \in [Conns -> {"none", "open", "closed"}]
    BY <1>fun
  <2> QED
    BY <1>types, <2>1, Zenon DEF DialerTypeOK
<1>2. /\ dial'[d] = ds /\ phase'[d] = ph
      /\ \A q \in Dials : q # d => dial'[q] = dial[q] /\ phase'[q] = phase[q]
  BY <1>fun, Zenon
<1>3. \A q \in Dials : Current(q)' = Current(q)
  BY Zenon DEF Current
<1>4. ASSUME NEW q \in Dials PROVE DialOK(q)'
  <2>1. CASE q # d
    BY <1>types, <1>2, <2>1, DialFrame, Zenon DEF DialInv
  <2>2. CASE q = d
    <3>1. DialOK(d)
      BY <1>types, Zenon DEF DialInv
    <3>2. \A i : Before(i)' = Before(i)
      BY Zenon DEF Before
    <3>3. CASE dial[d] \in {"idle", "negotiating"} /\ ds \in {"negotiating", "refused"}
      BY <1>2, <2>2, <3>1, <3>3, Zenon DEF DialOK
    <3>4. CASE dial[d] = "trying" /\ ds \in {"trying", "returned"}
      <4>1. PhaseOK(d)'
        BY <1>2, <1>3, <3>4 DEF PhaseOK
      <4>2. /\ at'[d] \in 1 .. 5 /\ Priority[at'[d]] \in transports' \cap dialers'
            /\ failed'[d] = Before(at[d] - 1)'
        BY <3>1, <3>2, <3>4, Zenon DEF DialOK
      <4>3. dial'[d] = "returned" => Current(d)' \in up' \/ Priority[at'[d]] = "kcp"
        BY <1>2, <1>3, <3>4
      <4> QED
        BY <1>2, <2>2, <3>4, <4>1, <4>2, <4>3, Zenon DEF DialOK
    <3> QED
      BY <3>3, <3>4
  <2> QED
    BY <2>1, <2>2, Zenon
<1>5. SocketsReleased'
  <2>1. ASSUME NEW c \in Conns, socket'[c] = "open"
        PROVE  \/ dial'[c[1]] \in {"trying", "returned"} /\ Current(c[1])' = c
               \/ c \in cut' /\ c[2] \in {"quic", "webtransport", "kcp"}
    <3>1. c[1] \in Dials
      BY ConnIs, Zenon
    <3>2. CASE socket[c] = "open"
      <4>1. \/ dial[c[1]] \in {"trying", "returned"} /\ Current(c[1]) = c
            \/ c \in cut /\ c[2] \in {"quic", "webtransport", "kcp"}
        BY <1>types, <3>2, Zenon DEF SocketsReleased
      <4>2. dial[c[1]] \in {"trying", "returned"} => dial'[c[1]] \in {"trying", "returned"}
        BY <1>2, <3>1
      <4> QED
        BY <1>3, <3>1, <4>1, <4>2, Zenon
    <3>3. CASE socket[c] # "open"
      <4>1. c = Current(d) /\ dial[d] = "trying" /\ ds \in {"trying", "returned"}
        BY <1>fun, <2>1, <3>3
      <4>2. c[1] = d
        BY <4>1 DEF Current
      <4> QED
        BY <1>2, <1>3, <4>1, <4>2, Zenon
    <3> QED
      BY <3>2, <3>3, Zenon
  <2> QED
    BY <2>1, Zenon DEF SocketsReleased
<1> QED
  BY <1>1, <1>4, <1>5, Zenon DEF DialerInv, DialInv

\* A connection that both libraries agree on, or that is written to.
LEMMA ConnMoves ==
    ASSUME DialerInv, up \subseteq up', up' \subseteq Conns, wrote' \subseteq Conns,
           UNCHANGED <<transports, dialers, dial, at, phase, failed, socket, cut>>
    PROVE  DialerInv'
<1>types. DialerTypeOK /\ DialInv /\ SocketsReleased
  BY Zenon DEF DialerInv
<1>1. DialerTypeOK'
  BY <1>types, Zenon DEF DialerTypeOK
<1>2. ASSUME NEW q \in Dials PROVE DialOK(q)'
  BY <1>types, DialFrame, Zenon DEF DialInv
<1>3. SocketsReleased'
  BY <1>types, Zenon DEF SocketsReleased, Current
<1> QED
  BY <1>1, <1>2, <1>3, Zenon DEF DialerInv, DialInv

\* Every step of MultiDialer and of the five dialers keeps the dialer's invariant.
LEMMA DialerStep ==
    ASSUME DialerInv, transports \subseteq Protocols, DialerNext, UNCHANGED transports
    PROVE  DialerInv'
<1>types. DialerTypeOK
  BY Zenon DEF DialerInv
<1>1. ASSUME NEW c \in Conns, Establish(c) PROVE DialerInv'
  <2>1. up' = up \cup {c} /\ UNCHANGED <<dialers, dial, at, phase, failed, socket, wrote, cut>>
    BY <1>1, Zenon DEF Establish
  <2>2. up \subseteq up' /\ up' \subseteq Conns /\ wrote' \subseteq Conns
    BY <1>types, <2>1, Zenon DEF DialerTypeOK
  <2> QED
    BY <2>1, <2>2, ConnMoves, Zenon
<1>2. ASSUME NEW d \in Dials, FirstWrite(d) PROVE DialerInv'
  <2>1. /\ wrote' = wrote \cup {Current(d)} /\ UNCHANGED <<dialers, dial, at, phase, failed, socket, up, cut>>
        /\ dial[d] = "returned"
    BY <1>2, Zenon DEF FirstWrite
  <2>2. at[d] \in 1 .. 5
    BY <2>1, Zenon DEF DialerInv, DialInv, DialOK
  <2>3. Current(d) \in Conns
    BY <2>2, PriorityIs, ConnIs, Zenon DEF Current
  <2>4. up \subseteq up' /\ up' \subseteq Conns /\ wrote' \subseteq Conns
    BY <1>types, <2>1, <2>3, Zenon DEF DialerTypeOK
  <2> QED
    BY <2>1, <2>4, ConnMoves, Zenon
<1>3. ASSUME NEW d \in Dials, Dial(d) \/ NegotiateFails(d) PROVE DialerInv'
  <2>1. /\ dial[d] \in {"idle", "negotiating"}
        /\ \/ dial' = [dial EXCEPT ![d] = "negotiating"]
           \/ dial' = [dial EXCEPT ![d] = "refused"]
        /\ UNCHANGED <<dialers, at, phase, failed, socket, up, wrote, cut>>
    BY <1>3, Zenon DEF Dial, NegotiateFails
  <2>2. /\ phase' = [phase EXCEPT ![d] = phase[d]]
        /\ phase[d] \in {"none", "connecting", "endpoint", "handshake", "settling", "session"}
    BY <1>types, <2>1 DEF DialerTypeOK
  <2> QED
    BY <2>1, <2>2, DialMoves, Zenon
<1>4. ASSUME NEW d \in Dials, TryReturns(d), Current(d) \in up \/ Priority[at[d]] = "kcp" PROVE DialerInv'
  <2>1. /\ dial[d] = "trying" /\ dial' = [dial EXCEPT ![d] = "returned"]
        /\ phase' = [phase EXCEPT ![d] = "none"] /\ socket' = [socket EXCEPT ![Current(d)] = "open"]
        /\ UNCHANGED <<dialers, at, failed, up, wrote, cut>>
    BY <1>4, Zenon DEF TryReturns
  <2>2. Current(d) \in Conns
    BY <2>1, TryingIs, Zenon
  <2> QED
    BY <1>4, <2>1, <2>2, DialMoves, Zenon
<1>5. ASSUME NEW d \in Dials, NEW from, NEW to \in {"handshake", "session"}, Goes(d, from, to),
             Priority[at[d]] \in {"quic", "webtransport"}, to = "session" => Current(d) \in up,
             socket' = socket \/ socket' = [socket EXCEPT ![Current(d)] = "open"]
      PROVE  DialerInv'
  <2>1. /\ dial[d] = "trying" /\ phase' = [phase EXCEPT ![d] = to]
        /\ UNCHANGED <<dialers, dial, at, failed, up, wrote, cut>>
    BY <1>5, Zenon DEF Goes
  <2>2. Current(d) \in Conns
    BY <2>1, TryingIs, Zenon
  <2>3. dial' = [dial EXCEPT ![d] = "trying"]
    BY <1>types, <2>1 DEF DialerTypeOK
  <2> QED
    BY <1>5, <2>1, <2>2, <2>3, DialMoves, Zenon
<1>6. ASSUME NEW d \in Dials, DialErrors(d) PROVE DialerInv'
  <2>1. CASE NegotiateFails(d)
    BY <1>3, <2>1, Zenon
  <2>2. CASE ConnectFails(d) \/ EndpointFails(d) \/ WtSessionTimeout(d)
    <3>1. TryFails(d, "closed") /\ cut' = cut
      BY <2>2, Zenon DEF ConnectFails, EndpointFails, WtSessionTimeout
    <3> QED
      BY <3>1, TryFailsStep, Zenon
  <2>3. CASE HandshakeFails(d)
    BY <2>3, TryFailsStep, Zenon DEF HandshakeFails
  <2>4. CASE DialTimeout(d) /\ phase[d] \in {"handshake", "session", "settling"}
    <3>1. TryFails(d, "open") /\ cut' = cut \cup {Current(d)}
      BY <2>4, Zenon DEF DialTimeout
    <3> QED
      BY <2>4, <3>1, TryFailsStep, Zenon
  <2>5. CASE DialTimeout(d) /\ phase[d] \notin {"handshake", "session", "settling"}
    <3>1. TryFails(d, "closed") /\ cut' = cut
      BY <2>5, Zenon DEF DialTimeout
    <3> QED
      BY <3>1, TryFailsStep, Zenon
  <2> QED
    BY <1>6, <2>1, <2>2, <2>3, <2>4, <2>5, Zenon DEF DialErrors
<1>7. ASSUME NEW d \in Dials, DialSteps(d) PROVE DialerInv'
  <2>1. CASE Negotiated(d)
    BY <2>1, NegotiatedStep, Zenon
  <2>2. CASE TcpDial(d) \/ WsDial(d) \/ QuicDial(d) \/ KcpDial(d)
    BY <1>4, <2>2, Zenon DEF TcpDial, WsDial, QuicDial, KcpDial, Trying
  <2>3. CASE WtDial(d)
    <3>1. dial[d] = "trying" /\ phase[d] = "session" /\ TryReturns(d)
      BY <2>3, Zenon DEF WtDial, Trying
    <3>2. PhaseOK(d)
      BY <3>1, TryingIs, Zenon
    <3>3. Current(d) \in up
      BY <3>1, <3>2, Zenon DEF PhaseOK
    <3> QED
      BY <1>4, <3>1, <3>3, Zenon
  <2>4. CASE QuicEndpoint(d) \/ WtEndpoint(d)
    BY <1>5, <2>4, Zenon DEF QuicEndpoint, WtEndpoint, Trying
  <2>5. CASE WtConnected(d)
    BY <1>5, <2>5, Zenon DEF WtConnected, Trying
  <2> QED
    BY <1>7, <2>1, <2>2, <2>3, <2>4, <2>5, Zenon DEF DialSteps
<1> QED
  BY <1>1, <1>2, <1>3, <1>6, <1>7, Zenon DEF DialerNext

-----------------------------------------------------------------------------
(* Queues *)

\* put adds a connection at the end, ...
LEMMA AppendEntries ==
    ASSUME NEW s \in Seq(Conns), NEW c \in Conns
    PROVE  /\ Append(s, c) \in Seq(Conns)
           /\ Entries(Append(s, c)) = Entries(s) \cup {c}
           /\ Distinct(s) /\ c \notin Entries(s) => Distinct(Append(s, c))
<1> DEFINE t == Append(s, c)
<1>1. /\ t \in Seq(Conns) /\ Len(s) \in Nat /\ Len(t) = Len(s) + 1
      /\ \A i \in 1 .. Len(s) : t[i] = s[i]
      /\ t[Len(s) + 1] = c
  OBVIOUS
<1> HIDE DEF t
<1>2. \A i : i \in 1 .. Len(t) <=> i \in 1 .. Len(s) \/ i = Len(s) + 1
  BY <1>1
<1>3. Entries(t) = Entries(s) \cup {c}
  <2>1. ASSUME NEW x \in Entries(t) PROVE x \in Entries(s) \cup {c}
    BY <1>1, <1>2, <2>1, Zenon DEF Entries
  <2>2. ASSUME NEW x \in Entries(s) PROVE x \in Entries(t)
    BY <1>1, <1>2, <2>2, Zenon DEF Entries
  <2>3. c \in Entries(t)
    BY <1>1, <1>2, Zenon DEF Entries
  <2> QED
    BY <2>1, <2>2, <2>3, Zenon
<1>4. ASSUME Distinct(s), c \notin Entries(s), NEW i \in 1 .. Len(t), NEW j \in 1 .. Len(t), t[i] = t[j]
      PROVE  i = j
  BY <1>1, <1>2, <1>4, Zenon DEF Distinct, Entries
<1> QED
  BY <1>1, <1>3, <1>4, Zenon DEF t, Distinct

\* ... and get takes the first.
LEMMA TailEntries ==
    ASSUME NEW s \in Seq(Conns), s # <<>>, Distinct(s)
    PROVE  /\ Head(s) \in Conns /\ Head(s) \in Entries(s) /\ Tail(s) \in Seq(Conns)
           /\ Entries(Tail(s)) = Entries(s) \ {Head(s)} /\ Distinct(Tail(s))
<1> DEFINE t == Tail(s)
<1>1. /\ t \in Seq(Conns) /\ Len(s) \in Nat \ {0} /\ Len(t) = Len(s) - 1
      /\ \A i \in 1 .. Len(t) : t[i] = s[i + 1]
      /\ Head(s) = s[1] /\ Head(s) \in Conns
  OBVIOUS
<1> HIDE DEF t
<1>2. /\ 1 \in 1 .. Len(s)
      /\ \A i \in 1 .. Len(t) : i + 1 \in 1 .. Len(s) /\ i + 1 # 1
      /\ \A i \in 1 .. Len(s) : i # 1 => \E k \in 1 .. Len(t) : k + 1 = i
      /\ \A i, j \in 1 .. Len(t) : i + 1 = j + 1 => i = j
  <2>1. \A i \in 1 .. Len(s) : i # 1 => i - 1 \in 1 .. Len(t) /\ (i - 1) + 1 = i
    BY <1>1
  <2>2. \A i \in 1 .. Len(s) : i # 1 => \E k \in 1 .. Len(t) : k + 1 = i
    BY <2>1, Zenon
  <2>3. /\ 1 \in 1 .. Len(s)
        /\ \A i \in 1 .. Len(t) : i + 1 \in 1 .. Len(s) /\ i + 1 # 1
        /\ \A i, j \in 1 .. Len(t) : i + 1 = j + 1 => i = j
    BY <1>1
  <2> QED
    BY <2>2, <2>3, Zenon
<1>3. Head(s) \in Entries(s)
  BY <1>1, <1>2, Zenon DEF Entries
<1>4. Entries(t) = Entries(s) \ {Head(s)}
  <2>1. ASSUME NEW x \in Entries(t) PROVE x \in Entries(s) /\ x # Head(s)
    <3>1. PICK i \in 1 .. Len(t) : x = t[i]
      BY <2>1, Zenon DEF Entries
    <3>2. x = s[i + 1] /\ i + 1 \in 1 .. Len(s) /\ i + 1 # 1
      BY <1>1, <1>2, <3>1, Zenon
    <3> QED
      BY <1>1, <1>2, <3>2, Zenon DEF Entries, Distinct
  <2>2. ASSUME NEW x \in Entries(s), x # Head(s) PROVE x \in Entries(t)
    <3>1. PICK i \in 1 .. Len(s) : x = s[i]
      BY <2>2, Zenon DEF Entries
    <3>2. i # 1
      BY <1>1, <2>2, <3>1, Zenon
    <3>3. PICK k \in 1 .. Len(t) : k + 1 = i
      BY <1>2, <3>2, Zenon
    <3>4. x = t[k]
      BY <1>1, <3>1, <3>3, Zenon
    <3> QED
      BY <3>4, Zenon DEF Entries
  <2> QED
    BY <2>1, <2>2, Zenon
<1>5. ASSUME NEW i \in 1 .. Len(t), NEW j \in 1 .. Len(t), t[i] = t[j] PROVE i = j
  <2>1. s[i + 1] = s[j + 1] /\ i + 1 \in 1 .. Len(s) /\ j + 1 \in 1 .. Len(s)
    BY <1>1, <1>2, <1>5, Zenon
  <2>2. i + 1 = j + 1
    BY <2>1, Zenon DEF Distinct
  <2> QED
    BY <1>2, <2>2, Zenon
<1> QED
  BY <1>1, <1>3, <1>4, <1>5, Zenon DEF t, Distinct

\* Queues start empty, and close() empties _incoming.
LEMMA NoEntries == Entries(<<>>) = {} /\ Distinct(<<>>) /\ <<>> \in Seq(Conns)
<1>1. Len(<<>>) = 0 /\ 1 .. 0 = {} /\ <<>> \in Seq(Conns)
  OBVIOUS
<1> QED
  BY <1>1, Zenon DEF Entries, Distinct

\* A connection whose queue entries and accepts are all different has one place.
LEMMA OnePlace ==
    ASSUME ListenerTypeOK, QueueInv, NEW c \in Conns
    PROVE  Cardinality(Places(c)) <= 1
<1> DEFINE Q == {i \in 1 .. Len(queued[c[2]]) : queued[c[2]][i] = c}
           I == {i \in 1 .. Len(incoming) : incoming[i] = c}
           A == {a \in Accepts : item[a] = c}
<1>1. c[2] \in Protocols /\ c # None
  BY ConnIs, MultiAssumption, Zenon
<1>queues. Distinct(queued[c[2]]) /\ Distinct(incoming)
  BY <1>1, Zenon DEF QueueInv
<1>2. \A i, j \in Q : i = j
  BY <1>queues, Zenon DEF Distinct
<1>3. \A i, j \in I : i = j
  BY <1>queues, Zenon DEF Distinct
<1>4. \A a, b \in A : a = b
  BY <1>1, Zenon DEF QueueInv
<1>5. Q # {} => c \in Entries(queued[c[2]])
  BY Zenon DEF Entries
<1>6. I # {} => c \in Entries(incoming)
  BY Zenon DEF Entries
<1>7. /\ Q # {} => I = {} /\ A = {}
      /\ I # {} => A = {}
  <2>1. c \in Entries(queued[c[2]]) => c \notin Entries(incoming)
    BY <1>1, Zenon DEF QueueInv
  <2>2. ASSUME NEW a \in A PROVE c \notin Entries(incoming) /\ c \notin Entries(queued[c[2]])
    <3>1. a \in Accepts /\ item[a] = c
      BY Zenon
    <3> QED
      BY <1>1, <3>1, Zenon DEF QueueInv
  <2> HIDE DEF Q, I, A
  <2> QED
    BY <1>5, <1>6, <2>1, <2>2, Zenon
<1>8. Places(c) = {<<"queued", i>> : i \in Q} \cup {<<"incoming", i>> : i \in I} \cup {<<"item", a>> : a \in A}
  BY Zenon DEF Places
<1> HIDE DEF Q, I, A
<1>9. \A x, y \in Places(c) : x = y
  BY <1>2, <1>3, <1>4, <1>7, <1>8, Zenon
<1>10. CASE Places(c) = {}
  <2>1. Cardinality(Places(c)) = 0
    BY <1>10, FS_EmptySet, Zenon
  <2> QED
    BY <2>1
<1>11. CASE Places(c) # {}
  <2>1. PICK x : x \in Places(c)
    BY <1>11, Zenon
  <2>2. Places(c) = {x}
    BY <1>9, <2>1, Zenon
  <2>3. Cardinality(Places(c)) = 1
    BY <2>2, FS_Singleton, Zenon
  <2> QED
    BY <2>3
<1> QED
  BY <1>10, <1>11, Zenon

-----------------------------------------------------------------------------
(* MultiListener *)

\* The loops that run are finitely many, and no more than the transports.
LEMMA LoopsFinite ==
    ASSUME transports \subseteq Protocols
    PROVE  /\ IsFiniteSet(transports) /\ Cardinality(transports) \in Nat
           /\ IsFiniteSet(Running) /\ Cardinality(Running) \in Nat
           /\ Cardinality(Running) <= Cardinality(transports)
<1>1. IsFiniteSet(Protocols)
  <2>1. IsFiniteSet({})
    BY FS_EmptySet, Zenon
  <2>2. /\ IsFiniteSet({} \cup {"webtransport"}) /\ IsFiniteSet(({} \cup {"webtransport"}) \cup {"quic"})
        /\ IsFiniteSet((({} \cup {"webtransport"}) \cup {"quic"}) \cup {"websocket"})
        /\ IsFiniteSet(((({} \cup {"webtransport"}) \cup {"quic"}) \cup {"websocket"}) \cup {"kcp"})
        /\ IsFiniteSet((((({} \cup {"webtransport"}) \cup {"quic"}) \cup {"websocket"}) \cup {"kcp"}) \cup {"tcp"})
    BY <2>1, FS_AddElement, Zenon
  <2>3. Protocols = (((({} \cup {"webtransport"}) \cup {"quic"}) \cup {"websocket"}) \cup {"kcp"}) \cup {"tcp"}
    BY PriorityIs, Zenon
  <2> QED
    BY <2>2, <2>3, Zenon
<1>2. IsFiniteSet(transports)
  BY <1>1, FS_Subset, Zenon
<1>3. Running \in SUBSET transports
  BY Zenon DEF Running
<1>4. IsFiniteSet(Running) /\ Cardinality(Running) <= Cardinality(transports)
  BY <1>2, <1>3, FS_Subset, Zenon
<1> QED
  BY <1>2, <1>4, FS_CardinalityType, Zenon

\* What a step that does not concern them leaves as it should be: the loops, ...
LEMMA LoopsStay ==
    ASSUME LoopInv, UNCHANGED <<transports, closed, active, loop, ended>>
    PROVE  LoopInv'
<1>1. Running' = Running
  BY Zenon DEF Running
<1> QED
  BY <1>1, Zenon DEF LoopInv, EndedOnlyThen

\* ... the queues, when no connection vanishes, ...
LEMMA QueuesStay ==
    ASSUME ListenerTypeOK, QueueInv, UNCHANGED <<incoming, queued, item>>,
           \A c \in Conns : server'[c] = "none" => server[c] = "none"
    PROVE  QueueInv'
<1>1. \A p \in Protocols : Entries(queued[p]) \subseteq Conns
  BY DEF ListenerTypeOK, Entries
<1>2. Entries(incoming) \subseteq Conns
  BY DEF ListenerTypeOK, Entries
<1>3. \A a \in Accepts : item[a] # None => item[a] \in Conns
  BY Zenon DEF ListenerTypeOK
<1>4. /\ Distinct(incoming')
      /\ \A c \in Entries(incoming') : server'[c] # "none"
  BY <1>2, Zenon DEF QueueInv
<1>5. ASSUME NEW p \in Protocols
      PROVE  /\ Distinct(queued'[p])
             /\ \A c \in Entries(queued'[p]) : c[2] = p /\ c \notin Entries(incoming') /\ server'[c] # "none"
  BY <1>1, Zenon DEF QueueInv
<1>6. ASSUME NEW a \in Accepts, item'[a] # None
      PROVE  /\ server'[item'[a]] # "none" /\ item'[a] \notin Entries(incoming')
             /\ \A p \in Protocols : item'[a] \notin Entries(queued'[p])
             /\ \A b \in Accepts : item'[b] = item'[a] => b = a
  BY <1>3, <1>6, Zenon DEF QueueInv
<1> QED
  BY <1>4, <1>5, <1>6, Zenon DEF QueueInv

\* ... and the whereabouts of the open connections, when none is opened.
LEMMA OpenStays ==
    ASSUME OpenInv, UNCHANGED <<incoming, queued, item, acc, shut, doomed>>,
           \A c \in Conns : server'[c] = "open" => server[c] = "open"
    PROVE  OpenInv'
<1>1. \A c \in Conns : Somewhere(c)' <=> Somewhere(c)
  BY Zenon DEF Somewhere, Handed, InHand
<1> QED
  BY <1>1, Zenon DEF OpenInv

\* Connections are only ever closed, listeners bound, and so on.
LEMMA AsideStep ==
    ASSUME ListenerInv,
           UNCHANGED <<transports, waits, queued, loop, active, incoming, closed, ended, acc, item, shut, doomed>>,
           opened' \subseteq transports, bound' \subseteq opened', left' \subseteq transports,
           server' \in [Conns -> {"none", "open", "closed"}],
           \A c \in Conns : server'[c] = server[c] \/ server'[c] = "closed"
    PROVE  ListenerInv'
<1>types. ListenerTypeOK /\ LoopInv /\ QueueInv /\ ShutInv /\ OpenInv
  BY Zenon DEF ListenerInv
<1>1. ListenerTypeOK'
  BY <1>types, Zenon DEF ListenerTypeOK
<1>2. LoopInv'
  BY <1>types, LoopsStay, Zenon
<1>3. QueueInv'
  BY <1>types, QueuesStay, Zenon
<1>4. ShutInv'
  BY <1>types, Zenon DEF ShutInv
<1>5. OpenInv'
  BY <1>types, OpenStays, Zenon
<1> QED
  BY <1>1, <1>2, <1>3, <1>4, <1>5, Zenon DEF ListenerInv

\* What the type invariant says of the queues and of what has been taken from them.
LEMMA QueueTypes ==
    ASSUME ListenerTypeOK
    PROVE  /\ queued \in [Protocols -> Seq(Conns)] /\ incoming \in Seq(Conns)
           /\ server \in [Conns -> {"none", "open", "closed"}]
           /\ item \in [Accepts -> Conns \cup {None}]
           /\ acc \in [Accepts -> {"idle", "waiting", "ending", "returned", "raised"}]
           /\ \A p \in Protocols : queued[p] \in Seq(Conns) /\ Entries(queued[p]) \subseteq Conns
           /\ Entries(incoming) \subseteq Conns
<1>1. /\ queued \in [Protocols -> Seq(Conns)] /\ incoming \in Seq(Conns)
      /\ server \in [Conns -> {"none", "open", "closed"}]
      /\ item \in [Accepts -> Conns \cup {None}]
      /\ acc \in [Accepts -> {"idle", "waiting", "ending", "returned", "raised"}]
  BY Zenon DEF ListenerTypeOK
<1>2. \A t \in Seq(Conns) : Entries(t) \subseteq Conns
  BY DEF Entries
<1> QED
  BY <1>1, <1>2, Zenon

\* A callback puts a new connection into its listener's queue.
LEMMA SurfaceStep ==
    ASSUME ListenerInv, NEW c \in Conns, Surfaces(c)
    PROVE  ListenerInv'
<1> DEFINE t == Append(queued[c[2]], c)
<1>types. ListenerTypeOK /\ LoopInv /\ QueueInv /\ ShutInv /\ OpenInv
  BY Zenon DEF ListenerInv
<1>0. /\ queued \in [Protocols -> Seq(Conns)] /\ server \in [Conns -> {"none", "open", "closed"}]
      /\ item \in [Accepts -> Conns \cup {None}]
      /\ \A p \in Protocols : queued[p] \in Seq(Conns) /\ Entries(queued[p]) \subseteq Conns
      /\ Entries(incoming) \subseteq Conns
  BY <1>types, QueueTypes, Zenon
<1>1. /\ server[c] = "none" /\ server' = [server EXCEPT ![c] = "open"] /\ queued' = [queued EXCEPT ![c[2]] = t]
      /\ UNCHANGED <<transports, waits, opened, bound, loop, active, incoming, closed, ended, acc, item, shut, left, doomed>>
  BY Zenon DEF Surfaces, configVars, acceptVars
<1>2. c[2] \in Protocols /\ c # None
  BY ConnIs, MultiAssumption, Zenon
<1>3. /\ c \notin Entries(incoming) /\ (\A p \in Protocols : c \notin Entries(queued[p]))
      /\ \A a \in Accepts : item[a] # c
  BY <1>types, <1>1, <1>2, Zenon DEF QueueInv
<1>4. t \in Seq(Conns) /\ Entries(t) = Entries(queued[c[2]]) \cup {c} /\ (Distinct(queued[c[2]]) => Distinct(t))
  BY <1>0, <1>2, <1>3, AppendEntries, Zenon
<1> HIDE DEF t
<1>5. /\ queued'[c[2]] = t /\ (\A p \in Protocols : p # c[2] => queued'[p] = queued[p])
      /\ server'[c] = "open" /\ (\A x \in Conns : x # c => server'[x] = server[x])
      /\ queued' \in [Protocols -> Seq(Conns)] /\ server' \in [Conns -> {"none", "open", "closed"}]
  BY <1>0, <1>1, <1>2, <1>4, Zenon
<1>6. \A x \in Conns : server[x] # "none" => server'[x] # "none"
  BY <1>5, Zenon
<1>7. ListenerTypeOK'
  BY <1>types, <1>1, <1>5, Zenon DEF ListenerTypeOK
<1>8. LoopInv' /\ ShutInv'
  BY <1>types, <1>1, LoopsStay, Zenon DEF ShutInv
<1>9. QueueInv'
  <2>1. Distinct(incoming') /\ \A x \in Entries(incoming') : server'[x] # "none"
    BY <1>types, <1>0, <1>1, <1>6, Zenon DEF QueueInv
  <2>2. ASSUME NEW p \in Protocols
        PROVE  /\ Distinct(queued'[p])
               /\ \A x \in Entries(queued'[p]) : x[2] = p /\ x \notin Entries(incoming') /\ server'[x] # "none"
    <3>1. /\ Distinct(queued[p])
          /\ \A x \in Entries(queued[p]) : x[2] = p /\ x \notin Entries(incoming) /\ server'[x] # "none"
      BY <1>types, <1>0, <1>6, Zenon DEF QueueInv
    <3>2. CASE p = c[2]
      <4>1. server'[c] # "none"
        BY <1>5
      <4> QED
        BY <1>1, <1>3, <1>4, <1>5, <3>1, <3>2, <4>1, Zenon
    <3>3. CASE p # c[2]
      BY <1>1, <1>5, <3>1, <3>3, Zenon
    <3> QED
      BY <3>2, <3>3, Zenon
  <2>3. ASSUME NEW a \in Accepts, item'[a] # None
        PROVE  /\ server'[item'[a]] # "none" /\ item'[a] \notin Entries(incoming')
               /\ \A p \in Protocols : item'[a] \notin Entries(queued'[p])
               /\ \A b \in Accepts : item'[b] = item'[a] => b = a
    <3>1. /\ server[item[a]] # "none" /\ item[a] \notin Entries(incoming) /\ item[a] \in Conns /\ item' = item
          /\ \A p \in Protocols : item[a] \notin Entries(queued[p])
          /\ \A b \in Accepts : item[b] = item[a] => b = a
      BY <1>types, <1>0, <1>1, <2>3, Zenon DEF QueueInv
    <3>2. \A p \in Protocols : item[a] \notin Entries(queued'[p])
      BY <1>3, <1>4, <1>5, <3>1, Zenon
    <3> QED
      BY <1>1, <1>6, <3>1, <3>2, Zenon
  <2> QED
    BY <2>1, <2>2, <2>3, Zenon DEF QueueInv
<1>10. OpenInv'
  <2>1. ASSUME NEW x \in Conns, server'[x] = "open" PROVE Somewhere(x)'
    <3>1. CASE x = c
      BY <1>4, <1>5, <3>1, Zenon DEF Somewhere
    <3>2. CASE x # c
      <4>1. Somewhere(x) /\ x[2] \in Protocols
        BY <1>types, <1>5, <2>1, <3>2, ConnIs, Zenon DEF OpenInv
      <4>2. x \in Entries(queued[x[2]]) => x \in Entries(queued'[x[2]])
        BY <1>4, <1>5, <4>1, Zenon
      <4> QED
        BY <1>1, <4>1, <4>2, Zenon DEF Somewhere, Handed, InHand
    <3> QED
      BY <3>1, <3>2, Zenon
  <2> QED
    BY <2>1, Zenon DEF OpenInv
<1> QED
  BY <1>7, <1>8, <1>9, <1>10, Zenon DEF ListenerInv

\* A loop hands the next connection of its listener to _queue.
LEMMA AcceptLoopStep ==
    ASSUME ListenerInv, NEW p \in Protocols, AcceptLoop(p)
    PROVE  ListenerInv'
<1> DEFINE h == Head(queued[p])
<1>types. ListenerTypeOK /\ LoopInv /\ QueueInv /\ ShutInv /\ OpenInv
  BY Zenon DEF ListenerInv
<1>0. /\ queued \in [Protocols -> Seq(Conns)] /\ incoming \in Seq(Conns)
      /\ item \in [Accepts -> Conns \cup {None}]
      /\ \A q \in Protocols : queued[q] \in Seq(Conns) /\ Entries(queued[q]) \subseteq Conns
      /\ Entries(incoming) \subseteq Conns
  BY <1>types, QueueTypes, Zenon
<1>1. /\ ~closed /\ queued[p] # <<>>
      /\ queued' = [queued EXCEPT ![p] = Tail(queued[p])] /\ incoming' = Append(incoming, h)
      /\ UNCHANGED <<transports, waits, opened, bound, server, loop, active, closed, ended, acc, item, shut, left, doomed>>
  BY Zenon DEF AcceptLoop, configVars, acceptVars
<1>2. /\ \A q \in Protocols :
            /\ Distinct(queued[q])
            /\ \A c \in Entries(queued[q]) : c[2] = q /\ c \notin Entries(incoming) /\ server[c] # "none"
      /\ Distinct(incoming) /\ \A c \in Entries(incoming) : server[c] # "none"
  BY <1>types, Zenon DEF QueueInv
<1>3. /\ h \in Conns /\ h \in Entries(queued[p]) /\ Tail(queued[p]) \in Seq(Conns)
      /\ Entries(Tail(queued[p])) = Entries(queued[p]) \ {h} /\ Distinct(Tail(queued[p]))
  BY <1>0, <1>1, <1>2, TailEntries, Zenon
<1> HIDE DEF h
<1>4. h \notin Entries(incoming) /\ h[2] = p /\ server[h] # "none"
  BY <1>2, <1>3, Zenon
<1>5. /\ incoming' \in Seq(Conns) /\ Entries(incoming') = Entries(incoming) \cup {h} /\ Distinct(incoming')
  BY <1>0, <1>1, <1>2, <1>3, <1>4, AppendEntries, Zenon
<1>6. /\ queued'[p] = Tail(queued[p]) /\ (\A q \in Protocols : q # p => queued'[q] = queued[q])
      /\ queued' \in [Protocols -> Seq(Conns)]
  BY <1>0, <1>1, <1>3, Zenon
<1>7. ListenerTypeOK'
  BY <1>types, <1>1, <1>5, <1>6, Zenon DEF ListenerTypeOK
<1>8. LoopInv'
  BY <1>types, <1>1, LoopsStay, Zenon
<1>9. shut = "no" /\ ShutInv'
  <2>1. shut = "no"
    BY <1>types, <1>1, Zenon DEF ShutInv
  <2> QED
    BY <1>types, <1>1, <2>1, Zenon DEF ShutInv
<1>10. QueueInv'
  <2>1. Distinct(incoming') /\ \A x \in Entries(incoming') : server'[x] # "none"
    BY <1>1, <1>2, <1>4, <1>5, Zenon
  <2>2. ASSUME NEW q \in Protocols
        PROVE  /\ Distinct(queued'[q])
               /\ \A x \in Entries(queued'[q]) : x[2] = q /\ x \notin Entries(incoming') /\ server'[x] # "none"
    <3>1. CASE q = p
      BY <1>1, <1>2, <1>3, <1>5, <1>6, <3>1, Zenon
    <3>2. CASE q # p
      <4>1. /\ Distinct(queued[q]) /\ queued'[q] = queued[q]
            /\ \A x \in Entries(queued[q]) : x[2] = q /\ x \notin Entries(incoming) /\ server[x] # "none"
        BY <1>2, <1>6, <3>2, Zenon
      <4>2. \A x \in Entries(queued[q]) : x # h
        BY <1>4, <3>2, <4>1, Zenon
      <4> QED
        BY <1>1, <1>5, <4>1, <4>2, Zenon
    <3> QED
      BY <3>1, <3>2, Zenon
  <2>3. ASSUME NEW a \in Accepts, item'[a] # None
        PROVE  /\ server'[item'[a]] # "none" /\ item'[a] \notin Entries(incoming')
               /\ \A q \in Protocols : item'[a] \notin Entries(queued'[q])
               /\ \A b \in Accepts : item'[b] = item'[a] => b = a
    <3>1. /\ server[item[a]] # "none" /\ item[a] \notin Entries(incoming) /\ item' = item
          /\ \A q \in Protocols : item[a] \notin Entries(queued[q])
          /\ \A b \in Accepts : item[b] = item[a] => b = a
      BY <1>types, <1>1, <2>3, Zenon DEF QueueInv
    <3>2. \A q \in Protocols : item[a] \notin Entries(queued'[q])
      BY <1>3, <1>6, <3>1, Zenon
    <3>3. item[a] # h
      BY <1>3, <3>1, Zenon
    <3> QED
      BY <1>1, <1>5, <3>1, <3>2, <3>3, Zenon
  <2> QED
    BY <2>1, <2>2, <2>3, Zenon DEF QueueInv
<1>11. OpenInv'
  <2>1. ASSUME NEW x \in Conns, server'[x] = "open" PROVE Somewhere(x)'
    <3>1. CASE x = h
      BY <1>1, <1>5, <1>9, <3>1 DEF Somewhere
    <3>2. CASE x # h
      <4>1. Somewhere(x) /\ x[2] \in Protocols
        BY <1>types, <1>1, <2>1, ConnIs, Zenon DEF OpenInv
      <4>2. x \in Entries(queued[x[2]]) => x \in Entries(queued'[x[2]])
        BY <1>3, <1>6, <3>2, <4>1, Zenon
      <4>3. x \in Entries(incoming) => x \in Entries(incoming')
        BY <1>5, Zenon
      <4> QED
        BY <1>1, <4>1, <4>2, <4>3, Zenon DEF Somewhere, Handed, InHand
    <3> QED
      BY <3>1, <3>2, Zenon
  <2> QED
    BY <2>1, Zenon DEF OpenInv
<1> QED
  BY <1>7, <1>8, <1>9, <1>10, <1>11, Zenon DEF ListenerInv

\* The task of an accept takes the next connection from _queue.
LEMMA TakenStep ==
    ASSUME ListenerInv, NEW a \in Accepts, Taken(a)
    PROVE  ListenerInv'
<1> DEFINE h == Head(incoming)
<1>types. ListenerTypeOK /\ LoopInv /\ QueueInv /\ ShutInv /\ OpenInv
  BY Zenon DEF ListenerInv
<1>0. /\ incoming \in Seq(Conns) /\ item \in [Accepts -> Conns \cup {None}]
  BY <1>types, QueueTypes, Zenon
<1>1. /\ acc[a] = "waiting" /\ item[a] = None /\ incoming # <<>>
      /\ item' = [item EXCEPT ![a] = h] /\ incoming' = Tail(incoming)
      /\ UNCHANGED <<transports, waits, opened, bound, queued, server, loop, active, closed, ended, acc, shut, left, doomed>>
  BY Zenon DEF Taken, configVars
<1>2. /\ \A q \in Protocols :
            /\ Distinct(queued[q])
            /\ \A c \in Entries(queued[q]) : c[2] = q /\ c \notin Entries(incoming) /\ server[c] # "none"
      /\ Distinct(incoming) /\ \A c \in Entries(incoming) : server[c] # "none"
  BY <1>types, Zenon DEF QueueInv
<1>3. /\ h \in Conns /\ h \in Entries(incoming) /\ incoming' \in Seq(Conns)
      /\ Entries(incoming') = Entries(incoming) \ {h} /\ Distinct(incoming')
  BY <1>0, <1>1, <1>2, TailEntries, Zenon
<1> HIDE DEF h
<1>4. h # None
  BY <1>3, MultiAssumption, Zenon
<1>5. /\ item'[a] = h /\ (\A b \in Accepts : b # a => item'[b] = item[b])
      /\ item' \in [Accepts -> Conns \cup {None}]
  BY <1>0, <1>1, <1>3, Zenon
<1>6. ListenerTypeOK'
  BY <1>types, <1>1, <1>3, <1>5, Zenon DEF ListenerTypeOK
<1>7. LoopInv'
  BY <1>types, <1>1, LoopsStay, Zenon
<1>8. ShutInv'
  BY <1>types, <1>1, Zenon DEF ShutInv
<1>9. QueueInv'
  <2>1. Distinct(incoming') /\ \A x \in Entries(incoming') : server'[x] # "none"
    BY <1>1, <1>2, <1>3, Zenon
  <2>2. ASSUME NEW q \in Protocols
        PROVE  /\ Distinct(queued'[q])
               /\ \A x \in Entries(queued'[q]) : x[2] = q /\ x \notin Entries(incoming') /\ server'[x] # "none"
    BY <1>1, <1>2, <1>3, Zenon
  <2>3. \A b \in Accepts : item[b] # None =>
            /\ server[item[b]] # "none" /\ item[b] \notin Entries(incoming)
            /\ \A q \in Protocols : item[b] \notin Entries(queued[q])
            /\ \A d \in Accepts : item[d] = item[b] => d = b
    BY <1>types, Zenon DEF QueueInv
  <2>4. \A b \in Accepts : item[b] # h
    BY <1>3, <1>4, <2>3, Zenon
  <2>5. ASSUME NEW b \in Accepts, item'[b] # None
        PROVE  /\ server'[item'[b]] # "none" /\ item'[b] \notin Entries(incoming')
               /\ \A q \in Protocols : item'[b] \notin Entries(queued'[q])
               /\ \A d \in Accepts : item'[d] = item'[b] => d = b
    <3>1. CASE b = a
      BY <1>1, <1>2, <1>3, <1>5, <2>4, <3>1, Zenon
    <3>2. CASE b # a
      <4>1. item'[b] = item[b] /\ item[b] # None
        BY <1>5, <2>5, <3>2, Zenon
      <4>2. \A d \in Accepts : item'[d] = item'[b] => d = b
        BY <1>5, <2>3, <2>4, <4>1, Zenon
      <4> QED
        BY <1>1, <1>3, <2>3, <4>1, <4>2, Zenon
    <3> QED
      BY <3>1, <3>2, Zenon
  <2> QED
    BY <2>1, <2>2, <2>5, Zenon DEF QueueInv
<1>10. OpenInv'
  <2>1. ASSUME NEW x \in Conns, server'[x] = "open" PROVE Somewhere(x)'
    <3>1. CASE x = h
      BY <1>1, <1>5, <3>1, Zenon DEF Somewhere, InHand
    <3>2. CASE x # h
      <4>1. Somewhere(x) /\ x # None
        BY <1>types, <1>1, <2>1, MultiAssumption, Zenon DEF OpenInv
      <4>2. x \in Entries(incoming) => x \in Entries(incoming')
        BY <1>3, <3>2, Zenon
      <4>3. \A b \in Accepts : item[b] = x => item'[b] = x
        BY <1>1, <1>5, <4>1, Zenon
      <4>4. Handed(x) => Handed(x)'
        BY <1>1, <4>3, Zenon DEF Handed
      <4>5. InHand(x) => InHand(x)'
        BY <1>1, <4>3, Zenon DEF InHand
      <4> QED
        BY <1>1, <4>1, <4>2, <4>4, <4>5, Zenon DEF Somewhere
    <3> QED
      BY <3>1, <3>2, Zenon
  <2> QED
    BY <2>1, Zenon DEF OpenInv
<1> QED
  BY <1>6, <1>7, <1>8, <1>9, <1>10, Zenon DEF ListenerInv

\* A call of accept_with goes on: it begins to wait, wakes, returns its connection, or
\* raises and closes it.
LEMMA AcceptStep ==
    ASSUME ListenerInv, NEW a \in Accepts,
           AcceptWith(a) \/ AcceptWakes(a) \/ AcceptEnds(a) \/ AcceptCancelled(a)
    PROVE  ListenerInv'
<1>types. ListenerTypeOK /\ LoopInv /\ QueueInv /\ ShutInv /\ OpenInv
  BY Zenon DEF ListenerInv
<1>0. /\ acc \in [Accepts -> {"idle", "waiting", "ending", "returned", "raised"}]
      /\ server \in [Conns -> {"none", "open", "closed"}]
      /\ item \in [Accepts -> Conns \cup {None}]
  BY <1>types, QueueTypes, Zenon
<1>1. UNCHANGED <<transports, waits, opened, bound, queued, loop, active, incoming, closed, ended, item, shut, left, doomed>>
  BY Zenon DEF AcceptWith, AcceptWakes, AcceptEnds, AcceptCancelled, configVars
<1>2. \/ /\ acc[a] = "idle" /\ server' = server
         /\ acc' = [acc EXCEPT ![a] = "raised"] \/ acc' = [acc EXCEPT ![a] = "waiting"]
      \/ acc[a] = "waiting" /\ acc' = [acc EXCEPT ![a] = "ending"] /\ server' = server
      \/ acc[a] = "ending" /\ acc' = [acc EXCEPT ![a] = "returned"] /\ server' = server
      \/ acc[a] \in {"waiting", "ending"} /\ Raise(a)
  BY Zenon DEF AcceptWith, AcceptWakes, AcceptEnds, AcceptCancelled
<1>3. acc' \in [Accepts -> {"idle", "waiting", "ending", "returned", "raised"}]
  BY <1>0, <1>2 DEF Raise
<1>4. \A b \in Accepts : b # a => acc'[b] = acc[b]
  BY <1>0, <1>2, Zenon DEF Raise
<1>5. /\ server' \in [Conns -> {"none", "open", "closed"}]
      /\ \A x \in Conns : server'[x] = server[x] \/ server'[x] = "closed"
  <2>1. CASE server' = server
    BY <1>0, <2>1, Zenon
  <2>2. CASE server' = [server EXCEPT ![item[a]] = "closed"]
    BY <1>0, <2>2, Zenon
  <2> QED
    BY <1>2, <2>1, <2>2, Zenon DEF Raise
<1>6. ListenerTypeOK'
  BY <1>types, <1>1, <1>3, <1>5, Zenon DEF ListenerTypeOK
<1>7. LoopInv' /\ ShutInv'
  BY <1>types, <1>1, LoopsStay, Zenon DEF ShutInv
<1>8. QueueInv'
  <2>1. \A x \in Conns : server'[x] = "none" => server[x] = "none"
    BY <1>5, Zenon
  <2> QED
    BY <1>types, <1>1, <2>1, QueuesStay, Zenon
<1>9. OpenInv'
  <2>1. ASSUME NEW x \in Conns, server'[x] = "open" PROVE Somewhere(x)'
    <3>1. server[x] = "open" /\ x # None
      BY <1>5, <2>1, MultiAssumption, Zenon
    <3>2. Somewhere(x)
      BY <1>types, <3>1, Zenon DEF OpenInv
    <3>3. Handed(x) => Handed(x)'
      BY <1>1, <1>2, <1>4, Zenon DEF Handed
    <3>4. InHand(x) => InHand(x)' \/ Handed(x)'
      <4> SUFFICES ASSUME NEW b \in Accepts, acc[b] \in {"waiting", "ending"}, item[b] = x
                   PROVE  InHand(x)' \/ Handed(x)'
        BY Zenon DEF InHand
      <4>1. CASE b # a
        BY <1>1, <1>4, <4>1, Zenon DEF InHand
      <4>2. CASE b = a
        <5>1. CASE acc' = [acc EXCEPT ![a] = "ending"]
          BY <1>0, <1>1, <4>2, <5>1, Zenon DEF InHand
        <5>2. CASE acc' = [acc EXCEPT ![a] = "returned"]
          BY <1>0, <1>1, <4>2, <5>2, Zenon DEF Handed
        <5>3. CASE Raise(a)
          <6>1. server' = [server EXCEPT ![x] = "closed"]
            BY <3>1, <4>2, <5>3, Zenon DEF Raise
          <6>2. server'[x] = "closed"
            BY <1>0, <6>1, Zenon
          <6> QED
            BY <2>1, <6>2
        <5> QED
          BY <1>2, <4>2, <5>1, <5>2, <5>3, Zenon
      <4> QED
        BY <4>1, <4>2, Zenon
    <3> QED
      BY <1>1, <3>2, <3>3, <3>4, Zenon DEF Somewhere
  <2> QED
    BY <2>1, Zenon DEF OpenInv
<1> QED
  BY <1>6, <1>7, <1>8, <1>9, Zenon DEF ListenerInv

\* The loops start all at once, fail one by one, or are cancelled by close().
LEMMA LoopStep ==
    ASSUME ListenerInv, Start \/ \E p \in Protocols : LoopFails(p) \/ LoopCancelled(p)
    PROVE  ListenerInv'
<1>types. ListenerTypeOK /\ LoopInv /\ QueueInv /\ ShutInv /\ OpenInv
  BY Zenon DEF ListenerInv
<1>0. /\ transports \subseteq Protocols /\ loop \in [Protocols -> {"none", "accepting", "over"}]
      /\ active \in 0 .. Cardinality(transports) /\ ended \in BOOLEAN
      /\ transports # {} /\ (~closed => active = Cardinality(Running))
      /\ \A p \in Protocols : loop[p] # "none" => p \in transports /\ \A q \in transports : loop[q] # "none"
  BY <1>types, Zenon DEF ListenerTypeOK, LoopInv
<1>finite. /\ IsFiniteSet(transports) /\ Cardinality(transports) \in Nat
           /\ IsFiniteSet(Running) /\ Cardinality(Running) \in Nat
           /\ Cardinality(Running) <= Cardinality(transports)
  BY <1>0, LoopsFinite, Zenon
<1>1. UNCHANGED <<transports, waits, opened, bound, queued, server, incoming, closed, acc, item, shut, left, doomed>>
  BY Zenon DEF Start, LoopFails, LoopCancelled, configVars, acceptVars
<1>2. QueueInv'
  BY <1>types, <1>1, QueuesStay, Zenon
<1>3. OpenInv'
  BY <1>types, <1>1, OpenStays, Zenon
<1>4. ShutInv'
  BY <1>types, <1>1, Zenon DEF ShutInv
<1>5. ASSUME loop' \in [Protocols -> {"none", "accepting", "over"}],
             active' \in 0 .. Cardinality(transports), ended' \in BOOLEAN, LoopInv'
      PROVE  ListenerInv'
  <2>1. ListenerTypeOK'
    BY <1>types, <1>1, <1>5, Zenon DEF ListenerTypeOK
  <2> QED
    BY <1>2, <1>3, <1>4, <1>5, <2>1, Zenon DEF ListenerInv
<1>6. CASE Start
  <2>1. /\ ~closed /\ (\A p \in transports : loop[p] = "none") /\ active' = Cardinality(transports)
        /\ loop' = [p \in Protocols |-> IF p \in transports THEN "accepting" ELSE "none"]
        /\ ended' = ended
    BY <1>6, Zenon DEF Start
  <2>2. /\ \A p \in transports : loop'[p] = "accepting"
        /\ \A p \in Protocols : p \notin transports => loop'[p] = "none"
        /\ loop' \in [Protocols -> {"none", "accepting", "over"}]
    BY <1>0, <2>1, Zenon
  <2>3. ~ended
    BY <1>types, <1>0, <2>1 DEF LoopInv, EndedOnlyThen
  <2>4. Running' = transports
    BY <1>1, <2>2, Zenon DEF Running
  <2>5. active' \in 0 .. Cardinality(transports)
    BY <1>finite, <2>1
  <2>6. LoopInv'
    <3>1. \A p \in transports : loop'[p] # "none"
      BY <2>2
    <3> QED
      BY <1>0, <1>1, <2>1, <2>2, <2>3, <2>4, <3>1, Zenon DEF LoopInv, EndedOnlyThen
  <2> QED
    BY <1>0, <1>5, <2>1, <2>2, <2>5, <2>6, Zenon
<1>7. ASSUME NEW p \in Protocols, LoopFails(p) \/ LoopCancelled(p) PROVE ListenerInv'
  <2>1. loop[p] = "accepting" /\ loop' = [loop EXCEPT ![p] = "over"]
    BY <1>7, Zenon DEF LoopFails, LoopCancelled
  <2>2. p \in transports /\ \A q \in transports : loop[q] # "none"
    BY <1>0, <2>1
  <2>3. /\ loop'[p] = "over" /\ \A q \in Protocols : q # p => loop'[q] = loop[q]
        /\ loop' \in [Protocols -> {"none", "accepting", "over"}]
    BY <1>0, <2>1, Zenon
  <2>4. /\ \A q \in transports : loop'[q] # "none"
        /\ \A q \in Protocols : loop'[q] # "none" => q \in transports
    <3>1. loop'[p] # "none"
      BY <2>3
    <3> QED
      BY <1>0, <2>2, <2>3, <3>1, Zenon
  <2>5. CASE LoopCancelled(p)
    <3>1. closed /\ active' = active /\ ended' = ended
      BY <2>5, Zenon DEF LoopCancelled
    <3>2. LoopInv'
      BY <1>0, <1>1, <2>4, <3>1, Zenon DEF LoopInv, EndedOnlyThen
    <3> QED
      BY <1>0, <1>5, <2>3, <3>1, <3>2, Zenon
  <2>6. CASE LoopFails(p)
    <3>1. ~closed /\ active' = active - 1 /\ ended' = (ended \/ active' = 0)
      BY <2>6, Zenon DEF LoopFails
    <3>2. Running' = Running \ {p} /\ p \in Running
      <4>1. loop'[p] # "accepting"
        BY <2>3
      <4> QED
        BY <1>0, <1>1, <2>1, <2>2, <2>3, <4>1, Zenon DEF Running
    <3>3. IsFiniteSet(Running') /\ Cardinality(Running') = Cardinality(Running) - 1
      BY <1>finite, <3>2, FS_RemoveElement, Zenon
    <3>4. Cardinality(Running') \in Nat
      BY <3>3, FS_CardinalityType, Zenon
    <3>5. active' = Cardinality(Running') /\ active' \in 0 .. Cardinality(transports)
      BY <1>0, <1>finite, <3>1, <3>3, <3>4
    <3>6. active' = 0 => Running' = {}
      BY <3>3, <3>5, FS_EmptySet, Zenon
    <3>7. \A q \in transports : q \notin Running' => loop'[q] = "over"
      <4>1. ASSUME NEW q \in transports, q \notin Running' PROVE loop'[q] = "over"
        <5>1. loop'[q] # "accepting" /\ loop'[q] \in {"none", "accepting", "over"} /\ loop'[q] # "none"
          BY <1>0, <1>1, <2>3, <2>4, <4>1, Zenon DEF Running
        <5> QED
          BY <5>1
      <4> QED
        BY <4>1, Zenon
    <3>8. ~ended
      <4>1. ended => loop[p] = "over"
        BY <1>types, <2>2, <3>1, Zenon DEF LoopInv, EndedOnlyThen
      <4> QED
        BY <2>1, <4>1
    <3>9. ended' => active' = 0
      BY <3>1, <3>8, Zenon
    <3>10. LoopInv'
      BY <1>0, <1>1, <2>4, <3>5, <3>6, <3>7, <3>9, Zenon DEF LoopInv, EndedOnlyThen
    <3>11. ended' \in BOOLEAN
      <4>1. (active' = 0) \in BOOLEAN
        OBVIOUS
      <4> QED
        BY <1>0, <3>1, <4>1, Zenon
    <3> QED
      BY <1>5, <2>3, <3>5, <3>10, <3>11, Zenon
  <2> QED
    BY <1>7, <2>5, <2>6, Zenon
<1> QED
  BY <1>6, <1>7, Zenon

\* close() from its first statement to its return, or to its cancellation: what it
\* takes out of _queue it closes, unless it is cancelled.
LEMMA CloseStep ==
    ASSUME ListenerInv, Close \/ CloseCut \/ Drain \/ CloseReturns \/ \E c \in Conns : CloseQueued(c)
    PROVE  ListenerInv'
<1>types. ListenerTypeOK /\ LoopInv /\ QueueInv /\ ShutInv /\ OpenInv
  BY Zenon DEF ListenerInv
<1>0. /\ server \in [Conns -> {"none", "open", "closed"}] /\ Entries(incoming) \subseteq Conns
  BY <1>types, QueueTypes, Zenon
<1>1. UNCHANGED <<transports, waits, opened, bound, queued, loop, active, acc, item>>
  BY Zenon DEF Close, CloseCut, Drain, CloseReturns, CloseQueued, configVars, acceptVars
<1>2. \A x \in Conns : (Handed(x)' <=> Handed(x)) /\ (InHand(x)' <=> InHand(x))
  BY <1>1, Zenon DEF Handed, InHand
<1>3. CASE Close
  <2>1. /\ ~closed /\ closed' = TRUE /\ ended' = TRUE /\ shut' = "loops"
        /\ UNCHANGED <<server, incoming, left, doomed>>
    BY <1>3, Zenon DEF Close
  <2>2. ListenerTypeOK'
    BY <1>types, <1>1, <2>1, Zenon DEF ListenerTypeOK
  <2>3. LoopInv'
    BY <1>types, <1>1, <2>1, Zenon DEF LoopInv, EndedOnlyThen
  <2>4. QueueInv'
    BY <1>types, <1>1, <2>1, QueuesStay, Zenon
  <2>5. ShutInv'
    BY <1>types, <2>1 DEF ShutInv
  <2>6. shut = "no"
    BY <1>types, <2>1, Zenon DEF ShutInv
  <2>7. \A x \in Conns : Somewhere(x) => Somewhere(x)'
    BY <1>1, <1>2, <2>1, <2>6, Zenon DEF Somewhere
  <2>8. OpenInv'
    BY <1>types, <2>1, <2>7, Zenon DEF OpenInv
  <2> QED
    BY <2>2, <2>3, <2>4, <2>5, <2>8, Zenon DEF ListenerInv
<1>5. CASE CloseCut
  <2>1. /\ shut \in {"loops", "closing"} /\ shut' = "cut" /\ left' = {} /\ doomed' = {}
        /\ UNCHANGED <<server, incoming, closed, ended>>
    BY <1>5, Zenon DEF CloseCut
  <2>2. ListenerTypeOK'
    BY <1>types, <1>1, <2>1, Zenon DEF ListenerTypeOK
  <2>3. LoopInv'
    BY <1>types, <1>1, <2>1, LoopsStay, Zenon
  <2>4. QueueInv'
    BY <1>types, <1>1, <2>1, QueuesStay, Zenon
  <2>5. ShutInv'
    BY <1>types, <2>1 DEF ShutInv
  <2>6. OpenInv'
    BY <2>1, Zenon DEF OpenInv, Somewhere
  <2> QED
    BY <2>2, <2>3, <2>4, <2>5, <2>6, Zenon DEF ListenerInv
<1>6. CASE Drain
  <2>1. /\ shut = "loops" /\ shut' = "closing" /\ left' = transports /\ doomed' = Entries(incoming)
        /\ incoming' = <<>> /\ UNCHANGED <<server, closed, ended>>
    BY <1>6, Zenon DEF Drain
  <2>2. ListenerTypeOK'
    BY <1>types, <1>0, <1>1, <2>1, NoEntries, Zenon DEF ListenerTypeOK
  <2>3. LoopInv'
    BY <1>types, <1>1, <2>1, LoopsStay, Zenon
  <2>4. QueueInv'
    <3>1. Entries(incoming') = {} /\ Distinct(incoming')
      BY <2>1, NoEntries, Zenon
    <3>2. queued' = queued /\ item' = item /\ server' = server
      BY <1>1, <2>1, Zenon
    <3>3. ASSUME NEW p \in Protocols
          PROVE  /\ Distinct(queued'[p])
                 /\ \A x \in Entries(queued'[p]) : x[2] = p /\ x \notin Entries(incoming') /\ server'[x] # "none"
      BY <1>types, <3>1, <3>2, Zenon DEF QueueInv
    <3>4. ASSUME NEW a \in Accepts, item'[a] # None
          PROVE  /\ server'[item'[a]] # "none" /\ item'[a] \notin Entries(incoming')
                 /\ \A p \in Protocols : item'[a] \notin Entries(queued'[p])
                 /\ \A b \in Accepts : item'[b] = item'[a] => b = a
      BY <1>types, <3>1, <3>2, <3>4, Zenon DEF QueueInv
    <3> QED
      BY <3>1, <3>3, <3>4, Zenon DEF QueueInv
  <2>5. ShutInv'
    BY <1>types, <2>1 DEF ShutInv
  <2>6. ASSUME NEW x \in Conns, server'[x] = "open" PROVE Somewhere(x)'
    <3>1. Somewhere(x)
      BY <1>types, <2>1, <2>6, Zenon DEF OpenInv
    <3>2. doomed = {}
      BY <1>types, <2>1, Zenon DEF ShutInv
    <3> QED
      BY <1>1, <1>2, <2>1, <2>6, <3>1, <3>2, Zenon DEF Somewhere
  <2> QED
    BY <2>2, <2>3, <2>4, <2>5, <2>6, Zenon DEF ListenerInv, OpenInv
<1>7. CASE CloseReturns
  <2>1. /\ shut = "closing" /\ doomed = {} /\ shut' = "done"
        /\ UNCHANGED <<server, incoming, closed, ended, left, doomed>>
    BY <1>7, Zenon DEF CloseReturns
  <2>2. ListenerTypeOK'
    BY <1>types, <1>1, <2>1, Zenon DEF ListenerTypeOK
  <2>3. LoopInv'
    BY <1>types, <1>1, <2>1, LoopsStay, Zenon
  <2>4. QueueInv'
    BY <1>types, <1>1, <2>1, QueuesStay, Zenon
  <2>5. ShutInv'
    BY <1>types, <2>1 DEF ShutInv
  <2>6. Entries(incoming) = {}
    BY <1>types, <2>1, NoEntries, Zenon DEF ShutInv
  <2>7. \A x \in Conns : Somewhere(x) => Somewhere(x)'
    BY <1>1, <1>2, <2>1, <2>6, Zenon DEF Somewhere
  <2>8. OpenInv'
    BY <1>types, <2>1, <2>7, Zenon DEF OpenInv
  <2> QED
    BY <2>2, <2>3, <2>4, <2>5, <2>8, Zenon DEF ListenerInv
<1>8. ASSUME NEW c \in Conns, CloseQueued(c) PROVE ListenerInv'
  <2>1. /\ shut = "closing" /\ server' = [server EXCEPT ![c] = "closed"] /\ doomed' = doomed \ {c}
        /\ UNCHANGED <<incoming, closed, ended, shut, left>>
    BY <1>8, Zenon DEF CloseQueued
  <2>2. /\ server'[c] = "closed" /\ \A x \in Conns : x # c => server'[x] = server[x]
        /\ server' \in [Conns -> {"none", "open", "closed"}]
    BY <1>0, <2>1, Zenon
  <2>3. ListenerTypeOK'
    BY <1>types, <1>1, <2>1, <2>2, Zenon DEF ListenerTypeOK
  <2>4. LoopInv'
    BY <1>types, <1>1, <2>1, LoopsStay, Zenon
  <2>5. QueueInv'
    <3>1. \A x \in Conns : server'[x] = "none" => server[x] = "none"
      BY <2>2
    <3> QED
      BY <1>types, <1>1, <2>1, <3>1, QueuesStay, Zenon
  <2>6. ShutInv'
    BY <1>types, <2>1, Zenon DEF ShutInv
  <2>7. ASSUME NEW x \in Conns, server'[x] = "open" PROVE Somewhere(x)'
    <3>1. x # c
      BY <2>2, <2>7
    <3>2. Somewhere(x)
      BY <1>types, <2>2, <2>7, <3>1, Zenon DEF OpenInv
    <3> QED
      BY <1>1, <1>2, <2>1, <3>1, <3>2, Zenon DEF Somewhere
  <2> QED
    BY <2>3, <2>4, <2>5, <2>6, <2>7, Zenon DEF ListenerInv, OpenInv
<1> QED
  BY <1>3, <1>5, <1>6, <1>7, <1>8, Zenon

\* Every step of MultiListener and of the five listeners keeps its invariant.
LEMMA ListenerStep ==
    ASSUME ListenerInv, ListenerNext
    PROVE  ListenerInv' /\ transports' = transports
<1> USE DEF configVars, acceptVars
<1>types. /\ opened \subseteq transports /\ bound \subseteq opened /\ left \subseteq transports
          /\ server \in [Conns -> {"none", "open", "closed"}]
  BY Zenon DEF ListenerInv, ListenerTypeOK
<1>1. CASE Binding
  <2>1. ASSUME NEW p, Binds(p), bound' = bound \cup {p} \/ bound' = bound
        PROVE  ListenerInv' /\ transports' = transports
    <3>1. /\ p \in transports \ opened /\ opened' = opened \cup {p}
          /\ UNCHANGED <<transports, waits, queued, server, loop, active, incoming, closed, ended,
                         acc, item, shut, left, doomed>>
      BY <2>1, Zenon DEF Binds
    <3>2. opened' \subseteq transports /\ bound' \subseteq opened'
      BY <1>types, <2>1, <3>1, Zenon
    <3> QED
      BY <1>types, <3>1, <3>2, AsideStep, Zenon
  <2> QED
    BY <1>1, <2>1, Zenon DEF Binding, TcpBind, WsBind, QuicBind, KcpBind, WtBind
<1>2. CASE ListenerStops
  <2>1. ASSUME NEW p, StopListening(p), bound' = bound \/ bound' = bound \ {p},
               left' = left \/ left' = left \ {p}, server' = server \/ CloseAll(p)
        PROVE  ListenerInv' /\ transports' = transports
    <3>1. UNCHANGED <<transports, waits, opened, queued, loop, active, incoming, closed, ended, acc, item, shut, doomed>>
      BY <2>1, Zenon DEF StopListening
    <3>2. bound' \subseteq opened' /\ left' \subseteq transports /\ opened' \subseteq transports
      BY <1>types, <2>1, <3>1, Zenon
    <3>3. /\ server' \in [Conns -> {"none", "open", "closed"}]
          /\ \A c \in Conns : server'[c] = server[c] \/ server'[c] = "closed"
      <4>1. CASE server' = server
        BY <1>types, <4>1, Zenon
      <4>2. CASE CloseAll(p)
        BY <1>types, <4>2 DEF CloseAll
      <4> QED
        BY <2>1, <4>1, <4>2, Zenon
    <3> QED
      BY <3>1, <3>2, <3>3, AsideStep, Zenon
  <2>2. CASE TcpClose \/ TcpWaitClosed \/ KcpClose
    BY <2>1, <2>2, Zenon DEF TcpClose, TcpWaitClosed, KcpClose
  <2>3. CASE WsClose \/ QuicClose \/ WtClose
    BY <2>1, <2>3, Zenon DEF WsClose, QuicClose, WtClose, ServerClose
  <2> QED
    BY <1>2, <2>2, <2>3, Zenon DEF ListenerStops
<1>3. CASE Start \/ \E p \in Protocols : LoopFails(p) \/ LoopCancelled(p)
  BY <1>3, LoopStep, Zenon DEF Start, LoopFails, LoopCancelled
<1>4. ASSUME NEW p \in Protocols, AcceptLoop(p) PROVE ListenerInv' /\ transports' = transports
  BY <1>4, AcceptLoopStep, Zenon DEF AcceptLoop
<1>5. CASE Close \/ CloseCut \/ Drain \/ CloseReturns \/ \E c \in Conns : CloseQueued(c)
  BY <1>5, CloseStep, Zenon DEF Close, CloseCut, Drain, CloseReturns, CloseQueued
<1>6. ASSUME NEW a \in Accepts, AcceptWith(a) \/ Accepting(a) \/ AcceptCancelled(a) \/ CallerCloses(a)
      PROVE  ListenerInv' /\ transports' = transports
  <2>1. CASE Taken(a)
    BY <2>1, TakenStep, Zenon DEF Taken
  <2>2. CASE AcceptWith(a) \/ AcceptWakes(a) \/ AcceptEnds(a) \/ AcceptCancelled(a)
    BY <2>2, AcceptStep, Zenon DEF AcceptWith, AcceptWakes, AcceptEnds, AcceptCancelled
  <2>3. CASE CallerCloses(a)
    <3>1. /\ server' = [server EXCEPT ![item[a]] = "closed"]
          /\ UNCHANGED <<transports, waits, opened, bound, queued, loop, active, incoming, closed, ended,
                         acc, item, shut, left, doomed>>
      BY <2>3, Zenon DEF CallerCloses
    <3>2. /\ server' \in [Conns -> {"none", "open", "closed"}]
          /\ \A c \in Conns : server'[c] = server[c] \/ server'[c] = "closed"
      BY <1>types, <3>1, Zenon
    <3> QED
      BY <1>types, <3>1, <3>2, AsideStep, Zenon
  <2> QED
    BY <1>6, <2>1, <2>2, <2>3, Zenon DEF Accepting
<1> QED
  BY <1>1, <1>2, <1>3, <1>4, <1>5, <1>6, Zenon DEF ListenerNext, Looping, Closing

-----------------------------------------------------------------------------
(* The two together *)

\* Both invariants hold before anything is bound or dialled.
LEMMA InvInit == Init => ListenerInv /\ DialerInv
<1> SUFFICES ASSUME Init PROVE ListenerInv /\ DialerInv
  BY Zenon
<1>1. ListenerInit /\ DialerInit
  BY Zenon DEF Init
<1>2. transports \subseteq Protocols /\ transports # {} /\ waits \in BOOLEAN
  <2>1. PICK c \in Configs : transports = c[1]
    BY <1>1, Zenon DEF ListenerInit
  <2>2. c[1] \in (SUBSET Protocols) \ {{}}
    BY <2>1, MultiAssumption
  <2>3. waits = FALSE \/ waits = ("tcp" \in transports)
    BY <1>1, Zenon DEF ListenerInit
  <2>4. FALSE \in BOOLEAN /\ ("tcp" \in transports) \in BOOLEAN
    OBVIOUS
  <2> QED
    BY <2>1, <2>2, <2>3, <2>4, Zenon
<1>3. /\ IsFiniteSet(transports) /\ Cardinality(transports) \in Nat
  BY <1>2, LoopsFinite, Zenon
<1>4. ListenerTypeOK
  <2>1. active \in 0 .. Cardinality(transports)
    BY <1>1, <1>3 DEF ListenerInit
  <2> QED
    BY <1>1, <1>2, <2>1, NoEntries, Zenon DEF ListenerInit, ListenerTypeOK
<1>5. LoopInv
  <2>1. \A p \in Protocols : loop[p] = "none"
    BY <1>1, Zenon DEF ListenerInit
  <2>2. Running = {}
    BY <1>2, <2>1 DEF Running
  <2>3. active = Cardinality(Running)
    BY <1>1, <2>2, FS_EmptySet, Zenon DEF ListenerInit
  <2> QED
    BY <1>1, <1>2, <2>1, <2>3, Zenon DEF ListenerInit, LoopInv, EndedOnlyThen
<1>6. QueueInv
  <2>1. incoming = <<>> /\ (\A p \in Protocols : queued[p] = <<>>) /\ \A a \in Accepts : item[a] = None
    BY <1>1, Zenon DEF ListenerInit
  <2> QED
    BY <2>1, NoEntries, Zenon DEF QueueInv
<1>7. ShutInv
  BY <1>1 DEF ListenerInit, ShutInv
<1>8. OpenInv
  BY <1>1 DEF ListenerInit, OpenInv
<1>9. DialerTypeOK
  <2>1. 0 \in 0 .. Len(Priority)
    BY PriorityIs
  <2>2. dialers \subseteq Protocols
    BY <1>1, Zenon DEF DialerInit
  <2> QED
    BY <1>1, <2>1, <2>2, Zenon DEF DialerInit, DialerTypeOK
<1>10. DialInv
  <2>1. ASSUME NEW d \in Dials PROVE DialOK(d)
    <3>1. dial[d] = "idle" /\ failed[d] = {}
      BY <1>1, Zenon DEF DialerInit
    <3> QED
      BY <3>1, Zenon DEF DialOK
  <2> QED
    BY <2>1, Zenon DEF DialInv
<1>11. SocketsReleased
  BY <1>1 DEF DialerInit, SocketsReleased
<1> QED
  BY <1>4, <1>5, <1>6, <1>7, <1>8, <1>9, <1>10, <1>11, Zenon DEF ListenerInv, DialerInv

\* Both invariants hold always.
LEMMA Invariant == Spec => [](ListenerInv /\ DialerInv)
<1>1. ListenerInv /\ DialerInv /\ [Next]_vars => (ListenerInv /\ DialerInv)'
  <2> SUFFICES ASSUME ListenerInv, DialerInv, [Next]_vars PROVE ListenerInv' /\ DialerInv'
    BY Zenon
  <2>0. /\ transports \subseteq Protocols /\ server \in [Conns -> {"none", "open", "closed"}]
        /\ up \subseteq Conns /\ wrote \subseteq Conns
        /\ opened \subseteq transports /\ bound \subseteq opened /\ left \subseteq transports
    BY Zenon DEF ListenerInv, ListenerTypeOK, DialerInv, DialerTypeOK
  <2>1. ASSUME UNCHANGED dialerVars, transports' = transports PROVE DialerInv'
    BY <2>0, <2>1, ConnMoves, Zenon DEF dialerVars
  <2>2. ASSUME UNCHANGED listenerVars PROVE ListenerInv' /\ transports' = transports
    BY <2>0, <2>2, AsideStep, Zenon DEF listenerVars
  <2>3. CASE ListenerNext /\ UNCHANGED dialerVars
    BY <2>1, <2>3, ListenerStep, Zenon
  <2>4. CASE (\E c \in Conns : Surface(c)) /\ UNCHANGED dialerVars
    <3>1. PICK c \in Conns : Surface(c)
      BY <2>4, Zenon
    <3>2. Surfaces(c)
      BY <3>1, Zenon DEF Surface, TcpOnConnect, WsHandler, QuicStreamHandler, WtStreamData, KcpHandleData
    <3>3. transports' = transports
      BY <3>2, Zenon DEF Surfaces, configVars
    <3> QED
      BY <2>1, <2>4, <3>2, <3>3, SurfaceStep, Zenon
  <2>5. CASE DialerNext /\ UNCHANGED listenerVars
    BY <2>0, <2>2, <2>5, DialerStep, Zenon
  <2>6. CASE UNCHANGED vars
    BY <2>1, <2>2, <2>6, Zenon DEF vars
  <2> QED
    BY <2>3, <2>4, <2>5, <2>6, Zenon DEF Next
<1> QED
  BY <1>1, InvInit, PTL DEF Spec

\* The state of MultiListener, of MultiDialer and of their calls stays well formed, with
\* any number of dials and accepts: _active_loops, above all, never falls below 0.
THEOREM MultiTypes == Spec => []TypeOK
<1>1. ListenerInv /\ DialerInv => TypeOK
  BY Zenon DEF ListenerInv, DialerInv, TypeOK
<1> QED
  BY <1>1, Invariant, PTL

\* MultiListener hands out no connection twice and loses none, with any number of
\* connections and accepts, however they are cancelled and whenever close() is called.
THEOREM ConnectionsKept == Spec => []Kept
<1>1. ListenerInv => Kept
  <2> SUFFICES ASSUME ListenerInv, NEW c \in Conns
               PROVE  Cardinality(Places(c)) <= 1 /\ (server[c] = "open" => Somewhere(c))
    BY Zenon DEF Kept, Somewhere
  <2> QED
    BY OnePlace, Zenon DEF ListenerInv, OpenInv
<1> QED
  BY <1>1, Invariant, PTL

\* accept reports the end only when it has come, for every set of transports: _ended is
\* set by close(), or when the loop of every transport has failed.
THEOREM EndReported == Spec => []EndedOnlyThen
<1>1. ListenerInv => EndedOnlyThen
  BY Zenon DEF ListenerInv, LoopInv
<1> QED
  BY <1>1, Invariant, PTL

\* For every configuration of the two sides, dial returns the first transport of
\* DEFAULT_PRIORITY that both have and that has not failed, agreed with the server unless
\* it is KCP, and gives up only when all of those have failed.
THEOREM BestReturned == Spec => []BestProtocol
<1>1. DialerInv => BestProtocol
  <2> SUFFICES ASSUME DialerInv, NEW d \in Dials
               PROVE  /\ dial[d] = "returned" => /\ Before(at[d] - 1) = failed[d]
                                                 /\ Current(d) \in up \/ Priority[at[d]] = "kcp"
                      /\ dial[d] = "failed" => failed[d] = transports \cap dialers
    BY Zenon DEF BestProtocol, Before
  <2> QED
    BY Zenon DEF DialerInv, DialInv, DialOK
<1> QED
  BY <1>1, Invariant, PTL

\* A try that fails has closed its socket, in every sequence of fallbacks of any number
\* of dials, unless it was cancelled or failed in the QUIC handshake.
THEOREM SocketsFreed == Spec => []SocketsReleased
<1>1. DialerInv => SocketsReleased
  BY Zenon DEF DialerInv
<1> QED
  BY <1>1, Invariant, PTL
=============================================================================
