------------------------------- MODULE MCMulti -------------------------------
(***************************************************************************)
(* Multi with the calls an instance makes: two dials and two accepts where *)
(* the server has the transports Busy, so that connections and callers     *)
(* compete; one of each elsewhere, so that a dial falls back from one      *)
(* transport to the next.                                                  *)
(***************************************************************************)
EXTENDS Multi

CONSTANTS d1, d2, a1, a2

Busy == {"kcp"}

\* One transport, with the two calls; two and a fallback; two servers of one transport
\* that the client has and has not.
MCConfigs ==
    {<<T, T>> : T \in {{"kcp"}, {"quic", "websocket"}, {"webtransport", "kcp"}}}
    \cup {<<{"tcp"}, T>> : T \in {{"webtransport", "tcp"}, {"quic"}}}

\* Bounds: what is left out is the second dial and accept elsewhere, the runs that
\* differ only in which call is the first, and the dials and accepts made before
\* every listener is bound.
InTurn ==
    /\ transports # Busy => dial'[d2] = "idle" /\ acc'[a2] = "idle"
    /\ dial'[d1] # "idle" \/ acc'[a1] # "idle" => opened = transports
    /\ dial'[d2] # "idle" => dial[d1] # "idle"
    /\ acc'[a2] # "idle" => acc[a1] # "idle"
=============================================================================
