------------------------------- MODULE MCNode -------------------------------
(* A small instance of a node for TLC. *)
EXTENDS Node

CONSTANTS c1, c2

\* The two connect_relay calls are interchangeable, and dial_peer and incoming
\* peers meet only in the session they use: c2 comes after c1, and a behaviour has
\* one of the two kinds, in its first session.
InTurn ==
    /\ pc'[c2] # "idle" => pc'[c1] # "idle"
    /\ (\A d \in Dials : pc'[d] = "idle") \/ (\A o \in Proxies \cup Accepts : pc'[o] = "idle")
    /\ \A o \in Calls \ Connects : ses'[o] # c2
=============================================================================
