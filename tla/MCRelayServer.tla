---------------------------- MODULE MCRelayServer ----------------------------
(* Small instances of one relay for TLC. *)
EXTENDS RelayServer, TLC

\* Sockets are interchangeable: a symmetry set of the safety runs.
ConnSymmetry == Permutations(Conns)

\* The liveness run uses no symmetry.  Its three sockets are one of each kind a
\* session needs: a node's control connection, a requester, and one that may be
\* anything but a control connection.
Roles ==
    \A c \in Conns : pc[c] = "setup" =>
        \/ pc'[c] \in {"setup", "close"}
        \/ c = 1 /\ pc'[c] \in {"announce", "control"}
        \/ c = 2 /\ pc'[c] = "lookup"
        \/ c = 3 /\ pc'[c] \notin {"announce", "control"}
=============================================================================
