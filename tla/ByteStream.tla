------------------------------ MODULE ByteStream ------------------------------
(***************************************************************************)
(* What one direction of a SecureConn promises: a read returns the bytes   *)
(* that follow those returned before, in the order they were written.      *)
(* Bytes are named by their position in the stream.                        *)
(***************************************************************************)
EXTENDS Naturals

VARIABLES
    written,   \* bytes handed to Write
    read,      \* bytes returned by Read
    ret        \* first and last byte of the latest Read

vars == <<written, read, ret>>

Init == written = 0 /\ read = 0 /\ ret = <<1, 0>>

Write ==
    /\ written' \in Nat /\ written' > written
    /\ UNCHANGED <<read, ret>>

Read ==
    /\ read' \in (read + 1) .. written
    /\ ret' = <<read + 1, read'>>
    /\ UNCHANGED written

Next == Write \/ Read

Spec == Init /\ [][Next]_vars
=============================================================================
