------------------------------ MODULE Handshake ------------------------------
(***************************************************************************)
(* The USCP handshake of two ends of a connection.                         *)
(* (uniconn-py/uniconn/secure: handshake.py, message.py, identity.py and   *)
(* SecureConn.__init__)                                                    *)
(*                                                                         *)
(* End "b" is the process of IdentityStore, which may crash and start      *)
(* again; end "a" has the identity Home.  Who is at the other end is up to *)
(* those who made the connection, a relay for instance: each end has a     *)
(* role and the fingerprint it expects, and nothing makes them fit.        *)
(* Fingerprints, signatures and the KEM are taken as perfect; decapsulating *)
(* what was not made for the key yields an unrelated secret.               *)
(***************************************************************************)
EXTENDS IdentityStore, Sequences

CONSTANTS
    Home,      \* the identity of end "a"
    MaxRuns    \* bound: connections, one after the other

ASSUME HandshakeAssumption == MaxRuns \in Nat /\ Home # None /\ Home \notin Identities

VARIABLES
    run,      \* the connection
    role,     \* handshake_initiator or handshake_responder
    pin,      \* peer_fp
    hs,       \* how far each end has come
    inbox,    \* frames on their way to each end
    gone,     \* ends that have closed the connection
    secret,   \* shared_secret
    used      \* the identity an end has signed with

hsVars == <<run, role, pin, hs, inbox, gone, secret, used>>

Ends == {"a", "b"}
Other(e) == IF e = "a" THEN "b" ELSE "a"
Fingerprints == Identities \cup {Home}
Identity(e) == IF e = "a" THEN Home ELSE ident

HandshakeTypeOK ==
    /\ run \in 0 .. MaxRuns
    /\ role \in [Ends -> {"initiator", "responder"}] /\ pin \in [Ends -> Fingerprints]
    /\ hs \in [Ends -> {"idle", "reading", "done", "failed"}]
    /\ \A e \in Ends : Len(inbox[e]) <= 1
    /\ gone \in [Ends -> BOOLEAN]
    /\ used \in [Ends -> Fingerprints \cup {None}]

HandshakeInit ==
    /\ run = 0
    /\ role = [e \in Ends |-> "initiator"] /\ pin = [e \in Ends |-> Home]
    /\ hs = [e \in Ends |-> "failed"] /\ inbox = [e \in Ends |-> <<>>]
    /\ gone = [e \in Ends |-> TRUE]
    /\ secret = [e \in Ends |-> <<>>] /\ used = [e \in Ends |-> None]

-----------------------------------------------------------------------------
\* A new connection, once the last one is settled.
Connect ==
    /\ run < MaxRuns /\ \A e \in Ends : hs[e] \in {"done", "failed"}
    /\ run' = run + 1
    /\ role' \in [Ends -> {"initiator", "responder"}]
    /\ pin' \in [Ends -> Fingerprints]
    /\ hs' = [e \in Ends |-> "idle"] /\ inbox' = [e \in Ends |-> <<>>]
    /\ gone' = [e \in Ends |-> FALSE]
    /\ secret' = [e \in Ends |-> <<>>] /\ used' = [e \in Ends |-> None]
    /\ UNCHANGED storeVars

\* Identity.sign and verify.
Sign(id, data) == <<id, data>>
Verify(pk, data, sig) == sig = Sign(pk, data)

Hello(type, id, payload) == [msg_type |-> type, public_key |-> id, payload |-> payload,
                             signature |-> Sign(id, payload)]

\* The KEM key of an end, and what is sealed to it.
Ek(e) == <<"ek", e, run>>
Encapsulate(ek, e) == <<"ct", ek, e>>
Decapsulate(e, ct) == IF ct \in {Encapsulate(Ek(e), f) : f \in Ends} THEN ct ELSE <<"unrelated", e>>

Send(e, m) == inbox' = [inbox EXCEPT ![Other(e)] = IF gone[Other(e)] THEN @ ELSE Append(@, m)]

Ready(e, r) == hs[e] = "idle" /\ role[e] = r /\ Identity(e) # None /\ (e = "b" => ~saving)

\* handshake_initiator up to its first read: generate a KEM key, sign and send it.
InitiatorBegins(e) ==
    /\ Ready(e, "initiator")
    /\ Send(e, Hello("HELLO", Identity(e), Ek(e)))
    /\ hs' = [hs EXCEPT ![e] = "reading"]
    /\ used' = [used EXCEPT ![e] = Identity(e)]
    /\ UNCHANGED <<run, role, pin, gone, secret, storeVars>>

ResponderBegins(e) ==
    /\ Ready(e, "responder")
    /\ hs' = [hs EXCEPT ![e] = "reading"]
    /\ used' = [used EXCEPT ![e] = Identity(e)]
    /\ UNCHANGED <<run, role, pin, inbox, gone, secret, storeVars>>

\* The handshake raises, and its caller closes the connection.
Fail(e) ==
    /\ hs' = [hs EXCEPT ![e] = "failed"]
    /\ gone' = [gone EXCEPT ![e] = TRUE]
    /\ inbox' = [inbox EXCEPT ![e] = <<>>]
    /\ UNCHANGED <<run, role, pin, secret, used, storeVars>>

\* Mutant of Accepts: the message type is not looked at.
AcceptsAnyType(e, type, m) ==
    /\ m.public_key = pin[e]
    /\ Verify(m.public_key, m.payload, m.signature)

\* Mutant of Accepts: the fingerprint is not looked at.
AcceptsAnyPeer(e, type, m) ==
    /\ m.msg_type = type
    /\ Verify(m.public_key, m.payload, m.signature)

\* The checks both sides make: type, fingerprint, signature.
Accepts(e, type, m) ==
    /\ m.msg_type = type
    /\ m.public_key = pin[e]
    /\ Verify(m.public_key, m.payload, m.signature)

Reading(e, r) == hs[e] = "reading" /\ role[e] = r /\ inbox[e] # <<>>

InitiatorReply(e) ==
    LET m == Head(inbox[e]) IN
    /\ Reading(e, "initiator")
    /\ IF Accepts(e, "HELLO_REPLY", m)
       THEN /\ secret' = [secret EXCEPT ![e] = Decapsulate(e, m.payload)]
            /\ hs' = [hs EXCEPT ![e] = "done"]
            /\ inbox' = [inbox EXCEPT ![e] = <<>>]
            /\ UNCHANGED <<run, role, pin, gone, used, storeVars>>
       ELSE Fail(e)

\* The reply is written, whether or not the peer is still there to read it.
ResponderHello(e) ==
    LET m == Head(inbox[e])
        ct == Encapsulate(m.payload, e)
    IN
    /\ Reading(e, "responder")
    /\ IF Accepts(e, "HELLO", m)
       THEN /\ secret' = [secret EXCEPT ![e] = ct]
            /\ hs' = [hs EXCEPT ![e] = "done"]
            /\ inbox' = [inbox EXCEPT ![e] = <<>>,
                                      ![Other(e)] = IF gone[Other(e)] THEN <<>>
                                                    ELSE <<Hello("HELLO_REPLY", Identity(e), ct)>>]
            /\ UNCHANGED <<run, role, pin, gone, used, storeVars>>
       ELSE Fail(e)

\* read_frame_from_conn meets the end of the connection.
ReadEof(e) == hs[e] = "reading" /\ inbox[e] = <<>> /\ gone[Other(e)] /\ Fail(e)

\* Mutant of GiveUp: nothing limits the wait for the peer's message.
GiveUpIdle(e) == hs[e] = "idle" /\ Fail(e)

\* The setup timeout, or the cancellation of the caller.
GiveUp(e) == hs[e] \in {"idle", "reading"} /\ Fail(e)

\* The crash of end "b" closes its connection.
CrashB ==
    /\ Crash
    /\ hs' = [hs EXCEPT !["b"] = IF @ = "done" THEN @ ELSE "failed"]
    /\ gone' = [gone EXCEPT !["b"] = TRUE]
    /\ inbox' = [inbox EXCEPT !["b"] = <<>>]
    /\ UNCHANGED <<run, role, pin, secret, used>>

vars == <<storeVars, hsVars>>

Init == StoreInit /\ HandshakeInit

Steps(e) == InitiatorBegins(e) \/ ResponderBegins(e) \/ InitiatorReply(e) \/ ResponderHello(e) \/ ReadEof(e) \/ GiveUp(e)

Next ==
    \/ StoreNext /\ UNCHANGED hsVars
    \/ Connect \/ CrashB
    \/ \E e \in Ends : Steps(e)

Spec == Init /\ [][Next]_vars

\* The event loop runs what is ready, and the setup timeout fires.
FairSpec == Spec /\ \A e \in Ends : WF_vars(Steps(e))

-----------------------------------------------------------------------------
TypeOK == StoreTypeOK /\ HandshakeTypeOK

\* SecureConn.__init__: the initiator's key for one direction, the responder's for
\* the other.
Keys(s) == [initiator |-> <<s, 1>>, responder |-> <<s, 2>>]

\* Mutant of SendKey: the role is not looked at.
SendKeyInitiator(e) == Keys(secret[e]).initiator

SendKey(e) == Keys(secret[e])[role[e]]
RecvKey(e) == Keys(secret[e])[IF role[e] = "initiator" THEN "responder" ELSE "initiator"]

\* When both ends have finished the handshake, each seals with the key the other
\* opens with, and the two directions have different keys.
Agreement ==
    (\A e \in Ends : hs[e] = "done") =>
        \A e \in Ends : SendKey(e) = RecvKey(Other(e)) /\ SendKey(e) # SendKey(Other(e))

\* An end that finishes has the peer whose fingerprint it was given, also if that
\* peer has crashed and loaded its identity again in between.
RightPeer == \A e \in Ends : hs[e] = "done" => used[Other(e)] = pin[e]

\* An initiator finishes only if the responder has, with the same secret; the reverse
\* does not hold, since the responder does not wait for the initiator's checks.
ResponderFirst ==
    \A e \in Ends :
        hs[e] = "done" /\ role[e] = "initiator" =>
            hs[Other(e)] = "done" /\ role[Other(e)] = "responder" /\ secret[Other(e)] = secret[e]

\* Every handshake ends, also that of two initiators, of two responders, or with an
\* end that is gone.
Settles == \A e \in Ends : hs[e] = "reading" ~> hs[e] \in {"done", "failed"}
=============================================================================
