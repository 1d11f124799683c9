--------------------------- MODULE HandshakeProofs ---------------------------
(***************************************************************************)
(* The safety properties of Handshake and IdentityStore, for any           *)
(* identities, passwords, sizes, crashes and connections.                  *)
(***************************************************************************)
EXTENDS Handshake, TLAPS

-----------------------------------------------------------------------------
(* The identity store *)

\* While a save runs the file is what it writes; once it has returned the file is
\* complete and holds what was saved.
SaveInv ==
    /\ saving => file # None /\ file.magic /\ file.version = 1 /\ file.plain = PlainSize
    /\ saved # None /\ ~saving /\ ~torn =>
          /\ file # None /\ file.magic /\ file.version = 1 /\ file.plain = PlainSize
          /\ file.size = FullSize(file)
          /\ file.id = saved[1] /\ file.password = saved[2]

StoreInv == StoreTypeOK /\ SaveInv

\* A process starts without an identity, with no file or with another program's.
LEMMA StoreInvInit == StoreInit => StoreInv
<1> SUFFICES ASSUME StoreInit PROVE StoreInv
  OBVIOUS
<1> USE StoreAssumption DEF StoreInit
<1>f. file = None \/ (file \in Files /\ file.size = FullSize(file))
  BY Zenon DEF Foreign
<1>s. file # None => file.size <= FullSize(file)
  BY <1>f DEF Files
<1>c. crashes \in 0 .. MaxCrashes
  OBVIOUS
<1>1. StoreTypeOK
  BY <1>f, <1>s, <1>c, Zenon DEF StoreTypeOK
<1> QED
  BY <1>1 DEF StoreInv, SaveInv

\* Every step of the process, its death included, keeps the invariant.
LEMMA StoreInvStep ==
    ASSUME StoreInv, StoreNext \/ Crash \/ UNCHANGED storeVars
    PROVE  StoreInv'
<1>type. StoreTypeOK
  BY DEF StoreInv
<1>save. SaveInv
  BY DEF StoreInv
<1> USE StoreAssumption
<1>1. ASSUME NEW i \in Identities, Generate(i) PROVE StoreInv'
  BY <1>1, <1>type, <1>save DEF Generate, StoreInv, StoreTypeOK, SaveInv, FullSize
<1>2. ASSUME NEW pw \in Passwords, SaveBegins(pw) PROVE StoreInv'
  <2>1. file' \in Files /\ file'.size <= FullSize(file')
    BY <1>2, <1>type DEF SaveBegins, StoreTypeOK, Files, FullSize
  <2>2. StoreTypeOK'
    BY <1>2, <2>1, <1>type DEF SaveBegins, StoreTypeOK, FullSize
  <2>3. SaveInv'
    BY <1>2, <2>1, Zenon DEF SaveBegins, SaveInv
  <2> QED
    BY <2>2, <2>3 DEF StoreInv
<1>3. ASSUME NEW pw \in Passwords, Load(pw) PROVE StoreInv'
  <2>1. file \in Files
    BY <1>3, <1>type DEF Load, Loads, StoreTypeOK
  <2> QED
    BY <1>3, <2>1, <1>type, <1>save DEF Load, StoreInv, StoreTypeOK, SaveInv, Files, FullSize
<1>4. CASE SaveWrites
  <2>1. file \in Files
    BY <1>4, <1>type, <1>save DEF SaveWrites, StoreTypeOK, SaveInv
  <2>2. PICK n \in (file.size + 1) .. FullSize(file) : file' = [file EXCEPT !.size = n]
    BY <1>4 DEF SaveWrites
  <2>3. n \in 0 .. (HeaderSize + PlainSize + 1 + TagSize) /\ n <= FullSize(file)
    BY <2>1, <2>2 DEF Files, FullSize
  <2>4. /\ file' \in Files /\ file'.size = n
        /\ file'.magic = file.magic /\ file'.version = file.version /\ file'.plain = file.plain
    BY <2>1, <2>2, <2>3 DEF Files
  <2>5. StoreTypeOK'
    BY <1>4, <2>3, <2>4, <1>type DEF SaveWrites, StoreTypeOK, FullSize
  <2>6. SaveInv'
    BY <1>4, <2>4, <1>save DEF SaveWrites, SaveInv
  <2> QED
    BY <2>5, <2>6 DEF StoreInv
<1>5. CASE SaveReturns
  <2>1. file \in Files
    BY <1>5, <1>type, <1>save DEF SaveReturns, StoreTypeOK, SaveInv
  <2>2. StoreTypeOK'
    BY <1>5, <2>1, <1>type, Zenon DEF SaveReturns, StoreTypeOK, Files, FullSize
  <2>3. SaveInv'
    BY <1>5, <1>save DEF SaveReturns, SaveInv, FullSize
  <2> QED
    BY <2>2, <2>3 DEF StoreInv
<1>6. CASE Crash
  <2>0. torn' \in BOOLEAN
    BY <1>6, Zenon DEF Crash
  <2>f. file' \in Files \cup {None} /\ (file' # None => file'.size <= FullSize(file'))
    BY <1>6, <1>type DEF Crash, StoreTypeOK, FullSize
  <2>c. crashes' \in 0 .. MaxCrashes
    BY <1>6, <1>type DEF Crash, StoreTypeOK
  <2>1. StoreTypeOK'
    BY <1>6, <2>0, <2>f, <2>c, <1>type, Zenon DEF Crash, StoreTypeOK
  <2>2. SaveInv'
    BY <1>6, <1>type, <1>save DEF Crash, StoreTypeOK, SaveInv, FullSize
  <2> QED
    BY <2>1, <2>2 DEF StoreInv
<1>7. CASE UNCHANGED storeVars
  BY <1>7, <1>type, <1>save DEF storeVars, StoreInv, StoreTypeOK, SaveInv, FullSize
<1> QED
  BY <1>1, <1>2, <1>3, <1>4, <1>5, <1>6, <1>7 DEF StoreNext

-----------------------------------------------------------------------------
(* The handshake *)

Shape ==
    /\ inbox = [e \in Ends |-> inbox[e]] /\ secret = [e \in Ends |-> secret[e]]

\* An end in the middle of a handshake still has the identity it signed with, and an
\* end has sent nothing before it may.
EndOK(e) ==
    /\ hs[e] = "reading" => used[e] = Identity(e) /\ used[e] # None
    /\ hs[e] = "idle" => inbox[Other(e)] = <<>> /\ hs[Other(e)] # "done"
    /\ hs[e] = "reading" /\ role[e] = "responder" => inbox[Other(e)] = <<>>

EndInv == \A e \in Ends : EndOK(e)

\* Whatever is on its way to e is what the other end has made in this connection.
Sent(e) ==
    \/ /\ role[e] = "initiator"
       /\ inbox[Other(e)] = <<Hello("HELLO", used[e], Ek(e))>>
    \/ /\ role[e] = "responder" /\ hs[e] = "done"
       /\ inbox[Other(e)] = <<Hello("HELLO_REPLY", used[e], secret[e])>>

MessageInv == \A e \in Ends : inbox[Other(e)] = <<>> \/ Sent(e)

\* A responder that is done has an initiator as its peer; an initiator that is done
\* has a responder that is done, with the same secret.
DoneInv ==
    \A e \in Ends : hs[e] = "done" =>
        /\ used[Other(e)] = pin[e]
        /\ role[e] = "responder" =>
              role[Other(e)] = "initiator" /\ secret[e] = Encapsulate(Ek(Other(e)), e)
        /\ role[e] = "initiator" =>
              hs[Other(e)] = "done" /\ role[Other(e)] = "responder" /\ secret[Other(e)] = secret[e]

\* The inductive invariant.
HandshakeInv == TypeOK /\ SaveInv /\ Shape /\ EndInv /\ MessageInv /\ DoneInv

\* The invariant holds before the first connection.
LEMMA HandshakeInvInit == Init => HandshakeInv
<1> SUFFICES ASSUME Init PROVE HandshakeInv
  OBVIOUS
<1>1. StoreInv
  BY StoreInvInit DEF Init
<1>2. HandshakeTypeOK
  BY HandshakeAssumption DEF Init, HandshakeInit, HandshakeTypeOK, Ends, Fingerprints
<1>3. Shape /\ EndInv /\ MessageInv /\ DoneInv
  BY DEF Init, HandshakeInit, Shape, EndInv, EndOK, MessageInv, DoneInv, Ends, Other
<1> QED
  BY <1>1, <1>2, <1>3 DEF StoreInv, TypeOK, HandshakeInv

\* A connection has two ends.
LEMMA OtherEnd ==
    ASSUME NEW e \in Ends
    PROVE  /\ Other(e) \in Ends /\ Other(e) # e /\ Other(Other(e)) = e
           /\ \A d \in Ends : d = e \/ d = Other(e)
BY DEF Ends, Other

\* What is on its way after a step is at most one message.
LEMMA OneMessage == ASSUME MessageInv' PROVE \A e \in Ends : Len(inbox'[e]) <= 1
<1> SUFFICES ASSUME NEW e \in Ends PROVE Len(inbox'[e]) <= 1
  OBVIOUS
<1>1. inbox'[e] = <<>> \/ \E m : inbox'[e] = <<m>>
  BY OtherEnd DEF MessageInv, Sent
<1>2. CASE inbox'[e] = <<>>
  BY <1>2
<1>3. ASSUME NEW m, inbox'[e] = <<m>> PROVE Len(inbox'[e]) <= 1
  <2>1. Len(<<m>>) = 1
    OBVIOUS
  <2> QED
    BY <2>1, <1>3
<1> QED
  BY <1>1, <1>2, <1>3, Zenon

\* A step in which no end finishes and none that has finished is undone.
LEMMA DoneKept ==
    ASSUME DoneInv, \A d \in Ends : hs'[d] = "done" <=> hs[d] = "done",
           UNCHANGED <<run, role, pin, secret, used>>
    PROVE  DoneInv'
<1>1. \A d \in Ends : Ek(d)' = Ek(d)
  BY DEF Ek
<1>2. ASSUME NEW e \in Ends, hs'[e] = "done"
      PROVE  /\ used'[Other(e)] = pin'[e]
             /\ role'[e] = "responder" => /\ role'[Other(e)] = "initiator"
                                          /\ secret'[e] = Encapsulate(Ek(Other(e))', e)
             /\ role'[e] = "initiator" => /\ hs'[Other(e)] = "done"
                                          /\ role'[Other(e)] = "responder"
                                          /\ secret'[Other(e)] = secret'[e]
  BY <1>1, <1>2, OtherEnd DEF DoneInv
<1> QED
  BY <1>2, Zenon DEF DoneInv

\* An end that gives up, or whose peer does not fit, keeps the invariant.
LEMMA FailStep ==
    ASSUME HandshakeInv, NEW e \in Ends, hs[e] \in {"idle", "reading"}, Fail(e)
    PROVE  HandshakeInv'
<1> USE OtherEnd DEF Fail
<1>1. StoreInv'
  BY StoreInvStep DEF HandshakeInv, TypeOK, StoreInv
<1>2. Shape'
  BY DEF HandshakeInv, Shape
<1>3. EndInv'
  BY Zenon DEF HandshakeInv, TypeOK, HandshakeTypeOK, Shape, EndInv, EndOK, Identity, storeVars
<1>4. MessageInv'
  BY Zenon DEF HandshakeInv, TypeOK, HandshakeTypeOK, Shape, MessageInv, Sent, Ek
<1>5. DoneInv'
  <2>1. \A d \in Ends : hs'[d] = "done" <=> hs[d] = "done"
    BY DEF HandshakeInv, TypeOK, HandshakeTypeOK
  <2> QED
    BY <2>1, DoneKept DEF HandshakeInv
<1>6. HandshakeTypeOK'
  BY DEF HandshakeInv, TypeOK, HandshakeTypeOK
<1> QED
  BY <1>1, <1>2, <1>3, <1>4, <1>5, <1>6 DEF StoreInv, TypeOK, HandshakeInv

\* An end that begins has the identity it signs with and is not yet awaited.
LEMMA BeginStep ==
    ASSUME HandshakeInv, NEW e \in Ends, InitiatorBegins(e) \/ ResponderBegins(e)
    PROVE  HandshakeInv'
<1> USE OtherEnd
<1>1. /\ hs[e] = "idle" /\ Identity(e) # None
      /\ hs' = [hs EXCEPT ![e] = "reading"] /\ used' = [used EXCEPT ![e] = Identity(e)]
      /\ UNCHANGED <<run, role, pin, gone, secret, storeVars>>
      /\ inbox[Other(e)] = <<>>
      /\ \/ UNCHANGED inbox
         \/ /\ role[e] = "initiator"
            /\ inbox' = [inbox EXCEPT ![Other(e)] = <<Hello("HELLO", Identity(e), Ek(e))>>]
  <2>1. hs[e] = "idle" /\ inbox[Other(e)] = <<>>
    BY DEF InitiatorBegins, ResponderBegins, Ready, HandshakeInv, EndInv, EndOK
  <2>2. CASE ResponderBegins(e)
    BY <2>1, <2>2, Zenon DEF ResponderBegins, Ready
  <2>3. CASE InitiatorBegins(e)
    <3> DEFINE msg == Hello("HELLO", Identity(e), Ek(e))
    <3>1. inbox' = [inbox EXCEPT ![Other(e)] = IF gone[Other(e)] THEN @ ELSE Append(@, msg)]
      BY <2>3 DEF InitiatorBegins, Send
    <3> HIDE DEF msg
    <3>2. Append(<<>>, msg) = <<msg>>
      OBVIOUS
    <3>3. UNCHANGED inbox \/ inbox' = [inbox EXCEPT ![Other(e)] = <<msg>>]
      BY <2>1, <3>1, <3>2, Zenon DEF HandshakeInv, Shape
    <3> QED
      BY <2>1, <2>3, <3>3, Zenon DEF InitiatorBegins, Ready, msg
  <2> QED
    BY <2>2, <2>3
<1>same. \A d \in Ends : Identity(d)' = Identity(d)
  BY <1>1 DEF Identity, storeVars
<1>2. StoreInv'
  BY <1>1, StoreInvStep DEF HandshakeInv, TypeOK, StoreInv
<1>3. Shape'
  BY <1>1 DEF HandshakeInv, Shape
<1> DEFINE o == Other(e)
<1>at. /\ hs'[e] = "reading" /\ hs'[o] = hs[o] /\ used'[e] = Identity(e) /\ used'[o] = used[o]
       /\ inbox'[e] = inbox[e]
       /\ \/ inbox'[o] = <<>>
          \/ role[e] = "initiator" /\ inbox'[o] = <<Hello("HELLO", Identity(e), Ek(e))>>
  BY <1>1 DEF HandshakeInv, TypeOK, HandshakeTypeOK, Shape
<1>4. EndInv'
  <2>1. SUFFICES ASSUME NEW d \in Ends PROVE EndOK(d)'
    BY DEF EndInv, EndOK
  <2>2. CASE d = e
    BY <1>1, <1>same, <1>at, <2>2 DEF HandshakeInv, EndInv, EndOK
  <2>3. CASE d = o
    BY <1>1, <1>same, <1>at, <2>3 DEF HandshakeInv, EndInv, EndOK
  <2> QED
    BY <2>2, <2>3
<1>5. MessageInv'
  <2>1. inbox'[o] = <<>> \/ Sent(e)'
    BY <1>1, <1>at DEF Sent, Ek
  <2>2. inbox'[e] = <<>> \/ Sent(o)'
    BY <1>1, <1>at DEF HandshakeInv, MessageInv, Sent, Ek
  <2> QED
    BY <2>1, <2>2 DEF MessageInv
<1>6. DoneInv'
  BY <1>1 DEF HandshakeInv, TypeOK, HandshakeTypeOK, EndInv, EndOK, DoneInv, Ek
<1>7. Identity(e) \in Fingerprints
  BY <1>1 DEF HandshakeInv, TypeOK, StoreTypeOK, Identity, Fingerprints
<1>8. HandshakeTypeOK'
  BY <1>1, <1>5, <1>7, OneMessage DEF HandshakeInv, TypeOK, HandshakeTypeOK
<1> QED
  BY <1>2, <1>3, <1>4, <1>5, <1>6, <1>8 DEF StoreInv, TypeOK, HandshakeInv

\* A responder that accepts a HELLO has the initiator that made it.
LEMMA ResponderStep ==
    ASSUME HandshakeInv, NEW e \in Ends, ResponderHello(e)
    PROVE  HandshakeInv'
<1> USE OtherEnd
<1> DEFINE m == Head(inbox[e])
           ct == Encapsulate(m.payload, e)
<1>1. hs[e] = "reading" /\ role[e] = "responder" /\ inbox[e] # <<>>
  BY DEF ResponderHello, Reading
<1>2. CASE ~Accepts(e, "HELLO", m)
  BY <1>1, <1>2, FailStep DEF ResponderHello
<1>3. CASE Accepts(e, "HELLO", m)
  <2>1. Sent(Other(e))
    BY <1>1 DEF HandshakeInv, MessageInv
  <2>2. /\ role[Other(e)] = "initiator" /\ used[Other(e)] = pin[e]
        /\ m.payload = Ek(Other(e))
    BY <2>1, <1>3 DEF Sent, Accepts, Hello
  <2>3. /\ secret' = [secret EXCEPT ![e] = ct] /\ hs' = [hs EXCEPT ![e] = "done"]
        /\ inbox' = [inbox EXCEPT ![e] = <<>>,
                                  ![Other(e)] = IF gone[Other(e)] THEN <<>>
                                                ELSE <<Hello("HELLO_REPLY", used[e], ct)>>]
        /\ UNCHANGED <<run, role, pin, gone, used, storeVars>>
    BY <1>1, <1>3 DEF ResponderHello, HandshakeInv, EndInv, EndOK
  <2> HIDE DEF m, ct
  <2>4. StoreInv'
    BY <2>3, StoreInvStep DEF HandshakeInv, TypeOK, StoreInv
  <2>5. Shape'
    BY <2>3, Zenon DEF HandshakeInv, Shape
  <2>same. \A d \in Ends : Identity(d)' = Identity(d)
    BY <2>3 DEF Identity, storeVars
  <2> DEFINE o == Other(e)
  <2>at. hs'[e] = "done" /\ hs'[o] = hs[o] /\ inbox'[e] = <<>>
    BY <2>3 DEF HandshakeInv, TypeOK, HandshakeTypeOK, Shape
  <2>6. EndInv'
    <3>1. SUFFICES ASSUME NEW d \in Ends PROVE EndOK(d)'
      BY DEF EndInv, EndOK
    <3>2. CASE d = e
      BY <2>at, <3>2 DEF EndOK
    <3>3. CASE d = o
      BY <1>1, <2>3, <2>same, <2>at, <3>3 DEF HandshakeInv, EndInv, EndOK
    <3> QED
      BY <3>2, <3>3
  <2>7. MessageInv'
    BY <1>1, <2>3 DEF HandshakeInv, TypeOK, HandshakeTypeOK, Shape, MessageInv, Sent
  <2>8. DoneInv'
    <3>1. ct = Encapsulate(Ek(Other(e)), e)
      BY <2>2 DEF ct
    <3> QED
      BY <1>1, <2>2, <2>3, <3>1, Zenon DEF HandshakeInv, TypeOK, HandshakeTypeOK, Shape, DoneInv, Ek
  <2>9. HandshakeTypeOK'
    BY <2>3, <2>7, OneMessage, Zenon DEF HandshakeInv, TypeOK, HandshakeTypeOK
  <2> QED
    BY <2>4, <2>5, <2>6, <2>7, <2>8, <2>9 DEF StoreInv, TypeOK, HandshakeInv
<1> QED
  BY <1>2, <1>3

\* An initiator that accepts a HELLO_REPLY has opened what the responder sealed.
LEMMA InitiatorStep ==
    ASSUME HandshakeInv, NEW e \in Ends, InitiatorReply(e)
    PROVE  HandshakeInv'
<1> USE OtherEnd
<1> DEFINE m == Head(inbox[e])
           o == Other(e)
<1>1. hs[e] = "reading" /\ role[e] = "initiator" /\ inbox[e] # <<>>
  BY DEF InitiatorReply, Reading
<1>2. CASE ~Accepts(e, "HELLO_REPLY", m)
  BY <1>1, <1>2, FailStep DEF InitiatorReply
<1>3. CASE Accepts(e, "HELLO_REPLY", m)
  <2>1. Sent(o)
    BY <1>1 DEF HandshakeInv, MessageInv
  <2>2. /\ role[o] = "responder" /\ hs[o] = "done" /\ used[o] = pin[e]
        /\ m.payload = secret[o]
    BY <2>1, <1>3 DEF Sent, Accepts, Hello
  <2>3. secret[o] = Encapsulate(Ek(e), o)
    BY <2>2 DEF HandshakeInv, DoneInv
  <2>4. Decapsulate(e, m.payload) = secret[o]
    <3>1. secret[o] \in {Encapsulate(Ek(e), d) : d \in Ends}
      BY <2>3, OtherEnd, Zenon
    <3> QED
      BY <2>2, <3>1, Zenon DEF Decapsulate
  <2>5. /\ secret' = [secret EXCEPT ![e] = secret[o]] /\ hs' = [hs EXCEPT ![e] = "done"]
        /\ inbox' = [inbox EXCEPT ![e] = <<>>]
        /\ UNCHANGED <<run, role, pin, gone, used, storeVars>>
    BY <1>3, <2>4 DEF InitiatorReply
  <2> HIDE DEF m
  <2>6. StoreInv'
    BY <2>5, StoreInvStep DEF HandshakeInv, TypeOK, StoreInv
  <2>7. Shape'
    BY <2>5, Zenon DEF HandshakeInv, Shape
  <2>8. EndInv'
    BY <1>1, <2>2, <2>5 DEF HandshakeInv, TypeOK, HandshakeTypeOK, Shape, EndInv, EndOK, Identity, storeVars
  <2>9. MessageInv'
    BY <1>1, <2>2, <2>5, Zenon DEF HandshakeInv, TypeOK, HandshakeTypeOK, Shape, MessageInv, Sent, Ek
  <2>10. DoneInv'
    BY <1>1, <2>2, <2>5, Zenon DEF HandshakeInv, TypeOK, HandshakeTypeOK, Shape, DoneInv, Ek
  <2>11. HandshakeTypeOK'
    BY <2>5 DEF HandshakeInv, TypeOK, HandshakeTypeOK
  <2> QED
    BY <2>6, <2>7, <2>8, <2>9, <2>10, <2>11 DEF StoreInv, TypeOK, HandshakeInv
<1> QED
  BY <1>2, <1>3

\* A new connection starts from nothing.
LEMMA ConnectStep == ASSUME HandshakeInv, Connect PROVE HandshakeInv'
<1> USE OtherEnd DEF Connect
<1>1. StoreInv'
  BY StoreInvStep DEF HandshakeInv, TypeOK, StoreInv
<1>2. HandshakeTypeOK'
  BY HandshakeAssumption DEF HandshakeInv, TypeOK, HandshakeTypeOK, Fingerprints
<1>3. Shape' /\ EndInv' /\ MessageInv' /\ DoneInv'
  BY DEF Shape, EndInv, EndOK, MessageInv, DoneInv
<1> QED
  BY <1>1, <1>2, <1>3 DEF StoreInv, TypeOK, HandshakeInv

\* A crash ends the handshake of end "b", and what it had finished stays finished.
LEMMA CrashStep == ASSUME HandshakeInv, CrashB PROVE HandshakeInv'
<1> USE OtherEnd
<1>1. /\ hs' = [hs EXCEPT !["b"] = IF @ = "done" THEN @ ELSE "failed"]
      /\ gone' = [gone EXCEPT !["b"] = TRUE] /\ inbox' = [inbox EXCEPT !["b"] = <<>>]
      /\ UNCHANGED <<run, role, pin, secret, used>>
  BY DEF CrashB
<1>b. "b" \in Ends /\ \A d \in Ends : d # "b" => d = "a"
  BY DEF Ends
<1>2. StoreInv'
  BY StoreInvStep DEF CrashB, HandshakeInv, TypeOK, StoreInv
<1>3. HandshakeTypeOK'
  BY <1>1, <1>b DEF HandshakeInv, TypeOK, HandshakeTypeOK
<1>4. Shape'
  BY <1>1 DEF HandshakeInv, Shape
<1>at. /\ hs'["a"] = hs["a"] /\ hs'["b"] \in {"done", "failed"}
       /\ \A d \in Ends : hs'[d] = "done" <=> hs[d] = "done"
       /\ inbox'["b"] = <<>> /\ inbox'["a"] = inbox["a"]
  BY <1>1, <1>b DEF HandshakeInv, TypeOK, HandshakeTypeOK, Shape, Ends
<1>ends. Ends = {"a", "b"} /\ Other("a") = "b" /\ Other("b") = "a"
  BY DEF Ends, Other
<1>5. EndInv'
  <2>1. EndOK("a")
    BY <1>ends DEF HandshakeInv, EndInv
  <2>2. EndOK("a")'
    BY <1>1, <1>at, <1>ends, <2>1 DEF EndOK, Identity
  <2>3. EndOK("b")'
    BY <1>at DEF EndOK
  <2> QED
    BY <1>ends, <2>2, <2>3 DEF EndInv
<1>6. MessageInv'
  <2>1. inbox["a"] = <<>> \/ Sent("b")
    BY <1>ends DEF HandshakeInv, MessageInv
  <2>2. inbox'["a"] = <<>> \/ Sent("b")'
    BY <1>1, <1>at, <1>ends, <2>1 DEF Sent, Ek
  <2> QED
    BY <1>at, <1>ends, <2>2 DEF MessageInv
<1>7. DoneInv'
  BY <1>1, <1>at, DoneKept DEF HandshakeInv
<1> QED
  BY <1>2, <1>3, <1>4, <1>5, <1>6, <1>7 DEF StoreInv, TypeOK, HandshakeInv

\* What the process does with its file leaves the handshake alone: an identity in use
\* is neither replaced nor forgotten.
LEMMA StoreStep ==
    ASSUME HandshakeInv, StoreNext \/ UNCHANGED storeVars, UNCHANGED hsVars
    PROVE  HandshakeInv'
<1> USE DEF hsVars
<1>1. StoreInv'
  BY StoreInvStep DEF HandshakeInv, TypeOK, StoreInv
<1>2. HandshakeTypeOK' /\ Shape' /\ MessageInv' /\ DoneInv'
  BY Zenon DEF HandshakeInv, TypeOK, HandshakeTypeOK, Shape, MessageInv, Sent, DoneInv, Ek
<1>3. ident # None => ident' = ident
  BY DEF StoreNext, Generate, SaveBegins, Load, SaveWrites, SaveReturns, storeVars
<1>4. EndInv'
  BY <1>3 DEF HandshakeInv, EndInv, EndOK, Identity
<1> QED
  BY <1>1, <1>2, <1>4 DEF StoreInv, TypeOK, HandshakeInv

\* Every step keeps the invariant.
LEMMA HandshakeInvStep == HandshakeInv /\ [Next]_vars => HandshakeInv'
<1> SUFFICES ASSUME HandshakeInv, [Next]_vars PROVE HandshakeInv'
  OBVIOUS
<1>1. ASSUME NEW e \in Ends, Steps(e) PROVE HandshakeInv'
  <2>1. CASE ReadEof(e) \/ GiveUp(e)
    BY <2>1, FailStep DEF ReadEof, GiveUp
  <2> QED
    BY <1>1, <2>1, BeginStep, InitiatorStep, ResponderStep DEF Steps
<1>2. CASE UNCHANGED vars
  BY <1>2, StoreStep DEF vars
<1> QED
  BY <1>1, <1>2, ConnectStep, CrashStep, StoreStep, Zenon DEF Next

\* The invariant holds for any number of connections and crashes.
THEOREM HandshakeInvariant == Spec => []HandshakeInv
  BY HandshakeInvInit, HandshakeInvStep, PTL DEF Spec

-----------------------------------------------------------------------------
(* The properties *)

\* handshake_initiator and handshake_responder return only with the peer whose
\* fingerprint they were given, for any roles, fingerprints and crashes.
THEOREM RightPeers == Spec => []RightPeer
<1>1. HandshakeInv => RightPeer
  BY DEF HandshakeInv, DoneInv, RightPeer
<1> QED
  BY <1>1, HandshakeInvariant, PTL

\* handshake_initiator returns only after the responder has, with its secret.
THEOREM RespondersFirst == Spec => []ResponderFirst
<1>1. HandshakeInv => ResponderFirst
  BY DEF HandshakeInv, DoneInv, ResponderFirst
<1> QED
  BY <1>1, HandshakeInvariant, PTL

\* The keys SecureConn.__init__ derives at the two ends fit, whichever end initiates.
THEOREM KeysAgree == Spec => []Agreement
<1>1. ASSUME HandshakeInv PROVE Agreement
  <2> SUFFICES ASSUME \A d \in Ends : hs[d] = "done", NEW e \in Ends
               PROVE  SendKey(e) = RecvKey(Other(e)) /\ SendKey(e) # SendKey(Other(e))
    BY DEF Agreement
  <2>1. Other(e) \in Ends
    BY OtherEnd
  <2>2. /\ secret[e] = secret[Other(e)]
        /\ \/ role[e] = "initiator" /\ role[Other(e)] = "responder"
           \/ role[e] = "responder" /\ role[Other(e)] = "initiator"
    BY <1>1, <2>1, OtherEnd DEF HandshakeInv, TypeOK, HandshakeTypeOK, DoneInv
  <2> QED
    BY <2>2 DEF SendKey, RecvKey, Keys
<1> QED
  BY <1>1, HandshakeInvariant, PTL

\* What save_identity has saved loads again after any crash, with its password only,
\* for any sizes of header, keys and tag.
THEOREM SavesDurable == Spec => []Durable
<1>1. ASSUME HandshakeInv PROVE Durable
  <2> SUFFICES ASSUME saved # None, ~saving, ~torn
               PROVE  /\ \A pw \in Passwords : Loads(file, pw) <=> pw = saved[2]
                      /\ file.id = saved[1]
    BY DEF Durable
  <2>1. /\ file # None /\ file.magic /\ file.version = 1 /\ file.plain = PlainSize
        /\ file.size = HeaderSize + PlainSize + TagSize
        /\ file.id = saved[1] /\ file.password = saved[2]
    BY <1>1 DEF HandshakeInv, SaveInv, FullSize
  <2>2. file.size >= HeaderSize /\ file.size - HeaderSize >= TagSize
    <3>1. file.size = HeaderSize + PlainSize + TagSize
      BY <2>1
    <3> QED
      BY <3>1, StoreAssumption
  <2> QED
    BY <2>1, <2>2, Zenon DEF Loads, Decrypts, FullSize
<1> QED
  BY <1>1, HandshakeInvariant, PTL
=============================================================================
