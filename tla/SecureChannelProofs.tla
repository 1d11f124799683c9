------------------------- MODULE SecureChannelProofs -------------------------
(***************************************************************************)
(* One direction of a SecureConn implements a byte stream, for any writers *)
(* and any number of writes, failures, timeouts and replays.               *)
(***************************************************************************)
EXTENDS SecureChannel, TLAPS

\* Position of the last byte of the i-th frame.
End(i) == IF i = 0 THEN 0 ELSE log[i].hi

\* The frames sealed so far are numbered in order and cut the stream into
\* consecutive, non-empty runs that end at the last byte written.
LogInv ==
    /\ Len(log) = sendCounter
    /\ total = End(sendCounter)
    /\ \A i \in 1 .. Len(log) :
        /\ log[i].ctr = i - 1 /\ log[i].lo = End(i - 1) + 1
        /\ log[i].lo <= log[i].hi /\ log[i].hi <= total

\* Only sealed frames travel.
WireInv ==
    \A j \in 1 .. Len(wire) : \E i \in 1 .. Len(log) : wire[j].frame = log[i]

\* The reader has opened the first recvCounter frames and returned all of them but
\* what it buffers.
ReadInv ==
    /\ recvCounter <= sendCounter
    /\ buf[2] = End(recvCounter) /\ buf[1] = count + 1

IInv == TypeOK /\ LogInv /\ WireInv /\ ReadInv

\* A new channel has sealed, sent and returned nothing.
LEMMA InitInv == Init => IInv
<1> SUFFICES ASSUME Init PROVE IInv
  OBVIOUS
<1>1. <<1, 0>> \in Run
  BY DEF Run
<1>2. log = <<>> /\ wire = <<>> /\ Len(log) = 0 /\ Len(wire) = 0
  BY DEF Init
<1>3. pending \in [Writers -> 0 .. Len(log)]
  BY <1>2 DEF Init
<1>4. log \in Seq(Frame) /\ wire \in Seq(Item)
  BY <1>2
<1>5. TypeOK
  BY <1>1, <1>3, <1>4, Zenon DEF Init, TypeOK
<1>6. LogInv /\ WireInv /\ ReadInv
  BY <1>2 DEF Init, LogInv, WireInv, ReadInv, End
<1> QED BY <1>5, <1>6 DEF IInv

\* A step that leaves log alone and puts only sealed frames on the wire.
LEMMA KeepsLog ==
    ASSUME IInv, UNCHANGED <<sendCounter, total, log>>
    PROVE  LogInv'
BY DEF IInv, LogInv, End

\* The same for the reader's half.
LEMMA KeepsRead ==
    ASSUME IInv, UNCHANGED <<sendCounter, log, recvVars>>
    PROVE  ReadInv'
BY DEF IInv, ReadInv, End, recvVars

\* Write seals the next run of bytes under the next counter.
LEMMA WriteBeginsInv ==
    ASSUME IInv, NEW w \in Writers, NEW n \in 1 .. MaxChunk, WriteBegins(w, n)
    PROVE  IInv'
<1> DEFINE f == [ctr |-> sendCounter, lo |-> total + 1, hi |-> total + n]
<1> USE ChannelAssumption
<1>1. /\ log \in Seq(Frame) /\ sendCounter \in Nat /\ total \in Nat /\ n \in Nat /\ n > 0
      /\ Len(log) = sendCounter /\ recvCounter \in Nat
  BY DEF IInv, TypeOK, LogInv
<1>2. f \in Frame
  BY <1>1 DEF Frame
<1>3. /\ log' = Append(log, f) /\ sendCounter' = sendCounter + 1 /\ total' = total + n
      /\ UNCHANGED <<wire, recvCounter, buf, count, ret, closed, faults>>
  BY DEF WriteBegins, recvVars
<1> HIDE DEF f
<1>4. /\ log' \in Seq(Frame) /\ Len(log') = sendCounter + 1 /\ log'[sendCounter + 1] = f
      /\ \A i \in 1 .. Len(log) : log'[i] = log[i]
  BY <1>1, <1>2, <1>3
<1>5. TypeOK'
  <2>1. pending' \in [Writers -> 0 .. Len(log')]
    BY <1>1, <1>4 DEF WriteBegins, IInv, TypeOK
  <2> QED BY <2>1, <1>1, <1>3, <1>4 DEF IInv, TypeOK
<1>6. \A i \in 0 .. sendCounter : End(i)' = End(i)
  BY <1>1, <1>4 DEF End
<1>7. LogInv'
  <2>1. f.ctr = sendCounter /\ f.lo = total + 1 /\ f.hi = total + n
    BY DEF f
  <2>2. total' = End(sendCounter)'
    BY <1>1, <1>3, <1>4, <2>1 DEF End
  <2>3. total = End(sendCounter)
    BY DEF IInv, LogInv
  <2>4. ASSUME NEW i \in 1 .. Len(log')
        PROVE  /\ log'[i].ctr = i - 1 /\ log'[i].lo = End(i - 1)' + 1
               /\ log'[i].lo <= log'[i].hi /\ log'[i].hi <= total'
    <3>1. CASE i = sendCounter + 1
      BY <3>1, <1>1, <1>3, <1>4, <1>6, <2>1, <2>3
    <3>2. CASE i \in 1 .. sendCounter
      <4>1. log[i] \in Frame
        BY <3>2, <1>1
      <4>2. log[i].hi \in Nat
        BY <4>1 DEF Frame
      <4> QED BY <3>2, <4>2, <1>1, <1>3, <1>4, <1>6 DEF IInv, LogInv
    <3> QED BY <3>1, <3>2, <1>1, <1>4
  <2> QED BY <1>1, <1>3, <1>4, <2>2, <2>4 DEF LogInv
<1>8. WireInv'
  BY <1>1, <1>3, <1>4, SMTT(40) DEF IInv, WireInv
<1>9. ReadInv'
  BY <1>1, <1>3, <1>4, <1>6 DEF IInv, ReadInv, End
<1> QED BY <1>5, <1>7, <1>8, <1>9 DEF IInv

\* A step of the inner connection, or one at the end of Write, that changes nothing
\* but the frames in flight.
LEMMA WireStepInv ==
    ASSUME IInv, UNCHANGED <<sendCounter, total, log, recvVars>>,
           pending' \in [Writers -> 0 .. Len(log)],
           wire' \in Seq(Item), WireInv', closed' \in BOOLEAN, faults' \in Nat
    PROVE  IInv'
<1>1. TypeOK'
  BY DEF IInv, TypeOK, recvVars
<1> QED BY <1>1, KeepsLog, KeepsRead DEF IInv

\* A frame of the log that is written, whole or cut, is a sealed frame on the wire.
LEMMA AppendsSealed ==
    ASSUME IInv, NEW i \in 1 .. Len(log), NEW b \in BOOLEAN, UNCHANGED log,
           wire' = Append(wire, [frame |-> log[i], whole |-> b])
    PROVE  wire' \in Seq(Item) /\ WireInv'
<1> DEFINE x == [frame |-> log[i], whole |-> b]
<1>1. wire \in Seq(Item) /\ log \in Seq(Frame)
  BY DEF IInv, TypeOK
<1>2. x \in Item /\ x.frame = log[i]
  BY <1>1 DEF Item
<1>3. wire' = Append(wire, x)
  OBVIOUS
<1> HIDE DEF x
<1>4. /\ wire' \in Seq(Item) /\ Len(wire') = Len(wire) + 1 /\ wire'[Len(wire) + 1] = x
      /\ \A j \in 1 .. Len(wire) : wire'[j] = wire[j]
  BY <1>1, <1>2, <1>3
<1>5. ASSUME NEW j \in 1 .. Len(wire')
      PROVE  \E h \in 1 .. Len(log) : wire'[j].frame = log[h]
  <2>1. CASE j = Len(wire) + 1
    BY <2>1, <1>2, <1>4
  <2>2. CASE j \in 1 .. Len(wire)
    BY <2>2, <1>4 DEF IInv, WireInv
  <2> QED BY <2>1, <2>2, <1>1, <1>4
<1> QED BY <1>4, <1>5 DEF WireInv

\* A reader that takes the first frame, or leaves it cut.
LEMMA TakesSealed ==
    ASSUME IInv, wire # <<>>, UNCHANGED log,
           \/ wire' = Tail(wire)
           \/ wire' = Cut(wire)
           \/ Len(wire) > 1 /\ wire' = Cut(Tail(wire))
    PROVE  wire' \in Seq(Item) /\ WireInv'
<1>1. wire \in Seq(Item)
  BY DEF IInv, TypeOK
<1>2. ASSUME NEW s \in Seq(Item), s # <<>>
      PROVE  /\ Cut(s) \in Seq(Item) /\ Len(Cut(s)) = Len(s)
             /\ \A j \in 1 .. Len(s) : Cut(s)[j].frame = s[j].frame
  <2> DEFINE x == [frame |-> s[1].frame, whole |-> FALSE]
  <2>1. s[1] \in Item
    BY <1>2
  <2>2. x \in Item /\ x.frame = s[1].frame
    BY <2>1 DEF Item
  <2>3. Cut(s) = [s EXCEPT ![1] = x]
    BY DEF Cut
  <2> HIDE DEF x
  <2> QED BY <1>2, <2>2, <2>3
<1>3. /\ Tail(wire) \in Seq(Item) /\ Len(Tail(wire)) = Len(wire) - 1
      /\ \A j \in 1 .. (Len(wire) - 1) : Tail(wire)[j] = wire[j + 1]
  BY <1>1
<1>4. \A j \in 1 .. Len(wire) : \E i \in 1 .. Len(log) : wire[j].frame = log[i]
  BY DEF IInv, WireInv
<1>5. Len(wire) \in Nat /\ \A j \in 1 .. (Len(wire) - 1) : j + 1 \in 1 .. Len(wire)
  BY <1>1
<1>6. CASE wire' = Tail(wire)
  BY <1>3, <1>4, <1>5, <1>6, SMTT(40) DEF WireInv
<1>7. CASE wire' = Cut(wire)
  BY <1>1, <1>2, <1>4, <1>7 DEF WireInv
<1>8. CASE Len(wire) > 1 /\ wire' = Cut(Tail(wire))
  <2>1. Tail(wire) # <<>>
    <3>1. Len(Tail(wire)) # 0
      BY <1>3, <1>5, <1>8, SMTT(40)
    <3>2. \A s : s = <<>> => Len(s) = 0
      OBVIOUS
    <3> QED BY <3>1, <3>2, Zenon
  <2> DEFINE t == Tail(wire)
  <2>2. /\ Cut(t) \in Seq(Item) /\ Len(Cut(t)) = Len(t)
        /\ \A j \in 1 .. Len(t) : Cut(t)[j].frame = t[j].frame
    BY <1>2, <1>3, <2>1, Zenon
  <2> QED BY <1>3, <1>4, <1>5, <1>8, <2>2 DEF WireInv
<1> QED BY <1>6, <1>7, <1>8

\* Two frames that change places are still sealed frames.
LEMMA SwapsSealed ==
    ASSUME IInv, UNCHANGED log, NEW i \in 1 .. (Len(wire) - 1),
           wire' = [wire EXCEPT ![i] = wire[i + 1], ![i + 1] = wire[i]]
    PROVE  wire' \in Seq(Item) /\ WireInv'
<1>1. wire \in Seq(Item) /\ Len(wire) \in Nat
  BY DEF IInv, TypeOK
<1>2. i \in 1 .. Len(wire) /\ i + 1 \in 1 .. Len(wire)
  BY <1>1
<1>3. /\ wire' \in Seq(Item) /\ Len(wire') = Len(wire)
      /\ \A j \in 1 .. Len(wire) : wire'[j] \in {wire[j], wire[i], wire[i + 1]}
  BY <1>1, <1>2
<1> QED BY <1>2, <1>3, SMTT(40) DEF IInv, WireInv

\* What Read does with the run lo .. hi: it returns the first bytes and buffers the
\* rest, which begins right behind them.
LEMMA ReturnRun ==
    ASSUME IInv, NEW lo \in Nat, NEW hi \in Nat, NEW k \in 1 .. MaxBuffer,
           lo = count + 1, lo <= hi, Return(lo, hi, k)
    PROVE  /\ buf' \in Run /\ ret' \in Run /\ count' \in Nat
           /\ buf'[2] = hi /\ buf'[1] = count' + 1
           /\ count' \in (count + 1) .. hi /\ ret' = <<count + 1, count'>>
<1> DEFINE last == Least(hi, lo + k - 1)
<1>1. k \in Nat /\ k > 0 /\ count \in Nat
  BY ChannelAssumption DEF IInv, TypeOK
<1>2. last \in Nat /\ lo <= last /\ last <= hi
  BY <1>1 DEF Least
<1>3. ret' = <<lo, last>> /\ count' = count + (last - lo + 1) /\ buf' = <<last + 1, hi>>
  BY DEF Return
<1> HIDE DEF last
<1>4. count' = last
  BY <1>1, <1>2, <1>3
<1> QED BY <1>1, <1>2, <1>3, <1>4 DEF Run

\* SecureConn.read from its buffer returns the bytes that follow.
LEMMA ReadBufferedInv ==
    ASSUME IInv, NEW k \in 1 .. MaxBuffer, ReadBuffered(k)
    PROVE  IInv' /\ count' \in (count + 1) .. total /\ ret' = <<count + 1, count'>>
<1>1. /\ UNCHANGED <<pending, sendCounter, total, log, wire, recvCounter, closed, faults>>
      /\ Return(buf[1], buf[2], k) /\ buf[1] <= buf[2]
  BY DEF ReadBuffered, sendVars, Buffered
<1>2. /\ buf[1] \in Nat /\ buf[2] \in Nat /\ buf[1] = count + 1 /\ buf[2] = End(recvCounter)
      /\ recvCounter \in Nat /\ sendCounter \in Nat /\ recvCounter <= sendCounter
      /\ total \in Nat /\ count \in Nat
  BY DEF IInv, TypeOK, Run, ReadInv
<1>3. /\ buf' \in Run /\ ret' \in Run /\ count' \in Nat
      /\ buf'[2] = buf[2] /\ buf'[1] = count' + 1
      /\ count' \in (count + 1) .. buf[2] /\ ret' = <<count + 1, count'>>
  BY <1>1, <1>2, ReturnRun
<1>4. buf[2] <= total
  BY <1>2 DEF IInv, LogInv, End
<1>5. TypeOK'
  BY <1>1, <1>3 DEF IInv, TypeOK
<1>6. WireInv' /\ ReadInv'
  BY <1>1, <1>2, <1>3 DEF IInv, WireInv, ReadInv, End
<1> QED BY <1>1, <1>2, <1>3, <1>4, <1>5, <1>6, KeepsLog DEF IInv

\* The frame whose counter is expected is the one that follows what was returned.
LEMMA ReadFrameInv ==
    ASSUME IInv, NEW k \in 1 .. MaxBuffer, ReadFrame(k)
    PROVE  IInv' /\ count' \in (count + 1) .. total /\ ret' = <<count + 1, count'>>
<1>1. /\ UNCHANGED <<pending, sendCounter, total, log, closed, faults>>
      /\ Return(Head1.lo, Head1.hi, k) /\ ~(buf[1] <= buf[2]) /\ wire # <<>>
      /\ Head1.ctr = recvCounter /\ wire' = Tail(wire) /\ recvCounter' = recvCounter + 1
  BY DEF ReadFrame, sendVars, Buffered, AtFrame, Expected
<1>2. /\ buf[1] \in Nat /\ buf[2] \in Nat /\ buf[1] = count + 1 /\ buf[2] = End(recvCounter)
      /\ buf[1] <= buf[2] + 1
      /\ recvCounter \in Nat /\ sendCounter \in Nat /\ recvCounter <= sendCounter
      /\ total \in Nat /\ count \in Nat /\ Len(log) = sendCounter
      /\ log \in Seq(Frame) /\ wire \in Seq(Item)
  BY DEF IInv, TypeOK, Run, ReadInv, LogInv
<1>3. 1 \in 1 .. Len(wire)
  BY <1>1, <1>2
<1>4. PICK i \in 1 .. Len(log) : Head1 = log[i]
  BY <1>3 DEF IInv, WireInv, Head1
<1>5. log[i] \in Frame
  BY <1>2
<1>6. log[i].lo \in Nat /\ log[i].hi \in Nat /\ log[i].ctr \in Nat
  BY <1>5 DEF Frame
<1>7. /\ log[i].ctr = i - 1 /\ log[i].lo = End(i - 1) + 1
      /\ log[i].lo <= log[i].hi /\ log[i].hi <= total
  BY DEF IInv, LogInv
<1>8. i = recvCounter + 1
  BY <1>1, <1>2, <1>4, <1>7
<1>9. log[i].lo = count + 1
  BY <1>1, <1>2, <1>7, <1>8
<1>10. /\ buf' \in Run /\ ret' \in Run /\ count' \in Nat
       /\ buf'[2] = log[i].hi /\ buf'[1] = count' + 1
       /\ count' \in (count + 1) .. log[i].hi /\ ret' = <<count + 1, count'>>
  BY <1>1, <1>4, <1>6, <1>7, <1>9, ReturnRun
<1>11. wire' \in Seq(Item) /\ WireInv'
  BY <1>1, TakesSealed
<1>12. TypeOK'
  BY <1>1, <1>2, <1>10, <1>11 DEF IInv, TypeOK
<1>13. ReadInv'
  BY <1>1, <1>2, <1>8, <1>10 DEF ReadInv, End
<1>14. LogInv'
  BY <1>1, KeepsLog
<1>15. count' \in (count + 1) .. total
  <2> DEFINE h == log[i].hi
  <2>1. h \in Nat /\ h <= total /\ count' \in (count + 1) .. h
    BY <1>6, <1>7, <1>10
  <2> HIDE DEF h
  <2> QED BY <1>2, <2>1
<1> QED BY <1>10, <1>11, <1>12, <1>13, <1>14, <1>15 DEF IInv

\* Every step that is not a Write or a Read of bytes changes the wire at most.
OtherStep ==
    \/ \E w \in Writers : WriteEnds(w) \/ WriteFails(w)
    \/ ReadRefused \/ ReadTooLarge \/ ReadBroken \/ ReadTimesOut \/ CloseReader
    \/ \E i \in 1 .. Len(log) : Replay(i)
    \/ \E i \in 1 .. (Len(wire) - 1) : Reorder(i)

\* The other steps keep the invariant and return nothing to the reader.
LEMMA OtherInv ==
    ASSUME IInv, OtherStep
    PROVE  IInv' /\ UNCHANGED <<total, count, ret>>
<1>1. /\ pending \in [Writers -> 0 .. Len(log)] /\ wire \in Seq(Item)
      /\ closed \in BOOLEAN /\ faults \in Nat /\ Len(log) \in Nat
  BY DEF IInv, TypeOK
<1>2. ASSUME NEW w \in Writers, WriteEnds(w) \/ WriteFails(w)
      PROVE  IInv' /\ UNCHANGED <<total, count, ret>>
  <2>1. /\ UNCHANGED <<sendCounter, total, log, recvVars, closed>>
        /\ faults' \in Nat /\ pending' \in [Writers -> 0 .. Len(log)]
    <3>1. /\ UNCHANGED <<sendCounter, total, log, recvVars, closed>>
          /\ pending' = [pending EXCEPT ![w] = 0]
      BY <1>2 DEF WriteEnds, WriteFails
    <3>2. faults' \in Nat
      BY <1>1, <1>2 DEF WriteEnds, WriteFails
    <3> QED BY <1>1, <3>1, <3>2
  <2>2. pending[w] \in 1 .. Len(log)
    BY <1>1, <1>2 DEF WriteEnds, WriteFails
  <2>3. \/ wire' = wire
        \/ \E b \in BOOLEAN : wire' = Append(wire, [frame |-> log[pending[w]], whole |-> b])
    BY <1>2, Zenon DEF WriteEnds, WriteFails
  <2>4. wire' \in Seq(Item) /\ WireInv'
    <3>1. CASE wire' = wire
      BY <3>1, <1>1, <2>1 DEF IInv, WireInv
    <3> QED BY <3>1, <2>1, <2>2, <2>3, AppendsSealed, Zenon
  <2> QED BY <1>1, <2>1, <2>4, WireStepInv DEF recvVars
<1>3. ASSUME ReadRefused \/ ReadTooLarge \/ ReadBroken \/ ReadTimesOut
      PROVE  IInv' /\ UNCHANGED <<total, count, ret>>
  <2>1. /\ UNCHANGED <<sendVars, recvVars, closed>> /\ faults' \in Nat /\ wire # <<>>
        /\ \/ wire' = Tail(wire)
           \/ wire' = Cut(wire)
           \/ Len(wire) > 1 /\ wire' = Cut(Tail(wire))
    BY <1>1, <1>3 DEF ReadRefused, ReadTooLarge, ReadBroken, ReadTimesOut, AtFrame
  <2>2. wire' \in Seq(Item) /\ WireInv'
    BY <2>1, TakesSealed DEF sendVars
  <2> QED BY <1>1, <2>1, <2>2, WireStepInv DEF sendVars, recvVars
<1>4. ASSUME CloseReader
      PROVE  IInv' /\ UNCHANGED <<total, count, ret>>
  <2>1. /\ UNCHANGED <<sendVars, wire, recvVars, faults>> /\ closed' \in BOOLEAN
    BY <1>4 DEF CloseReader
  <2>2. WireInv'
    BY <2>1 DEF IInv, WireInv, sendVars
  <2> QED BY <1>1, <2>1, <2>2, WireStepInv DEF sendVars, recvVars
<1>5. ASSUME NEW i \in 1 .. Len(log), Replay(i)
      PROVE  IInv' /\ UNCHANGED <<total, count, ret>>
  <2>1. /\ UNCHANGED <<sendVars, recvVars, closed>> /\ faults' \in Nat
        /\ wire' = Append(wire, [frame |-> log[i], whole |-> TRUE])
    BY <1>1, <1>5 DEF Replay
  <2>2. wire' \in Seq(Item) /\ WireInv'
    BY <2>1, AppendsSealed, Zenon DEF sendVars
  <2> QED BY <1>1, <2>1, <2>2, WireStepInv DEF sendVars, recvVars
<1>6. ASSUME NEW i \in 1 .. (Len(wire) - 1), Reorder(i)
      PROVE  IInv' /\ UNCHANGED <<total, count, ret>>
  <2>1. /\ UNCHANGED <<sendVars, recvVars, closed>> /\ faults' \in Nat
        /\ wire' = [wire EXCEPT ![i] = wire[i + 1], ![i + 1] = wire[i]]
    BY <1>1, <1>6 DEF Reorder
  <2>2. wire' \in Seq(Item) /\ WireInv'
    BY <2>1, SwapsSealed, Zenon DEF sendVars
  <2> QED BY <1>1, <2>1, <2>2, WireStepInv DEF sendVars, recvVars
<1> QED BY <1>2, <1>3, <1>4, <1>5, <1>6 DEF OtherStep

\* One step: the invariant is kept, and the byte stream takes a step or stutters.
LEMMA StepInv ==
    ASSUME IInv, [Next]_vars
    PROVE  IInv' /\ [Stream!Next]_(Stream!vars)
<1>1. total \in Nat /\ count \in Nat
  BY DEF IInv, TypeOK
<1>2. ASSUME NEW w \in Writers, NEW n \in 1 .. MaxChunk, WriteBegins(w, n)
      PROVE  IInv' /\ Stream!Write
  <2>1. total' = total + n /\ UNCHANGED <<count, ret>> /\ n \in Nat /\ n > 0
    BY <1>2, ChannelAssumption DEF WriteBegins, recvVars
  <2>2. Stream!Write
    BY <1>1, <2>1 DEF Stream!Write
  <2> QED BY <1>2, <2>2, WriteBeginsInv
<1>3. ASSUME NEW k \in 1 .. MaxBuffer, ReadBuffered(k) \/ ReadFrame(k)
      PROVE  IInv' /\ Stream!Read
  <2>1. IInv' /\ count' \in (count + 1) .. total /\ ret' = <<count + 1, count'>>
    BY <1>3, ReadBufferedInv, ReadFrameInv
  <2>2. UNCHANGED total
    BY <1>3 DEF ReadBuffered, ReadFrame, sendVars
  <2> QED BY <2>1, <2>2 DEF Stream!Read
<1>4. CASE OtherStep
  BY <1>4, OtherInv DEF Stream!vars
<1>5. CASE UNCHANGED vars
  <2>1. UNCHANGED <<sendVars, wire, recvVars, closed, faults>>
    BY <1>5 DEF vars, sendVars, recvVars
  <2>2. WireInv' /\ wire' \in Seq(Item) /\ pending' \in [Writers -> 0 .. Len(log)]
        /\ closed' \in BOOLEAN /\ faults' \in Nat
    BY <2>1 DEF IInv, TypeOK, WireInv, sendVars
  <2> QED BY <2>1, <2>2, WireStepInv DEF sendVars, recvVars, Stream!vars
<1> QED BY <1>2, <1>3, <1>4, <1>5 DEF Next, Reads, ReadSome, OtherStep, Stream!Next

\* The inductive invariant holds in every reachable state.
THEOREM ChannelInv == Spec => []IInv
<1>1. IInv /\ [Next]_vars => IInv'
  BY StepInv
<1> QED BY InitInv, <1>1, PTL DEF Spec

\* No two frames of one direction are sealed under the same counter, whichever
\* writes fail (SecureConn.Write takes the counter before it sends).
THEOREM NoncesDiffer == Spec => []NonceUnique
<1>1. IInv => NonceUnique
  <2> SUFFICES ASSUME IInv, NEW i \in DOMAIN log, NEW j \in DOMAIN log, log[i].ctr = log[j].ctr
               PROVE  i = j
    BY DEF NonceUnique
  <2>1. log \in Seq(Frame)
    BY DEF IInv, TypeOK
  <2>2. i \in 1 .. Len(log) /\ j \in 1 .. Len(log)
    BY <2>1
  <2>3. log[i].ctr = i - 1 /\ log[j].ctr = j - 1
    BY <2>2 DEF IInv, LogInv
  <2>4. i - 1 = j - 1
    BY <2>3, Zenon
  <2>5. i \in Nat /\ j \in Nat
    BY <2>1, <2>2
  <2> QED BY <2>4, <2>5
<1> QED BY <1>1, ChannelInv, PTL

\* The counters of both ends and the positions in the stream agree.
THEOREM EndsInStep == Spec => []InStep
<1>1. IInv => InStep
  BY SMTT(40) DEF IInv, TypeOK, Run, LogInv, ReadInv, End, InStep, Buffered
<1> QED BY <1>1, ChannelInv, PTL

\* Read returns the bytes written, in order, each once: one direction of a
\* SecureConn implements ByteStream.
THEOREM ChannelIsStream == Spec => StreamSpec
<1>1. Init => Stream!Init
  BY DEF Init, Stream!Init
<1>2. IInv /\ [Next]_vars => [Stream!Next]_(Stream!vars)
  BY StepInv
<1> QED BY <1>1, <1>2, ChannelInv, PTL DEF Spec, StreamSpec, Stream!Spec
=============================================================================
