-------------------------- MODULE TransportsProofs --------------------------
(***************************************************************************)
(* One direction of a Conn over each of the five transports, for writes    *)
(* and buffers of any size and any number of writes: every read returns    *)
(* the next bytes of the stream, and a read of 0 bytes means what          *)
(* ZeroIsEnd says.                                                         *)
(***************************************************************************)
EXTENDS Transports, TLAPS

-----------------------------------------------------------------------------
(* Chunks in a row *)

\* The chunks of s follow byte b, and each other, without a gap.
Chain(s, b) ==
    /\ s # <<>> => s[1][1] = b + 1
    /\ \A i \in 1 .. Len(s) - 1 : s[i + 1][1] = s[i][2] + 1
    /\ \A i, j \in 1 .. Len(s) : i < j => s[i][2] < s[j][1]

\* The last byte of such a row.
EndOf(s, b) == IF s = <<>> THEN b ELSE s[Len(s)][2]

Filled(s) == \A i \in 1 .. Len(s) : s[i][1] <= s[i][2]

\* A pair with a first byte of at least 1 and a last byte not further than one before
\* it is a chunk, and a chunk is such a pair.
LEMMA ChunkIs ==
    /\ \A a \in Nat \ {0}, b \in Nat : a <= b + 1 => <<a, b>> \in Chunk
    /\ \A c \in Chunk : c[1] \in Nat \ {0} /\ c[2] \in Nat /\ c[1] <= c[2] + 1
BY DEF Chunk

\* A row ends no earlier than the byte it follows.
LEMMA ChainEnd ==
    ASSUME NEW s \in Seq(Chunk), NEW b \in Nat, Chain(s, b)
    PROVE  EndOf(s, b) \in Nat /\ b <= EndOf(s, b)
<1>1. CASE s = <<>>
  BY <1>1 DEF EndOf
<1>2. CASE s # <<>>
  <2>1. Len(s) \in Nat /\ 1 \in 1 .. Len(s) /\ Len(s) \in 1 .. Len(s) /\ s[1] \in Chunk /\ s[Len(s)] \in Chunk
    BY <1>2
  <2>2. s[1][1] = b + 1 /\ (1 < Len(s) => s[1][2] < s[Len(s)][1])
    BY <1>2, <2>1 DEF Chain
  <2> QED
    BY <1>2, <2>1, <2>2, ChunkIs DEF EndOf
<1> QED
  BY <1>1, <1>2

\* A row of chunks that have bytes ends later.
LEMMA ChainFilled ==
    ASSUME NEW s \in Seq(Chunk), NEW b \in Nat, Chain(s, b), Filled(s), s # <<>>
    PROVE  b < EndOf(s, b)
<1>1. Len(s) \in Nat /\ 1 \in 1 .. Len(s) /\ Len(s) \in 1 .. Len(s) /\ s[1] \in Chunk /\ s[Len(s)] \in Chunk
  OBVIOUS
<1>2. /\ s[1][1] = b + 1 /\ (1 < Len(s) => s[1][2] < s[Len(s)][1])
      /\ s[1][1] <= s[1][2] /\ s[Len(s)][1] <= s[Len(s)][2]
  BY <1>1 DEF Chain, Filled
<1> QED
  BY <1>1, <1>2, ChunkIs DEF EndOf

\* A row may go on with the chunk that follows its end: what arrives is appended.
LEMMA ChainAppend ==
    ASSUME NEW s \in Seq(Chunk), NEW b \in Nat, Chain(s, b), NEW c \in Chunk, c[1] = EndOf(s, b) + 1
    PROVE  Chain(Append(s, c), b) /\ EndOf(Append(s, c), b) = c[2]
<1> DEFINE t == Append(s, c)
<1>1. /\ t \in Seq(Chunk) /\ Len(t) = Len(s) + 1 /\ t # <<>>
      /\ \A i \in 1 .. Len(s) : t[i] = s[i] /\ s[i] \in Chunk
      /\ t[Len(s) + 1] = c
  OBVIOUS
<1>2. Len(s) \in Nat /\ (s = <<>> <=> Len(s) = 0)
  OBVIOUS
<1> HIDE DEF t
<1>3. EndOf(t, b) = c[2]
  BY <1>1, <1>2 DEF EndOf
<1>4. t[1][1] = b + 1
  BY <1>1, <1>2 DEF Chain, EndOf
<1>5. ASSUME NEW i \in 1 .. Len(t) - 1 PROVE t[i + 1][1] = t[i][2] + 1
  <2>1. CASE i = Len(s)
    BY <2>1, <1>1, <1>2 DEF EndOf
  <2>2. CASE i < Len(s)
    BY <2>2, <1>1, <1>2 DEF Chain
  <2> QED
    BY <2>1, <2>2, <1>1, <1>2
<1>6. ASSUME NEW i \in 1 .. Len(t), NEW j \in 1 .. Len(t), i < j PROVE t[i][2] < t[j][1]
  <2>1. CASE j \in 1 .. Len(s)
    <3>1. i \in 1 .. Len(s)
      BY <2>1, <1>1, <1>2, <1>6
    <3>2. t[i] = s[i] /\ t[j] = s[j]
      BY <2>1, <3>1, <1>1, Zenon
    <3> QED
      BY <2>1, <3>1, <3>2, <1>6, Zenon DEF Chain
  <2>2. CASE j = Len(s) + 1
    <3>1. i \in 1 .. Len(s) /\ Len(s) \in 1 .. Len(s) /\ s # <<>>
      BY <2>2, <1>1, <1>2, <1>6
    <3>2. s[i] \in Chunk /\ s[Len(s)] \in Chunk /\ t[i] = s[i] /\ t[j] = c
      BY <3>1, <2>2, <1>1
    <3>3. c[1] = s[Len(s)][2] + 1
      BY <3>1 DEF EndOf
    <3>4. i < Len(s) => s[i][2] < s[Len(s)][1]
      BY <3>1 DEF Chain
    <3>5. s[i][2] \in Nat /\ s[Len(s)][1] \in Nat /\ s[Len(s)][2] \in Nat /\ s[Len(s)][1] <= s[Len(s)][2] + 1
      BY <3>2, ChunkIs
    <3>6. CASE i = Len(s)
      BY <3>2, <3>3, <3>5, <3>6
    <3>7. CASE i < Len(s)
      BY <3>2, <3>3, <3>4, <3>5, <3>7
    <3> QED
      BY <1>2, <3>1, <3>6, <3>7
  <2> QED
    BY <2>1, <2>2, <1>1, <1>2
<1> QED
  BY <1>3, <1>4, <1>5, <1>6 DEF Chain, t

\* A row without its first chunk is a row, and ends where it did.
LEMMA ChainTail ==
    ASSUME NEW s \in Seq(Chunk), NEW b \in Nat, Chain(s, b), s # <<>>
    PROVE  /\ Head(s) \in Chunk /\ Head(s)[1] = b + 1
           /\ Tail(s) \in Seq(Chunk)
           /\ Chain(Tail(s), Head(s)[2]) /\ EndOf(Tail(s), Head(s)[2]) = EndOf(s, b)
<1> DEFINE t == Tail(s)
<1>0. /\ t \in Seq(Chunk) /\ Len(s) \in Nat \ {0} /\ Len(t) = Len(s) - 1
      /\ \A i \in 1 .. Len(t) : t[i] = s[i + 1]
      /\ Head(s) = s[1] /\ Head(s) \in Chunk
  OBVIOUS
<1> HIDE DEF t
<1>1. /\ t \in Seq(Chunk) /\ Len(s) \in Nat \ {0} /\ Len(t) = Len(s) - 1 /\ (t = <<>> <=> Len(t) = 0)
      /\ \A i \in 1 .. Len(t) : t[i] = s[i + 1]
      /\ Head(s) = s[1] /\ Head(s) \in Chunk
  BY <1>0
<1>2. Chain(t, Head(s)[2])
  <2>1. t # <<>> => t[1][1] = Head(s)[2] + 1
    BY <1>1 DEF Chain
  <2>2. \A i \in 1 .. Len(t) - 1 : t[i + 1][1] = t[i][2] + 1
    BY <1>1 DEF Chain
  <2>3. ASSUME NEW i \in 1 .. Len(t), NEW j \in 1 .. Len(t), i < j PROVE t[i][2] < t[j][1]
    <3>1. i + 1 \in 1 .. Len(s) /\ j + 1 \in 1 .. Len(s) /\ i + 1 < j + 1
      BY <1>1, <2>3
    <3> QED
      BY <1>1, <3>1, Zenon DEF Chain
  <2> QED
    BY <2>1, <2>2, <2>3, Zenon DEF Chain
<1>3. EndOf(t, Head(s)[2]) = EndOf(s, b)
  BY <1>1 DEF EndOf
<1> QED
  BY <1>1, <1>2, <1>3 DEF Chain, t

\* So is what is left when the end of it is cut off, and it ends no later.
LEMMA ChainPrefix ==
    ASSUME NEW s \in Seq(Chunk), NEW b \in Nat, Chain(s, b), NEW n \in 0 .. Len(s)
    PROVE  /\ SubSeq(s, 1, n) \in Seq(Chunk)
           /\ Chain(SubSeq(s, 1, n), b)
           /\ EndOf(SubSeq(s, 1, n), b) <= EndOf(s, b)
<1> DEFINE t == SubSeq(s, 1, n)
<1>1. /\ t \in Seq(Chunk) /\ Len(t) = n /\ (t = <<>> <=> n = 0) /\ n \in Nat /\ Len(s) \in Nat
      /\ \A i \in 1 .. n : t[i] = s[i] /\ s[i] \in Chunk
      /\ s = <<>> <=> Len(s) = 0
  OBVIOUS
<1> HIDE DEF t
<1>2. Chain(t, b)
  <2>1. t # <<>> => t[1][1] = b + 1
    BY <1>1 DEF Chain
  <2>2. \A i \in 1 .. Len(t) - 1 : t[i + 1][1] = t[i][2] + 1
    BY <1>1 DEF Chain
  <2>3. \A i, j \in 1 .. Len(t) : i < j => t[i][2] < t[j][1]
    BY <1>1 DEF Chain
  <2> QED
    BY <2>1, <2>2, <2>3 DEF Chain
<1>3. EndOf(t, b) <= EndOf(s, b)
  <2>1. CASE n = 0
    BY <2>1, <1>1, ChainEnd DEF EndOf
  <2>2. CASE n # 0 /\ n # Len(s)
    <3>1. n \in 1 .. Len(s) /\ Len(s) \in 1 .. Len(s) /\ n < Len(s)
      BY <2>2, <1>1
    <3>2. s[n][2] < s[Len(s)][1] /\ s[n] \in Chunk /\ s[Len(s)] \in Chunk
      BY <3>1 DEF Chain
    <3> QED
      BY <3>1, <3>2, <1>1, ChunkIs DEF EndOf
  <2>3. CASE n # 0 /\ n = Len(s)
    <3>1. n \in 1 .. n /\ t # <<>> /\ s # <<>>
      BY <2>3, <1>1
    <3> QED
      BY <3>1, <2>3, <1>1, ChunkIs DEF EndOf
  <2> QED
    BY <2>1, <2>2, <2>3
<1>4. Filled(s) => Filled(t)
  BY <1>1 DEF Filled
<1> QED
  BY <1>1, <1>2, <1>3, <1>4 DEF t

-----------------------------------------------------------------------------
(* The inductive invariant *)

\* Every chunk still has bytes when the first one is taken, ...
LEMMA FilledTail ==
    ASSUME NEW s \in Seq(Chunk), s # <<>>
    PROVE  /\ Head(s) \in Chunk /\ Tail(s) \in Seq(Chunk)
           /\ Filled(s) => Filled(Tail(s)) /\ Head(s)[1] <= Head(s)[2]
<1> DEFINE t == Tail(s)
<1>1. /\ t \in Seq(Chunk) /\ Len(s) \in Nat \ {0} /\ Len(t) = Len(s) - 1
      /\ \A i \in 1 .. Len(t) : t[i] = s[i + 1]
      /\ Head(s) = s[1] /\ Head(s) \in Chunk
  OBVIOUS
<1> HIDE DEF t
<1>2. Filled(s) => Filled(t) /\ Head(s)[1] <= Head(s)[2]
  BY <1>1 DEF Filled
<1> QED
  BY <1>1, <1>2 DEF t

\* ... one with bytes is added, ...
LEMMA FilledAppend ==
    ASSUME NEW s \in Seq(Chunk), NEW c \in Chunk
    PROVE  /\ Append(s, c) \in Seq(Chunk)
           /\ Filled(s) /\ c[1] <= c[2] => Filled(Append(s, c))
<1> DEFINE t == Append(s, c)
<1>1. /\ t \in Seq(Chunk) /\ Len(s) \in Nat /\ Len(t) = Len(s) + 1
      /\ \A i \in 1 .. Len(s) : t[i] = s[i]
      /\ t[Len(s) + 1] = c
  OBVIOUS
<1> HIDE DEF t
<1>2. Filled(s) /\ c[1] <= c[2] => Filled(t)
  BY <1>1 DEF Filled
<1> QED
  BY <1>1, <1>2 DEF t

\* ... or the end is cut off.
LEMMA FilledPrefix ==
    ASSUME NEW s \in Seq(Chunk), NEW n \in 0 .. Len(s)
    PROVE  /\ SubSeq(s, 1, n) \in Seq(Chunk)
           /\ Filled(s) => Filled(SubSeq(s, 1, n))
<1> DEFINE t == SubSeq(s, 1, n)
<1>1. /\ t \in Seq(Chunk) /\ Len(t) = n /\ n \in Nat /\ Len(s) \in Nat
      /\ \A i \in 1 .. n : t[i] = s[i]
  OBVIOUS
<1> HIDE DEF t
<1>2. Filled(s) => Filled(t)
  BY <1>1 DEF Filled
<1> QED
  BY <1>1, <1>2 DEF t

\* The adapters over a StreamReader or a bytearray; they skip empty writes.
Streams == {"tcp", "quic", "webtransport"}

\* The last byte that read has taken from the queue.
Held == IF Buffered THEN buf[2] ELSE count

\* The last byte that has arrived.
Arrived == EndOf(queue, Held)

\* What is on its way can still arrive.
Live ==
    /\ ~lost
    /\ net \in Told => ~eof
    /\ net = "kcp" => ~closed["reader"]

\* The bytes at the reading end are a row that follows what read has returned.
ReadInv ==
    /\ Buffered => buf[1] = count + 1 /\ net \notin Streams
    /\ Chain(queue, Held)
    /\ Arrived <= total

\* The bytes on their way follow those, up to the last one written, unless a QUIC
\* connection closed by the writer has given up some.
FlightInv ==
    /\ lost => flight = <<>> /\ (net \in Told => eof)
    /\ Live => /\ Chain(flight, Arrived)
               /\ EndOf(flight, Arrived) <= total
               /\ EndOf(flight, Arrived) = total \/ (net = "quic" /\ closed["writer"])

\* Only the message adapters send an empty message.
EmptyInv ==
    /\ net \in Streams => ~empty
    /\ ~empty => Filled(flight) /\ Filled(queue)

\* The reader is told of the end when nothing follows.
EofInv ==
    eof => \/ closed["reader"] \/ lost
           \/ closed["writer"] /\ (net = "quic" \/ (flight = <<>> /\ Arrived = total))

TransportInv == TypeOK /\ ReadInv /\ FlightInv /\ EmptyInv /\ EofInv /\ ZeroIsEnd

\* The invariant holds on a new connection.
LEMMA InvInit == Init => TransportInv
<1> SUFFICES ASSUME Init PROVE TransportInv
  OBVIOUS
<1> USE TransportAssumption DEF Init
<1>1. flight \in Seq(Chunk) /\ queue \in Seq(Chunk) /\ <<1, 0>> \in Chunk
  BY ChunkIs
<1>2. total \in Nat /\ count \in 0 .. total /\ writes \in 0 .. MaxWrites
  OBVIOUS
<1>3. TypeOK
  BY <1>1, <1>2, Zenon DEF TypeOK
<1>4. ~Buffered /\ Held = 0 /\ Arrived = 0
  BY DEF Buffered, Held, Arrived, EndOf
<1>5. Chain(<<>>, 0) /\ EndOf(<<>>, 0) = 0 /\ Filled(<<>>)
  BY DEF Chain, EndOf, Filled
<1>6. ReadInv
  BY <1>4, <1>5 DEF ReadInv
<1>7. FlightInv /\ EmptyInv /\ EofInv /\ ZeroIsEnd
  BY <1>4, <1>5 DEF FlightInv, EmptyInv, EofInv, ZeroIsEnd
<1> QED
  BY <1>3, <1>6, <1>7, Zenon DEF TransportInv

-----------------------------------------------------------------------------
(* Reads *)

\* What the invariant says of the bytes at the reading end.
LEMMA AtReader ==
    ASSUME TransportInv
    PROVE  /\ count \in Nat /\ total \in Nat /\ count <= total
           /\ queue \in Seq(Chunk) /\ flight \in Seq(Chunk)
           /\ buf \in Chunk /\ buf[1] \in Nat \ {0} /\ buf[2] \in Nat
           /\ Held \in Nat /\ count <= Held /\ Chain(queue, Held)
           /\ Arrived \in Nat /\ Held <= Arrived /\ Arrived <= total
<1>1. /\ count \in Nat /\ total \in Nat /\ count <= total
      /\ queue \in Seq(Chunk) /\ flight \in Seq(Chunk) /\ buf \in Chunk
  BY DEF TransportInv, TypeOK
<1>2. buf[1] \in Nat \ {0} /\ buf[2] \in Nat
  BY <1>1, ChunkIs
<1>3. Held \in Nat /\ count <= Held
  BY <1>1, <1>2 DEF TransportInv, ReadInv, Held, Buffered
<1>4. Chain(queue, Held) /\ Arrived <= total
  BY DEF TransportInv, ReadInv
<1>5. Arrived \in Nat /\ Held <= Arrived
  BY <1>1, <1>3, <1>4, ChainEnd DEF Arrived
<1> QED
  BY <1>1, <1>2, <1>3, <1>4, <1>5

\* A read that takes the bytes it returns from the front of what has arrived keeps
\* the invariant.
LEMMA ReadKeeps ==
    ASSUME TransportInv,
           UNCHANGED <<net, writes, total, empty, flight, eof, closed, lost>>,
           count' \in 0 .. total, queue' \in Seq(Chunk), buf' \in Chunk, ret' \in Chunk,
           waiting' \in BOOLEAN, woken' \in BOOLEAN, zero' \in BOOLEAN,
           Buffered' => buf'[1] = count' + 1 /\ net \notin Streams,
           Chain(queue', Held'), Arrived' = Arrived, ~empty => Filled(queue'),
           ZeroIsEnd'
    PROVE  TransportInv'
<1>1. TypeOK'
  BY Zenon DEF TransportInv, TypeOK
<1>2. ReadInv'
  BY Zenon DEF TransportInv, ReadInv
<1>3. FlightInv'
  BY Zenon DEF TransportInv, FlightInv, Live
<1>4. EmptyInv' /\ EofInv'
  BY Zenon DEF TransportInv, EmptyInv, EofInv
<1> QED
  BY <1>1, <1>2, <1>3, <1>4, Zenon DEF TransportInv

\* What Return does with the bytes that follow those returned before.
LEMMA ReturnRun ==
    ASSUME count \in Nat, NEW hi \in Nat, count <= hi, NEW k \in 1 .. MaxBuffer, Return(count + 1, hi, k)
    PROVE  /\ count' = Least(hi, (count + 1) + k - 1) /\ count' \in Nat /\ count <= count' /\ count' <= hi
           /\ \/ count < count' /\ ret' = <<count + 1, count'>> /\ ~zero'
              \/ count' = count /\ hi = count /\ ret' = ret
           /\ waiting' \in BOOLEAN /\ woken' \in BOOLEAN /\ zero' \in BOOLEAN
<1> DEFINE last == Least(hi, (count + 1) + k - 1)
<1>1. k \in Nat /\ k > 0
  BY TransportAssumption
<1>2. last \in Nat /\ count <= last /\ last <= hi /\ (last = count => hi = count)
  BY <1>1 DEF Least
<1>3. /\ ret' = IF last < count + 1 THEN ret ELSE <<count + 1, last>>
      /\ count' = count + (last + 1 - (count + 1))
  BY Zenon DEF Return
<1>4. zero' = (last < count + 1) /\ waiting' = FALSE /\ woken' = FALSE
  BY Zenon DEF Return
<1>5. waiting' \in BOOLEAN /\ woken' \in BOOLEAN /\ zero' \in BOOLEAN
  <2>1. (last < count + 1) \in BOOLEAN
    BY <1>2
  <2> QED
    BY <1>4, <2>1, Zenon
<1>6. count' = last
  BY <1>2, <1>3
<1>7. \/ count < last /\ ~(last < count + 1) /\ ret' = <<count + 1, last>>
      \/ last = count /\ hi = count /\ ret' = ret
  BY <1>2, <1>3
<1> HIDE DEF last
<1>8. \/ count < count' /\ ret' = <<count + 1, count'>> /\ ~zero'
      \/ count' = count /\ hi = count /\ ret' = ret
  BY <1>4, <1>6, <1>7, Zenon
<1>9. count' \in Nat /\ count <= count' /\ count' <= hi
  BY <1>2, <1>6, Zenon
<1> QED
  BY <1>5, <1>6, <1>8, <1>9, Zenon DEF last

\* Bytes from everything that has arrived.
LEMMA BytesReturned ==
    ASSUME TransportInv, NEW k \in 1 .. MaxBuffer, net \in Streams, queue # <<>>, ReturnBytes(k),
           UNCHANGED <<sendVars, flight, eof, closed, lost>>
    PROVE  TransportInv' /\ (count < count' /\ ret' = <<count + 1, count'>>)
<1> DEFINE hi == queue[Len(queue)][2]
<1>1. /\ count \in Nat /\ total \in Nat /\ queue \in Seq(Chunk) /\ Held \in Nat
      /\ Chain(queue, Held) /\ Arrived \in Nat /\ Arrived <= total /\ buf \in Chunk
  BY AtReader
<1>2. ~Buffered /\ Filled(queue)
  BY Zenon DEF TransportInv, ReadInv, EmptyInv
<1>3. Held = count
  BY <1>2, Zenon DEF Held
<1>4. queue[1][1] = count + 1
  BY <1>1, <1>3, Zenon DEF Chain
<1>5. Arrived = hi
  BY Zenon DEF Arrived, EndOf
<1>6. count < hi
  BY <1>1, <1>2, <1>3, <1>5, ChainFilled DEF Arrived
<1>7. /\ Return(count + 1, hi, k)
      /\ queue' = IF Least(hi, (count + 1) + k - 1) = hi THEN <<>> ELSE <<<<Least(hi, (count + 1) + k - 1) + 1, hi>>>>
      /\ buf' = buf
  BY <1>4, Zenon DEF ReturnBytes
<1> HIDE DEF hi
<1>8. /\ count' = Least(hi, (count + 1) + k - 1) /\ count' \in Nat /\ count <= count' /\ count' <= hi
      /\ \/ count < count' /\ ret' = <<count + 1, count'>> /\ ~zero'
         \/ count' = count /\ hi = count /\ ret' = ret
      /\ waiting' \in BOOLEAN /\ woken' \in BOOLEAN /\ zero' \in BOOLEAN
  BY <1>1, <1>5, <1>6, <1>7, ReturnRun
<1>9. hi \in Nat /\ hi <= total
  BY <1>1, <1>5
<1>10. count < count' /\ ret' = <<count + 1, count'>>
  BY <1>1, <1>6, <1>8
<1>11. ~zero'
  <2>1. hi # count
    BY <1>1, <1>6, <1>9
  <2> QED
    BY <1>8, <2>1, Zenon
<1>12. ~Buffered' /\ Held' = count'
  BY <1>2, <1>7, Zenon DEF Buffered, Held
<1>13. queue' = IF count' = hi THEN <<>> ELSE <<<<count' + 1, hi>>>>
  BY <1>7, <1>8, Zenon
<1>14. /\ queue' \in Seq(Chunk) /\ Chain(queue', count') /\ EndOf(queue', count') = hi /\ Filled(queue')
  <2>1. count' \in Nat /\ count' <= hi
    BY <1>8
  <2>2. CASE count' = hi
    BY <1>13, <2>1, <2>2 DEF Chain, EndOf, Filled
  <2>3. CASE count' # hi
    <3>1. <<count' + 1, hi>> \in Chunk /\ queue' = <<<<count' + 1, hi>>>>
      BY <1>9, <1>13, <2>1, <2>3, ChunkIs
    <3>2. queue' \in Seq(Chunk) /\ Len(queue') = 1 /\ queue'[1] = <<count' + 1, hi>> /\ queue' # <<>>
      BY <3>1
    <3> QED
      BY <1>9, <2>1, <2>3, <3>2 DEF Chain, EndOf, Filled
  <2> QED
    BY <2>2, <2>3
<1>15. Arrived' = Arrived
  BY <1>5, <1>12, <1>14, Zenon DEF Arrived
<1>16. ret' \in Chunk /\ count' \in 0 .. total
  BY <1>1, <1>8, <1>9, <1>10, ChunkIs
<1>17. ZeroIsEnd'
  BY <1>11, Zenon DEF ZeroIsEnd
<1>18. Chain(queue', Held')
  BY <1>12, <1>14, Zenon
<1>19. UNCHANGED <<net, writes, total, empty, flight, eof, closed, lost>>
  BY Zenon DEF sendVars
<1>20. buf' \in Chunk
  BY <1>1, <1>7, Zenon
<1>21. TransportInv'
  BY <1>8, <1>12, <1>14, <1>15, <1>16, <1>17, <1>18, <1>19, <1>20, ReadKeeps, Zenon
<1> QED
  BY <1>10, <1>21, Zenon

\* What a read moves for its caller: the next bytes, or nothing.
Reads ==
    \/ count < count' /\ count' <= total /\ ret' = <<count + 1, count'>>
    \/ count' = count /\ ret' = ret

\* A read from the bytes that follow those returned before, up to hi, when the rest
\* is left over.
LEMMA LeftOver ==
    ASSUME TransportInv, NEW k \in 1 .. MaxBuffer, NEW hi \in Nat, count <= hi, hi <= total,
           Return(count + 1, hi, k), buf' = <<Least(hi, (count + 1) + k - 1) + 1, hi>>
    PROVE  /\ Reads /\ count' \in 0 .. total /\ ret' \in Chunk /\ buf' \in Chunk
           /\ waiting' \in BOOLEAN /\ woken' \in BOOLEAN /\ zero' \in BOOLEAN
           /\ zero' => count = hi
           /\ buf'[1] = count' + 1 /\ Held' = hi
<1>1. count \in Nat /\ total \in Nat
  BY AtReader
<1>2. /\ count' = Least(hi, (count + 1) + k - 1) /\ count' \in Nat /\ count <= count' /\ count' <= hi
      /\ \/ count < count' /\ ret' = <<count + 1, count'>> /\ ~zero'
         \/ count' = count /\ hi = count /\ ret' = ret
      /\ waiting' \in BOOLEAN /\ woken' \in BOOLEAN /\ zero' \in BOOLEAN
  BY <1>1, ReturnRun, Zenon
<1>3. buf' = <<count' + 1, hi>>
  BY <1>2, Zenon
<1>4. zero' => count = hi
  BY <1>2, Zenon
<1>5. count' \in 0 .. total /\ count' <= total
  BY <1>1, <1>2
<1>6. Reads
  BY <1>2, <1>5, Zenon DEF Reads
<1>7. ret \in Chunk
  BY Zenon DEF TransportInv, TypeOK
<1>8. count < count' => <<count + 1, count'>> \in Chunk
  BY <1>1, <1>2, ChunkIs
<1>9. ret' \in Chunk
  BY <1>2, <1>7, <1>8, Zenon
<1>10. buf' \in Chunk /\ buf'[1] = count' + 1 /\ Held' = hi
  BY <1>2, <1>3, ChunkIs DEF Held, Buffered
<1> QED
  BY <1>2, <1>4, <1>5, <1>6, <1>9, <1>10, Zenon

\* Bytes left over from the last message.
LEMMA BufferedReturned ==
    ASSUME TransportInv, NEW k \in 1 .. MaxBuffer, Buffered, ReturnBuffered(k),
           UNCHANGED <<sendVars, flight, eof, closed, lost>>
    PROVE  TransportInv' /\ Reads
<1>1. /\ count \in Nat /\ total \in Nat /\ queue \in Seq(Chunk) /\ buf[2] \in Nat
      /\ Chain(queue, Held) /\ Held <= Arrived /\ Arrived <= total /\ Held \in Nat /\ Arrived \in Nat
  BY AtReader
<1>2. buf[1] = count + 1 /\ net \notin Streams
  BY Zenon DEF TransportInv, ReadInv
<1>3. Held = buf[2]
  BY Zenon DEF Held
<1>4. count < buf[2] /\ count <= buf[2] /\ buf[2] <= total
  BY <1>1, <1>2, <1>3 DEF Buffered
<1>5. Return(count + 1, buf[2], k) /\ buf' = <<Least(buf[2], (count + 1) + k - 1) + 1, buf[2]>> /\ queue' = queue
  BY <1>2, Zenon DEF ReturnBuffered
<1>6. /\ Reads /\ count' \in 0 .. total /\ ret' \in Chunk /\ buf' \in Chunk
      /\ waiting' \in BOOLEAN /\ woken' \in BOOLEAN /\ zero' \in BOOLEAN
      /\ zero' => count = buf[2]
      /\ buf'[1] = count' + 1 /\ Held' = buf[2]
  BY <1>1, <1>4, <1>5, LeftOver, Zenon
<1>7. ~zero'
  <2>1. count # buf[2]
    BY <1>1, <1>4
  <2> QED
    BY <1>6, <2>1, Zenon
<1>8. ZeroIsEnd'
  BY <1>7, Zenon DEF ZeroIsEnd
<1>9. Chain(queue', Held') /\ Arrived' = Arrived
  BY <1>1, <1>3, <1>5, <1>6, Zenon DEF Arrived
<1>10. queue' \in Seq(Chunk) /\ (~empty => Filled(queue'))
  BY <1>1, <1>5, Zenon DEF TransportInv, EmptyInv
<1>11. UNCHANGED <<net, writes, total, empty, flight, eof, closed, lost>>
  BY Zenon DEF sendVars
<1>12. TransportInv'
  BY <1>2, <1>6, <1>8, <1>9, <1>10, <1>11, ReadKeeps, Zenon
<1> QED
  BY <1>6, <1>12, Zenon

\* Bytes of the next message.
LEMMA MessageReturned ==
    ASSUME TransportInv, NEW k \in 1 .. MaxBuffer, net \in {"websocket", "kcp"}, ~Buffered, queue # <<>>,
           ReturnMessage(k), UNCHANGED <<sendVars, flight, eof, closed, lost>>
    PROVE  TransportInv' /\ Reads
<1> DEFINE m == Head(queue)
<1>1. /\ count \in Nat /\ total \in Nat /\ queue \in Seq(Chunk)
      /\ Chain(queue, Held) /\ Arrived <= total /\ Held \in Nat /\ Arrived \in Nat
  BY AtReader
<1>2. Held = count
  BY Zenon DEF Held
<1>3. /\ Tail(queue) \in Seq(Chunk) /\ m \in Chunk /\ m[1] = Held + 1 /\ m[2] \in Nat
      /\ Chain(Tail(queue), m[2]) /\ EndOf(Tail(queue), m[2]) = EndOf(queue, Held)
      /\ Filled(queue) => Filled(Tail(queue)) /\ m[1] <= m[2]
  BY <1>1, ChainTail, FilledTail, ChunkIs
<1>4. m[2] <= EndOf(Tail(queue), m[2]) /\ EndOf(Tail(queue), m[2]) \in Nat
  BY <1>3, ChainEnd
<1>5. count <= m[2] /\ m[2] <= total
  BY <1>1, <1>2, <1>3, <1>4, ChunkIs DEF Arrived
<1>6. Return(count + 1, m[2], k) /\ buf' = <<Least(m[2], (count + 1) + k - 1) + 1, m[2]>> /\ queue' = Tail(queue)
  BY <1>2, <1>3, Zenon DEF ReturnMessage
<1> HIDE DEF m
<1>7. /\ Reads /\ count' \in 0 .. total /\ ret' \in Chunk /\ buf' \in Chunk
      /\ waiting' \in BOOLEAN /\ woken' \in BOOLEAN /\ zero' \in BOOLEAN
      /\ zero' => count = m[2]
      /\ buf'[1] = count' + 1 /\ Held' = m[2]
  BY <1>3, <1>5, <1>6, LeftOver, Zenon
<1>8. UNCHANGED <<net, writes, total, empty, flight, eof, closed, lost>>
  BY Zenon DEF sendVars
<1>9. ZeroIsEnd'
  <2>1. count = m[2] => ~(m[1] <= m[2])
    BY <1>1, <1>2, <1>3
  <2>2. zero' => empty
    BY <1>3, <1>7, <2>1, Zenon DEF TransportInv, EmptyInv
  <2> QED
    BY <1>8, <2>2, Zenon DEF ZeroIsEnd
<1>10. Chain(queue', Held') /\ Arrived' = Arrived /\ queue' \in Seq(Chunk)
  BY <1>3, <1>6, <1>7, Zenon DEF Arrived
<1>11. ~empty => Filled(queue')
  BY <1>3, <1>6, Zenon DEF TransportInv, EmptyInv
<1>12. net \notin Streams
  BY DEF Streams
<1>13. TransportInv'
  BY <1>7, <1>8, <1>9, <1>10, <1>11, <1>12, ReadKeeps, Zenon
<1> QED
  BY <1>7, <1>13, Zenon

\* A reader that has been told the end, and holds nothing more, has met it.
LEMMA AtEnd ==
    ASSUME TransportInv, queue = <<>>, eof, ~Buffered
    PROVE  closed["reader"] \/ lost \/ (closed["writer"] /\ (net = "quic" \/ count = total))
<1>1. Arrived = count
  BY DEF Arrived, EndOf, Held
<1> QED
  BY <1>1, Zenon DEF TransportInv, EofInv

\* A 0 means what it meant after a step that returns none: a closed or lost connection
\* stays so, and a writer that has closed writes nothing more.
LEMMA ZeroStays ==
    ASSUME ZeroIsEnd, UNCHANGED <<net, count, zero>>,
           closed["writer"] => closed'["writer"] /\ total' = total,
           closed["reader"] => closed'["reader"],
           lost => lost', empty => empty'
    PROVE  ZeroIsEnd'
  BY Zenon DEF ZeroIsEnd

\* A read may return 0 once the end has been met, and KcpConn.read always.
LEMMA ZeroMeans ==
    ASSUME UNCHANGED <<net, total, count, closed, lost>>,
           \/ closed["reader"] \/ lost \/ (closed["writer"] /\ (net = "quic" \/ count = total))
           \/ net = "kcp"
    PROVE  ZeroIsEnd'
  BY Zenon DEF ZeroIsEnd

\* A read that returns no bytes: it suspends, raises, or returns 0 with good reason.
LEMMA NothingReturned ==
    ASSUME TransportInv, UNCHANGED <<sendVars, flight, eof, closed, lost>>,
           UNCHANGED <<count, ret, queue, buf>>,
           waiting' \in BOOLEAN, woken' \in BOOLEAN, zero' \in BOOLEAN,
           \/ zero' = zero
           \/ closed["reader"] \/ lost \/ (closed["writer"] /\ (net = "quic" \/ count = total))
           \/ net = "kcp"
    PROVE  TransportInv' /\ Reads
<1>1. UNCHANGED <<net, writes, total, empty, flight, eof, closed, lost>>
  BY Zenon DEF sendVars
<1>2. (Buffered' <=> Buffered) /\ Held' = Held /\ Arrived' = Arrived
  BY Zenon DEF Buffered, Held, Arrived
<1>3. /\ Buffered' => buf'[1] = count' + 1 /\ net \notin Streams
      /\ Chain(queue', Held')
  BY <1>2, Zenon DEF TransportInv, ReadInv
<1>4. ~empty => Filled(queue')
  BY Zenon DEF TransportInv, EmptyInv
<1>5. ZeroIsEnd'
  <2>1. net' = net /\ total' = total /\ count' = count /\ closed' = closed /\ lost' = lost /\ empty' = empty
    BY <1>1, Zenon
  <2>2. CASE zero' = zero
    <3>1. ZeroIsEnd
      BY Zenon DEF TransportInv
    <3>2. UNCHANGED <<net, total, count, closed, lost, empty, zero>>
      BY <2>1, <2>2, Zenon
    <3> QED
      BY <3>1, <3>2, ZeroStays
  <2>3. CASE zero' # zero
    BY <2>1, <2>3, ZeroMeans, Zenon
  <2> QED
    BY <2>2, <2>3, Zenon
<1>6. count' \in 0 .. total /\ queue' \in Seq(Chunk) /\ buf' \in Chunk /\ ret' \in Chunk
  BY Zenon DEF TransportInv, TypeOK
<1>7. TransportInv'
  BY <1>1, <1>2, <1>3, <1>4, <1>5, <1>6, ReadKeeps, Zenon
<1>8. Reads
  BY Zenon DEF Reads
<1> QED
  BY <1>7, <1>8, Zenon

\* Every read method, and the timeout of KcpConn.read, keeps the invariant and moves
\* the next bytes or none.
LEMMA ReadStep ==
    ASSUME TransportInv, Read \/ KcpTimeout
    PROVE  TransportInv' /\ Reads /\ total' = total
<1> USE DEF sendVars
<1>types. waiting \in BOOLEAN /\ woken \in BOOLEAN /\ zero \in BOOLEAN
  BY Zenon DEF TransportInv, TypeOK
<1>bool. TRUE \in BOOLEAN /\ FALSE \in BOOLEAN
  OBVIOUS
<1>1. CASE KcpTimeout
  BY <1>1, <1>types, <1>bool, NothingReturned, Zenon DEF KcpTimeout, Zero
<1>2. ASSUME NEW k \in 1 .. MaxBuffer, StreamRead(k) \/ WtRead(k), net \in Streams
      PROVE  TransportInv' /\ Reads /\ total' = total
  <2>1. UNCHANGED <<sendVars, flight, eof, closed, lost>>
    BY <1>2, Zenon DEF StreamRead, WtRead
  <2>2. CASE queue # <<>> /\ ReturnBytes(k)
    <3>1. TransportInv' /\ (count < count' /\ ret' = <<count + 1, count'>>)
      BY <1>2, <2>1, <2>2, BytesReturned, Zenon
    <3>2. count' <= total'
      BY <3>1 DEF TransportInv, TypeOK
    <3> QED
      BY <2>1, <3>1, <3>2, Zenon DEF Reads
  <2>3. CASE queue = <<>> /\ eof /\ Zero
    <3>1. ~Buffered
      BY <1>2, Zenon DEF TransportInv, ReadInv
    <3> QED
      BY <2>1, <2>3, <3>1, <1>types, <1>bool, AtEnd, NothingReturned, Zenon DEF Zero
  <2>4. CASE queue = <<>> /\ ~eof /\ Suspend
    BY <2>1, <2>4, <1>types, <1>bool, NothingReturned, Zenon DEF Suspend
  <2> QED
    BY <1>2, <2>2, <2>3, <2>4, Zenon DEF StreamRead, WtRead
<1>3. ASSUME NEW k \in 1 .. MaxBuffer, WsRead(k) \/ KcpRead(k)
      PROVE  TransportInv' /\ Reads /\ total' = total
  <2>1. UNCHANGED <<sendVars, flight, eof, closed, lost>> /\ net \in {"websocket", "kcp"}
    BY <1>3, Zenon DEF WsRead, KcpRead
  <2>2. CASE Buffered /\ ReturnBuffered(k)
    BY <2>1, <2>2, BufferedReturned, Zenon
  <2>3. CASE ~Buffered /\ queue # <<>> /\ ReturnMessage(k)
    BY <2>1, <2>3, MessageReturned, Zenon
  <2>4. CASE ~Buffered /\ queue = <<>> /\ eof /\ Zero
    BY <2>1, <2>4, <1>types, <1>bool, AtEnd, NothingReturned, Zenon DEF Zero
  <2>5. CASE Suspend
    BY <2>1, <2>5, <1>types, <1>bool, NothingReturned, Zenon DEF Suspend
  <2> QED
    BY <1>3, <2>2, <2>3, <2>4, <2>5, Zenon DEF WsRead, KcpRead
<1>4. CASE ReadRaises
  BY <1>4, <1>types, <1>bool, NothingReturned, Zenon DEF ReadRaises
<1>5. CASE Read
  <2> PICK k \in 1 .. MaxBuffer : TcpRead(k) \/ QuicRead(k) \/ WsRead(k) \/ KcpRead(k) \/ WtRead(k)
    BY <1>5, Zenon DEF Read
  <2>1. CASE TcpRead(k)
    BY <2>1, <1>2, <1>4, Zenon DEF TcpRead, Streams
  <2>2. CASE QuicRead(k)
    BY <2>2, <1>2, Zenon DEF QuicRead, Streams
  <2>3. CASE WtRead(k)
    <3>1. net \in Streams
      BY <2>3, Zenon DEF WtRead, Streams
    <3> QED
      BY <2>3, <3>1, <1>2, Zenon
  <2> QED
    BY <2>1, <2>2, <2>3, <1>3, Zenon
<1> QED
  BY <1>1, <1>5, Zenon

-----------------------------------------------------------------------------
(* The sender, the network and the ends *)

\* Such a step leaves what the adapter holds.
LEMMA HeldStays ==
    ASSUME UNCHANGED readVars
    PROVE  /\ buf' = buf /\ count' = count /\ ret' = ret /\ waiting' = waiting /\ zero' = zero
           /\ (Buffered' <=> Buffered) /\ Held' = Held
           /\ queue' = queue => Arrived' = Arrived
  BY Zenon DEF readVars, Buffered, Held, Arrived

\* What is on its way on a connection that still delivers.
LEMMA OnTheWay ==
    ASSUME TransportInv, Live
    PROVE  /\ ~lost /\ Chain(flight, Arrived) /\ EndOf(flight, Arrived) \in Nat
           /\ Arrived <= EndOf(flight, Arrived) /\ EndOf(flight, Arrived) <= total
           /\ EndOf(flight, Arrived) = total \/ (net = "quic" /\ closed["writer"])
<1>1. /\ ~lost /\ Chain(flight, Arrived) /\ EndOf(flight, Arrived) <= total
      /\ EndOf(flight, Arrived) = total \/ (net = "quic" /\ closed["writer"])
  BY Zenon DEF TransportInv, FlightInv, Live
<1>2. EndOf(flight, Arrived) \in Nat /\ Arrived <= EndOf(flight, Arrived)
  BY <1>1, AtReader, ChainEnd
<1> QED
  BY <1>1, <1>2, Zenon

\* A write: its chunk follows everything that is on its way.
LEMMA SendStep ==
    ASSUME TransportInv, NEW n \in 0 .. MaxChunk, Send(n), net \in Streams => n > 0
    PROVE  TransportInv' /\ UNCHANGED <<count, ret>> /\ total' \in Nat /\ total <= total'
<1> DEFINE c == <<total + 1, total + n>>
<1>1. /\ total' = total + n /\ writes < MaxWrites /\ writes' = writes + 1 /\ ~closed["writer"]
      /\ UNCHANGED <<net, queue, eof, closed, lost, woken, readVars>>
      /\ empty' = (empty \/ n = 0)
      /\ flight' = IF lost THEN flight ELSE Append(flight, c)
  BY Zenon DEF Send
<1>2. /\ count \in Nat /\ total \in Nat /\ count <= total /\ n \in Nat
      /\ Arrived \in Nat /\ Arrived <= total /\ flight \in Seq(Chunk)
  BY AtReader, TransportAssumption
<1>3. /\ total' \in Nat /\ total <= total' /\ count \in 0 .. total' /\ Arrived <= total'
      /\ c \in Chunk /\ c[2] = total' /\ c[1] = total + 1 /\ (n # 0 => c[1] <= c[2])
  BY <1>1, <1>2, ChunkIs
<1>4. writes' \in 0 .. MaxWrites
  BY <1>1, TransportAssumption DEF TransportInv, TypeOK
<1>5. /\ Append(flight, c) \in Seq(Chunk)
      /\ Filled(flight) /\ c[1] <= c[2] => Filled(Append(flight, c))
  BY <1>2, <1>3, FilledAppend, Zenon
<1>6. /\ buf' = buf /\ count' = count /\ ret' = ret /\ waiting' = waiting /\ zero' = zero
      /\ (Buffered' <=> Buffered) /\ Held' = Held /\ Arrived' = Arrived
  BY <1>1, HeldStays, Zenon
<1>7. Live' <=> Live
  BY <1>1, Zenon DEF Live
<1>8. Live => /\ flight' = Append(flight, c)
              /\ Chain(Append(flight, c), Arrived) /\ EndOf(Append(flight, c), Arrived) = total'
  <2> SUFFICES ASSUME Live PROVE /\ flight' = Append(flight, c)
                                 /\ Chain(Append(flight, c), Arrived)
                                 /\ EndOf(Append(flight, c), Arrived) = total'
    BY Zenon
  <2>1. ~lost /\ Chain(flight, Arrived) /\ EndOf(flight, Arrived) = total
    BY <1>1, OnTheWay, Zenon
  <2> HIDE DEF c
  <2>2. c[1] = EndOf(flight, Arrived) + 1
    BY <1>3, <2>1, Zenon
  <2>3. Chain(Append(flight, c), Arrived) /\ EndOf(Append(flight, c), Arrived) = c[2]
    BY <1>2, <1>3, <2>1, <2>2, ChainAppend, Zenon
  <2> QED
    BY <1>1, <1>3, <2>1, <2>3, Zenon DEF c
<1> HIDE DEF c
<1>9. n > 0 => n # 0
  BY <1>2
<1>10. TypeOK'
  <2>1. flight' \in Seq(Chunk)
    BY <1>1, <1>2, <1>5, Zenon
  <2>2. empty' \in BOOLEAN
    BY <1>1, Zenon DEF TransportInv, TypeOK
  <2> QED
    BY <1>1, <1>3, <1>4, <1>6, <2>1, <2>2, Zenon DEF TransportInv, TypeOK
<1>11. ReadInv'
  BY <1>1, <1>3, <1>6, Zenon DEF TransportInv, ReadInv
<1>12. FlightInv'
  <2>1. lost' => flight' = <<>> /\ (net' \in Told => eof')
    BY <1>1, Zenon DEF TransportInv, FlightInv
  <2>2. total' <= total'
    BY <1>3
  <2> QED
    BY <1>1, <1>6, <1>7, <1>8, <2>1, <2>2, Zenon DEF FlightInv
<1>13. EmptyInv'
  <2>1. ~empty' => ~empty /\ n # 0
    BY <1>1, Zenon
  <2>2. net' \in Streams => ~empty'
    BY <1>1, <1>9, Zenon DEF TransportInv, EmptyInv
  <2>3. ~empty' => Filled(flight') /\ Filled(queue')
    BY <1>1, <1>3, <1>5, <2>1, Zenon DEF TransportInv, EmptyInv
  <2> QED
    BY <2>2, <2>3, Zenon DEF EmptyInv
<1>14. EofInv'
  BY <1>1, Zenon DEF TransportInv, EofInv
<1>15. ZeroIsEnd'
  BY <1>1, <1>6, ZeroStays, Zenon DEF TransportInv
<1> QED
  BY <1>3, <1>6, <1>10, <1>11, <1>12, <1>13, <1>14, <1>15, Zenon DEF TransportInv

\* Closing either end.  Nothing more is delivered to an end of TcpConn or QuicConn
\* that has closed itself, so what QuicConn.close cuts off is the end of the stream.
LEMMA CloseStep ==
    ASSUME TransportInv, NEW e \in {"writer", "reader"}, SetClosed(e),
           \/ e = "reader" /\ net \in Told /\ TellEnd
           \/ (e = "reader" => net # "quic") /\ UNCHANGED <<eof, woken>>
           \/ e = "writer" /\ UNCHANGED <<eof, woken>>,
           \/ flight' = flight
           \/ net = "quic" /\ \E n \in 0 .. Len(flight) : flight' = SubSeq(flight, 1, n)
    PROVE  TransportInv' /\ UNCHANGED <<count, ret, total>>
<1>1. /\ UNCHANGED <<net, writes, total, empty, queue, lost, readVars>>
      /\ closed' = [closed EXCEPT ![e] = TRUE]
  BY Zenon DEF SetClosed, sendVars
<1>2. /\ closed' \in [{"writer", "reader"} -> BOOLEAN] /\ closed'[e]
      /\ closed["writer"] => closed'["writer"]
      /\ closed["reader"] => closed'["reader"]
  BY <1>1, Zenon DEF TransportInv, TypeOK
<1>3. /\ buf' = buf /\ count' = count /\ ret' = ret /\ waiting' = waiting /\ zero' = zero
      /\ (Buffered' <=> Buffered) /\ Held' = Held /\ Arrived' = Arrived
  BY <1>1, HeldStays, Zenon
<1>4. eof' \in BOOLEAN /\ woken' \in BOOLEAN /\ (eof => eof') /\ (eof' => eof \/ closed'["reader"])
  BY <1>2, Zenon DEF TransportInv, TypeOK, TellEnd
<1>5. Arrived \in Nat /\ flight \in Seq(Chunk) /\ total \in Nat
  BY AtReader, Zenon
<1>6. /\ flight' \in Seq(Chunk) /\ (Filled(flight) => Filled(flight')) /\ (flight = <<>> => flight' = <<>>)
  <2>1. CASE flight' = flight
    BY <2>1, <1>5, Zenon
  <2>2. ASSUME NEW n \in 0 .. Len(flight), flight' = SubSeq(flight, 1, n)
        PROVE  flight' \in Seq(Chunk) /\ (Filled(flight) => Filled(flight')) /\ (flight = <<>> => flight' = <<>>)
    <3>1. flight' \in Seq(Chunk) /\ (Filled(flight) => Filled(flight'))
      BY <2>2, <1>5, FilledPrefix, Zenon
    <3>2. flight = <<>> => flight' = <<>>
      BY <2>2
    <3> QED
      BY <3>1, <3>2, Zenon
  <2> QED
    BY <2>1, <2>2, Zenon
<1>7. TypeOK'
  BY <1>1, <1>2, <1>3, <1>4, <1>6, Zenon DEF TransportInv, TypeOK
<1>8. ReadInv'
  BY <1>1, <1>3, Zenon DEF TransportInv, ReadInv
<1>9. Live' => Live
  BY <1>1, <1>2, <1>4, Zenon DEF Live
<1>10. FlightInv'
  <2>1. lost' => flight' = <<>> /\ (net' \in Told => eof')
    BY <1>1, <1>4, <1>6, Zenon DEF TransportInv, FlightInv
  <2>2. ASSUME Live'
        PROVE  /\ Chain(flight', Arrived) /\ EndOf(flight', Arrived) <= total
               /\ EndOf(flight', Arrived) = total \/ (net = "quic" /\ closed'["writer"])
    <3>1. Live
      BY <1>9, <2>2, Zenon
    <3>2. /\ Chain(flight, Arrived) /\ EndOf(flight, Arrived) \in Nat
          /\ EndOf(flight, Arrived) <= total
          /\ EndOf(flight, Arrived) = total \/ (net = "quic" /\ closed["writer"])
      BY <3>1, OnTheWay, Zenon
    <3>3. CASE flight' = flight
      BY <1>2, <3>2, <3>3, Zenon
    <3>4. ASSUME net = "quic", NEW n \in 0 .. Len(flight), flight' = SubSeq(flight, 1, n)
          PROVE  /\ Chain(flight', Arrived) /\ EndOf(flight', Arrived) <= total
                 /\ net = "quic" /\ closed'["writer"]
      <4>1. Chain(flight', Arrived) /\ EndOf(flight', Arrived) <= EndOf(flight, Arrived)
        BY <1>5, <3>2, <3>4, ChainPrefix, Zenon
      <4>2. EndOf(flight', Arrived) \in Nat
        BY <1>5, <1>6, <4>1, ChainEnd, Zenon
      <4>3. EndOf(flight', Arrived) <= total
        BY <1>5, <3>2, <4>1, <4>2
      <4>4. net' \in Told
        BY <1>1, <3>4, Zenon DEF Told
      <4>5. e # "reader"
        BY <2>2, <3>4, <4>4, Zenon DEF Live, TellEnd
      <4> QED
        BY <1>2, <3>4, <4>1, <4>3, <4>5, Zenon
    <3> QED
      BY <3>3, <3>4, Zenon
  <2> QED
    BY <1>1, <1>3, <2>1, <2>2, Zenon DEF FlightInv
<1>11. EmptyInv'
  BY <1>1, <1>6, Zenon DEF TransportInv, EmptyInv
<1>12. EofInv'
  <2>1. net # "quic" => flight' = flight
    BY Zenon
  <2> QED
    BY <1>1, <1>2, <1>3, <1>4, <2>1, Zenon DEF TransportInv, EofInv
<1>13. ZeroIsEnd'
  BY <1>1, <1>2, <1>3, ZeroStays, Zenon DEF TransportInv
<1> QED
  BY <1>1, <1>3, <1>7, <1>8, <1>10, <1>11, <1>12, <1>13, Zenon DEF TransportInv

\* The first chunk on its way arrives, perhaps with the end of a WebTransport stream.
LEMMA ArriveStep ==
    ASSUME TransportInv, Live, flight # <<>>,
           flight' = Tail(flight), queue' = Append(queue, Head(flight)),
           UNCHANGED <<sendVars, closed, lost, readVars>>,
           woken' \in BOOLEAN, eof' \in BOOLEAN, eof => eof',
           eof' => eof \/ (closed["writer"] /\ Tail(flight) = <<>> /\ net = "webtransport")
    PROVE  TransportInv' /\ UNCHANGED <<count, ret, total>>
<1> DEFINE c == Head(flight)
<1>1. UNCHANGED <<net, writes, total, empty, closed, lost, readVars>>
  BY Zenon DEF sendVars
<1>2. /\ buf' = buf /\ count' = count /\ ret' = ret /\ waiting' = waiting /\ zero' = zero
      /\ (Buffered' <=> Buffered) /\ Held' = Held
  BY <1>1, HeldStays, Zenon
<1>3. /\ Arrived \in Nat /\ Held \in Nat /\ Chain(queue, Held) /\ queue \in Seq(Chunk)
      /\ flight \in Seq(Chunk) /\ total \in Nat
  BY AtReader, Zenon
<1>4. /\ ~lost /\ Chain(flight, Arrived)
      /\ EndOf(flight, Arrived) \in Nat /\ EndOf(flight, Arrived) <= total
      /\ EndOf(flight, Arrived) = total \/ (net = "quic" /\ closed["writer"])
  BY OnTheWay, Zenon
<1>5. /\ c \in Chunk /\ c[1] = Arrived + 1 /\ flight' \in Seq(Chunk)
      /\ Chain(flight', c[2]) /\ EndOf(flight', c[2]) = EndOf(flight, Arrived)
  BY <1>3, <1>4, ChainTail, Zenon
<1>6. Filled(flight) => Filled(flight') /\ c[1] <= c[2]
  BY <1>3, FilledTail, Zenon
<1> HIDE DEF c
<1>7. queue' = Append(queue, c)
  BY Zenon DEF c
<1>8. queue' \in Seq(Chunk) /\ (Filled(queue) /\ c[1] <= c[2] => Filled(queue'))
  BY <1>3, <1>5, <1>7, FilledAppend, Zenon
<1>9. Chain(queue', Held) /\ EndOf(queue', Held) = c[2]
  <2>1. c[1] = EndOf(queue, Held) + 1
    BY <1>5, Zenon DEF Arrived
  <2> QED
    BY <1>3, <1>5, <1>7, <2>1, ChainAppend
<1>10. Arrived' = c[2]
  BY <1>2, <1>9, Zenon DEF Arrived
<1>11. c[2] \in Nat /\ c[2] <= total
  <2>1. c[2] \in Nat
    BY <1>5, ChunkIs
  <2>2. c[2] <= EndOf(flight', c[2])
    BY <1>5, <2>1, ChainEnd, Zenon
  <2> QED
    BY <1>3, <1>4, <1>5, <2>1, <2>2
<1>12. TypeOK'
  BY <1>1, <1>2, <1>5, <1>8, Zenon DEF TransportInv, TypeOK
<1>13. ReadInv'
  BY <1>1, <1>2, <1>9, <1>10, <1>11, Zenon DEF TransportInv, ReadInv
<1>14. FlightInv'
  <2>1. ~lost'
    BY <1>1, <1>4
  <2> QED
    BY <1>1, <1>4, <1>5, <1>10, <2>1, Zenon DEF FlightInv
<1>15. EmptyInv'
  BY <1>1, <1>6, <1>8, Zenon DEF TransportInv, EmptyInv
<1>16. EofInv'
  <2>1. CASE eof
    <3>1. net # "quic"
      BY <2>1, Zenon DEF Live, Told
    <3>2. closed["reader"]
      BY <2>1, <3>1, Zenon DEF TransportInv, EofInv, Live
    <3> QED
      BY <1>1, <3>2, Zenon DEF EofInv
  <2>2. CASE eof' /\ ~eof
    <3>1. closed["writer"] /\ flight' = <<>> /\ net # "quic"
      BY <2>2
    <3>2. EndOf(flight', c[2]) = c[2]
      BY <3>1, Zenon DEF EndOf
    <3>3. Arrived' = total
      BY <1>4, <1>5, <1>10, <3>1, <3>2, Zenon
    <3> QED
      BY <1>1, <3>1, <3>3, Zenon DEF EofInv
  <2> QED
    BY <2>1, <2>2, Zenon DEF EofInv
<1>17. ZeroIsEnd'
  <2>1. ZeroIsEnd
    BY Zenon DEF TransportInv
  <2> QED
    BY <1>1, <1>2, <2>1, ZeroStays
<1> QED
  BY <1>1, <1>2, <1>12, <1>13, <1>14, <1>15, <1>16, <1>17, Zenon DEF TransportInv

\* The reader is told the end: the peer has closed and its data has arrived, this end
\* has closed, or the connection is lost and what was on its way with it.
LEMMA EndStep ==
    ASSUME TransportInv, UNCHANGED <<sendVars, queue, closed, readVars>>,
           eof' \in BOOLEAN, woken' \in BOOLEAN, eof => eof', lost' \in BOOLEAN, lost => lost',
           \/ lost' /\ flight' = <<>> /\ (net \in Told => eof')
           \/ /\ flight' = flight /\ lost' = lost /\ ~lost /\ (net \in Told => ~eof) /\ net # "kcp"
              /\ (flight = <<>> /\ closed["writer"]) \/ closed["reader"]
    PROVE  TransportInv' /\ UNCHANGED <<count, ret, total>>
<1>1. UNCHANGED <<net, writes, total, empty, queue, closed, readVars>>
  BY Zenon DEF sendVars
<1>2. /\ buf' = buf /\ count' = count /\ ret' = ret /\ waiting' = waiting /\ zero' = zero
      /\ (Buffered' <=> Buffered) /\ Held' = Held /\ Arrived' = Arrived
  BY <1>1, HeldStays, Zenon
<1>3. flight \in Seq(Chunk) /\ <<>> \in Seq(Chunk) /\ Filled(<<>>)
  BY AtReader DEF Filled
<1>4. TypeOK'
  BY <1>1, <1>2, <1>3, Zenon DEF TransportInv, TypeOK
<1>5. ReadInv'
  BY <1>1, <1>2, Zenon DEF TransportInv, ReadInv
<1>6. FlightInv'
  <2>1. lost' => flight' = <<>> /\ (net' \in Told => eof')
    BY <1>1, Zenon
  <2>2. Live' => Live /\ flight' = flight
    BY <1>1, Zenon DEF Live
  <2>3. Live => /\ Chain(flight, Arrived) /\ EndOf(flight, Arrived) <= total
                /\ EndOf(flight, Arrived) = total \/ (net = "quic" /\ closed["writer"])
    BY OnTheWay, Zenon
  <2> QED
    BY <1>1, <1>2, <2>1, <2>2, <2>3, Zenon DEF FlightInv
<1>7. EmptyInv'
  BY <1>1, <1>3, Zenon DEF TransportInv, EmptyInv
<1>8. EofInv'
  <2>1. CASE lost' \/ closed["reader"]
    BY <1>1, <2>1, Zenon DEF EofInv
  <2>2. CASE /\ flight' = flight /\ ~lost /\ (net \in Told => ~eof) /\ net # "kcp"
             /\ flight = <<>> /\ closed["writer"]
    <3>1. Live
      BY <2>2, Zenon DEF Live
    <3>2. EndOf(flight, Arrived) = Arrived
      BY <2>2, Zenon DEF EndOf
    <3>3. net = "quic" \/ Arrived = total
      BY <3>1, <3>2, OnTheWay, Zenon
    <3> QED
      BY <1>1, <1>2, <2>2, <3>3, Zenon DEF EofInv
  <2> QED
    BY <2>1, <2>2, Zenon
<1>9. ZeroIsEnd'
  <2>1. ZeroIsEnd
    BY Zenon DEF TransportInv
  <2> QED
    BY <1>1, <1>2, <2>1, ZeroStays
<1> QED
  BY <1>1, <1>2, <1>4, <1>5, <1>6, <1>7, <1>8, <1>9, Zenon DEF TransportInv

\* KcpConn drops what arrives after it was closed.
LEMMA DropStep ==
    ASSUME TransportInv, net = "kcp", closed["reader"], flight # <<>>, flight' = Tail(flight),
           UNCHANGED <<sendVars, queue, woken, eof, closed, lost, readVars>>
    PROVE  TransportInv' /\ UNCHANGED <<count, ret, total>>
<1>1. UNCHANGED <<net, writes, total, empty, queue, woken, eof, closed, lost, readVars>>
  BY Zenon DEF sendVars
<1>2. /\ buf' = buf /\ count' = count /\ ret' = ret /\ waiting' = waiting /\ zero' = zero
      /\ (Buffered' <=> Buffered) /\ Held' = Held /\ Arrived' = Arrived
  BY <1>1, HeldStays, Zenon
<1>3. flight' \in Seq(Chunk) /\ (Filled(flight) => Filled(flight'))
  BY AtReader, FilledTail, Zenon
<1>4. TypeOK'
  BY <1>1, <1>2, <1>3, Zenon DEF TransportInv, TypeOK
<1>5. ReadInv'
  BY <1>1, <1>2, Zenon DEF TransportInv, ReadInv
<1>6. FlightInv'
  <2>1. ~lost
    BY Zenon DEF TransportInv, FlightInv
  <2>2. closed'["reader"] /\ net' = "kcp" /\ ~lost'
    BY <1>1, <2>1
  <2>3. ~Live'
    BY <2>2, Zenon DEF Live
  <2> QED
    BY <2>2, <2>3, Zenon DEF FlightInv
<1>7. EmptyInv'
  BY <1>1, <1>3, Zenon DEF TransportInv, EmptyInv
<1>8. EofInv'
  BY <1>1, Zenon DEF EofInv
<1>9. ZeroIsEnd'
  <2>1. ZeroIsEnd
    BY Zenon DEF TransportInv
  <2> QED
    BY <1>1, <1>2, <2>1, ZeroStays
<1> QED
  BY <1>1, <1>2, <1>4, <1>5, <1>6, <1>7, <1>8, <1>9, Zenon DEF TransportInv

-----------------------------------------------------------------------------
(* Every step *)

\* Bytes are written or read, or neither, and never taken back.
Moves ==
    \/ Reads /\ total' = total
    \/ UNCHANGED <<count, ret>> /\ total' \in Nat /\ total <= total'

\* Every step of either end, of the libraries and of the network keeps the invariant.
LEMMA InvStep ==
    ASSUME TransportInv, Next
    PROVE  TransportInv' /\ Moves
<1>types. /\ waiting \in BOOLEAN /\ woken \in BOOLEAN /\ eof \in BOOLEAN /\ lost \in BOOLEAN
          /\ closed["writer"] \in BOOLEAN /\ closed["reader"] \in BOOLEAN
  BY DEF TransportInv, TypeOK
<1>same. total \in Nat /\ total <= total
  BY AtReader
<1>still. ASSUME TransportInv', UNCHANGED <<count, ret, total>>
          PROVE  TransportInv' /\ Moves
  BY <1>still, <1>same, Zenon DEF Moves
<1>1. CASE Read \/ KcpTimeout
  BY <1>1, ReadStep, Zenon DEF Moves
<1>2. CASE Write
  <2> PICK n \in 0 .. MaxChunk : TcpWrite(n) \/ QuicWrite(n) \/ WsWrite(n) \/ KcpWrite(n) \/ WtWrite(n)
    BY <1>2, Zenon DEF Write
  <2>1. Send(n) /\ (net \in Streams => n > 0)
    BY DEF TcpWrite, QuicWrite, WsWrite, KcpWrite, WtWrite, Streams
  <2> QED
    BY <2>1, SendStep, Zenon DEF Moves
<1>3. CASE Close
  <2> PICK e \in {"writer", "reader"} : TcpClose(e) \/ QuicClose(e) \/ WsClose(e) \/ KcpClose(e) \/ WtClose(e)
    BY <1>3, Zenon DEF Close
  <2>1. SetClosed(e)
    BY Zenon DEF TcpClose, QuicClose, WsClose, KcpClose, WtClose
  <2>2. \/ e = "reader" /\ net \in Told /\ TellEnd
        \/ (e = "reader" => net # "quic") /\ UNCHANGED <<eof, woken>>
        \/ e = "writer" /\ UNCHANGED <<eof, woken>>
    BY DEF TcpClose, QuicClose, WsClose, KcpClose, WtClose, Told
  <2>3. \/ flight' = flight
        \/ net = "quic" /\ \E n \in 0 .. Len(flight) : flight' = SubSeq(flight, 1, n)
    BY Zenon DEF TcpClose, QuicClose, WsClose, KcpClose, WtClose
  <2> QED
    BY <2>1, <2>2, <2>3, CloseStep, <1>still, Zenon
<1>4. CASE Arrive
  <2>1. Live
    BY <1>4 DEF Arrive, Live, Told, TransportInv, FlightInv
  <2> QED
    BY <1>4, <1>types, <2>1, ArriveStep, <1>still, Zenon DEF Arrive
<1>5. CASE EndArrives
  <2>1. ~lost
    BY <1>5, Zenon DEF EndArrives, TransportInv, FlightInv
  <2>2. /\ UNCHANGED <<sendVars, flight, queue, closed, lost, readVars>> /\ eof' = TRUE /\ woken' = waiting
        /\ net \in Told /\ ~eof
        /\ (flight = <<>> /\ closed["writer"]) \/ closed["reader"]
    BY <1>5, Zenon DEF EndArrives, TellEnd
  <2>3. net # "kcp"
    BY <2>2 DEF Told
  <2> QED
    BY <1>types, <2>1, <2>2, <2>3, EndStep, <1>still, Zenon
<1>6. CASE KcpOnData
  <2>1. CASE closed["reader"]
    BY <1>6, <2>1, DropStep, <1>still, Zenon DEF KcpOnData
  <2>2. CASE ~closed["reader"]
    <3>1. Live
      BY <1>6, <2>2 DEF KcpOnData, Live, Told, TransportInv, FlightInv
    <3>2. /\ flight # <<>> /\ flight' = Tail(flight) /\ queue' = Append(queue, Head(flight))
          /\ woken' \in {woken, waiting} /\ UNCHANGED <<sendVars, eof, closed, lost, readVars>>
      BY <1>6, <2>2, Zenon DEF KcpOnData
    <3> QED
      BY <1>types, <3>1, <3>2, ArriveStep, <1>still, Zenon
  <2> QED
    BY <2>1, <2>2, Zenon
<1>7. CASE WtFeedData
  <2>1. /\ net = "webtransport" /\ ~lost /\ woken' = waiting
        /\ UNCHANGED <<sendVars, closed, lost, readVars>>
    BY <1>7, Zenon DEF WtFeedData, FeedData
  <2>2. Live /\ net \notin Told /\ net # "kcp"
    BY <2>1 DEF Live, Told
  <2>3. CASE flight # <<>> /\ flight' = Tail(flight)
             /\ \E ended \in {FALSE, closed["writer"] /\ Len(flight) = 1} : FeedData(<<Head(flight)>>, ended)
    <3> PICK ended \in {FALSE, closed["writer"] /\ Len(flight) = 1} : FeedData(<<Head(flight)>>, ended)
      BY <2>3, Zenon
    <3>1. queue' = queue \o <<Head(flight)>> /\ eof' = (eof \/ ended)
      BY Zenon DEF FeedData
    <3>2. flight \in Seq(Chunk) /\ queue \in Seq(Chunk)
      BY AtReader, Zenon
    <3>3. Head(flight) \in Chunk
      BY <2>3, <3>2, FilledTail, Zenon
    <3>4. queue' = Append(queue, Head(flight))
      BY <3>1, <3>2, <3>3
    <3>5. Len(flight) = 1 => Tail(flight) = <<>>
      <4> DEFINE t == Tail(flight)
      <4>1. t \in Seq(Chunk) /\ Len(t) = Len(flight) - 1
        BY <2>3, <3>2
      <4> HIDE DEF t
      <4>2. Len(flight) = 1 => t = <<>>
        BY <4>1
      <4> QED
        BY <4>2, Zenon DEF t
    <3>6. eof' \in BOOLEAN /\ (eof => eof') /\ (eof' => eof \/ (closed["writer"] /\ Len(flight) = 1))
      BY <3>1, <1>types, Zenon
    <3> QED
      BY <1>types, <2>1, <2>2, <2>3, <3>4, <3>5, <3>6, ArriveStep, <1>still, Zenon
  <2>4. CASE flight = <<>> /\ closed["writer"] /\ ~eof /\ FeedData(<<>>, TRUE) /\ UNCHANGED flight
    <3>1. queue' = queue \o <<>> /\ eof' = TRUE
      BY <2>4, Zenon DEF FeedData
    <3>2. queue' = queue
      BY <3>1, AtReader
    <3> QED
      BY <1>types, <2>1, <2>2, <2>4, <3>1, <3>2, EndStep, <1>still, Zenon
  <2> QED
    BY <1>7, <2>3, <2>4, Zenon DEF WtFeedData
<1>8. CASE Lose
  <2>1. /\ lost' = TRUE /\ flight' = <<>> /\ UNCHANGED <<sendVars, queue, closed, readVars>>
        /\ (net \in Told => eof') /\ (eof => eof') /\ eof' \in BOOLEAN /\ woken' \in BOOLEAN
    BY <1>8, <1>types, Zenon DEF Lose, TellEnd
  <2> QED
    BY <2>1, EndStep, <1>still, Zenon
<1> QED
  BY <1>1, <1>2, <1>3, <1>4, <1>5, <1>6, <1>7, <1>8, Zenon DEF Next, Deliver

\* The invariant holds in every state of every execution, with any number of bytes.
LEMMA Invariant == Spec => []TransportInv
<1>1. Init => TransportInv
  BY InvInit, Zenon
<1>2. TransportInv /\ [Next]_vars => TransportInv'
  <2> SUFFICES ASSUME TransportInv, [Next]_vars PROVE TransportInv'
    BY Zenon
  <2>1. CASE Next
    BY <2>1, InvStep, Zenon
  <2>2. CASE UNCHANGED vars
    <3> USE <2>2 DEF vars
    <3>1. TypeOK'
      BY Zenon DEF TransportInv, TypeOK
    <3>2. (Buffered' <=> Buffered) /\ Held' = Held /\ Arrived' = Arrived /\ (Live' <=> Live)
      BY Zenon DEF Buffered, Held, Arrived, Live
    <3>3. ReadInv'
      BY <3>2, Zenon DEF TransportInv, ReadInv
    <3>4. FlightInv'
      BY <3>2, Zenon DEF TransportInv, FlightInv
    <3>5. EmptyInv' /\ EofInv' /\ ZeroIsEnd'
      BY <3>2, Zenon DEF TransportInv, EmptyInv, EofInv, ZeroIsEnd
    <3> QED
      BY <3>1, <3>3, <3>4, <3>5, Zenon DEF TransportInv
  <2> QED
    BY <2>1, <2>2, Zenon
<1> QED
  BY <1>1, <1>2, PTL DEF Spec

\* Over each of the five transports the state of either end stays well formed: read
\* never returns more than has been written, and what is left over, queued or on its
\* way are runs of bytes.
THEOREM TransportTypes == Spec => []TypeOK
<1>1. TransportInv => TypeOK
  BY Zenon DEF TransportInv
<1> QED
  BY <1>1, Invariant, PTL

\* A read that returns 0 has met the end, whatever the transport, the sizes and number
\* of writes and reads, and the order of closing, losing and delivering.
THEOREM ZeroIsEndAlways == Spec => []ZeroIsEnd
<1>1. TransportInv => ZeroIsEnd
  BY Zenon DEF TransportInv
<1> QED
  BY <1>1, Invariant, PTL

\* The five adapters implement the byte stream: every read of TcpConn, QuicConn, WsConn,
\* KcpConn and WebTransportConn returns the bytes that follow those returned before.
THEOREM TransportsAreStreams == Spec => StreamSpec
<1>1. Init => Stream!Init
  BY Zenon DEF Init, Stream!Init
<1>2. TransportInv /\ [Next]_vars => [Stream!Next]_(Stream!vars)
  <2> SUFFICES ASSUME TransportInv, [Next]_vars PROVE [Stream!Next]_(Stream!vars)
    BY Zenon
  <2> USE DEF Stream!Next, Stream!vars
  <2>1. CASE UNCHANGED vars
    BY <2>1, Zenon DEF vars
  <2>2. CASE Next
    <3>1. TransportInv' /\ Moves
      BY <2>2, InvStep, Zenon
    <3>2. count \in Nat /\ total \in Nat
      BY AtReader, Zenon
    <3>3. count' \in Nat
      BY <3>1 DEF TransportInv, TypeOK
    <3>4. CASE Reads /\ total' = total
      <4>1. CASE count < count' /\ count' <= total /\ ret' = <<count + 1, count'>>
        <5>1. count' \in (count + 1) .. total
          BY <3>2, <3>3, <4>1
        <5> QED
          BY <3>4, <4>1, <5>1, Zenon DEF Stream!Read
      <4>2. CASE count' = count /\ ret' = ret
        BY <3>4, <4>2, Zenon
      <4> QED
        BY <3>4, <4>1, <4>2, Zenon DEF Reads
    <3>5. CASE UNCHANGED <<count, ret>> /\ total' \in Nat /\ total <= total'
      <4>1. CASE total' = total
        BY <3>5, <4>1, Zenon
      <4>2. CASE total' # total
        <5>1. total' > total
          BY <3>2, <3>5, <4>2
        <5> QED
          BY <3>5, <5>1, Zenon DEF Stream!Write
      <4> QED
        BY <4>1, <4>2, Zenon
    <3> QED
      BY <3>1, <3>4, <3>5, Zenon DEF Moves
  <2> QED
    BY <2>1, <2>2, Zenon
<1> QED
  BY <1>1, <1>2, Invariant, PTL DEF Spec, StreamSpec, Stream!Spec
=============================================================================
