----------------------------- MODULE Transports -----------------------------
(***************************************************************************)
(* One direction of a Conn over each of the five transports: the adapter   *)
(* that writes, the library and the network in between, and the adapter    *)
(* that reads.                                                             *)
(* (uniconn-py/uniconn: tcp/conn.py, quic/conn.py, websocket/conn.py,      *)
(* kcp/__init__.py, webtransport/conn.py)                                  *)
(*                                                                         *)
(* Bytes are named by their position in the stream; a chunk is the first   *)
(* and last byte of one write, and an empty write has last = first - 1.    *)
(* Both ends use the same class.  One task reads, as SecureConn's read     *)
(* lock guarantees, so read is a step that returns or suspends, and a step *)
(* that resumes once it has been woken.                                    *)
(***************************************************************************)
EXTENDS Naturals, Sequences

CONSTANTS
    Networks,    \* the transports to look at
    MaxChunk,    \* bound: bytes of one write
    MaxWrites,   \* bound: calls of write
    MaxBuffer    \* bound: bytes of one read

ASSUME TransportAssumption ==
    /\ Networks \subseteq {"tcp", "quic", "websocket", "kcp", "webtransport"}
    /\ MaxChunk \in Nat /\ MaxWrites \in Nat /\ MaxBuffer \in Nat

VARIABLES
    net,       \* the transport of this connection
    writes,    \* calls of write
    total,     \* bytes written
    empty,     \* an empty message has been written
    flight,    \* chunks on their way
    queue,     \* chunks the library or the adapter holds for the reader
    buf,       \* _recv_buf or _read_buf: first and last byte left over
    eof,       \* the reader has been told that nothing follows
    closed,    \* _closed of either end
    lost,      \* the network has dropped the connection
    waiting,   \* read is suspended
    woken,     \* and has been woken
    count,     \* bytes returned by read
    ret,       \* first and last byte of the latest read that returned any
    zero       \* the latest read returned 0

vars == <<net, writes, total, empty, flight, queue, buf, eof, closed, lost, waiting, woken, count, ret, zero>>
sendVars == <<net, writes, total, empty>>
readVars == <<buf, waiting, count, ret, zero>>

Chunk == {r \in (Nat \ {0}) \X Nat : r[1] <= r[2] + 1}

TypeOK ==
    /\ net \in Networks /\ writes \in 0 .. MaxWrites
    /\ total \in Nat /\ count \in 0 .. total
    /\ flight \in Seq(Chunk) /\ queue \in Seq(Chunk)
    /\ buf \in Chunk /\ ret \in Chunk
    /\ closed \in [{"writer", "reader"} -> BOOLEAN]
    /\ eof \in BOOLEAN /\ lost \in BOOLEAN /\ waiting \in BOOLEAN
    /\ woken \in BOOLEAN /\ zero \in BOOLEAN /\ empty \in BOOLEAN

Init ==
    /\ net \in Networks
    /\ writes = 0 /\ total = 0 /\ empty = FALSE
    /\ flight = <<>> /\ queue = <<>> /\ buf = <<1, 0>>
    /\ eof = FALSE /\ closed = [e \in {"writer", "reader"} |-> FALSE] /\ lost = FALSE
    /\ waiting = FALSE /\ woken = FALSE
    /\ count = 0 /\ ret = <<1, 0>> /\ zero = FALSE

-----------------------------------------------------------------------------
(* What the five read methods have in common *)

\* A read starts on an open connection; one that was suspended goes on if woken,
\* and does not look at _closed again.
Enters == IF waiting THEN woken ELSE ~closed["reader"]

Least(a, b) == IF a <= b THEN a ELSE b

\* Return what fits into k of the bytes lo .. hi; the caller keeps the rest.
Return(lo, hi, k) ==
    LET last == Least(hi, lo + k - 1) IN
    /\ ret' = IF last < lo THEN ret ELSE <<lo, last>>
    /\ count' = count + (last + 1 - lo)
    /\ zero' = (last < lo)
    /\ waiting' = FALSE /\ woken' = FALSE

Zero ==
    /\ zero' = TRUE /\ waiting' = FALSE /\ woken' = FALSE
    /\ UNCHANGED <<count, ret, queue, buf>>

Suspend ==
    /\ waiting' = TRUE /\ woken' = FALSE
    /\ UNCHANGED <<zero, count, ret, queue, buf>>

\* Bytes from everything that has arrived: a StreamReader, or a bytearray.
ReturnBytes(k) ==
    LET lo == queue[1][1]
        hi == queue[Len(queue)][2]
        last == Least(hi, lo + k - 1)
    IN /\ Return(lo, hi, k)
       /\ queue' = IF last = hi THEN <<>> ELSE <<<<last + 1, hi>>>>
       /\ UNCHANGED buf

Buffered == buf[1] <= buf[2]

\* Bytes left over from the last message.
ReturnBuffered(k) ==
    /\ Return(buf[1], buf[2], k)
    /\ buf' = <<Least(buf[2], buf[1] + k - 1) + 1, buf[2]>>
    /\ UNCHANGED queue

\* Mutant of ReturnMessage: what does not fit is dropped.
ReturnMessageDrop(k) ==
    LET m == Head(queue) IN
    /\ Return(m[1], m[2], k)
    /\ buf' = <<m[2] + 1, m[2]>>
    /\ queue' = Tail(queue)

\* Bytes of the next message; what does not fit is left over.
ReturnMessage(k) ==
    LET m == Head(queue) IN
    /\ Return(m[1], m[2], k)
    /\ buf' = <<Least(m[2], m[1] + k - 1) + 1, m[2]>>
    /\ queue' = Tail(queue)

\* A write of n bytes is handed to the library.
Send(n) ==
    /\ writes < MaxWrites /\ ~closed["writer"]
    /\ writes' = writes + 1 /\ total' = total + n /\ empty' = (empty \/ n = 0)
    /\ flight' = IF lost THEN flight ELSE Append(flight, <<total + 1, total + n>>)
    /\ UNCHANGED <<net, queue, eof, closed, lost, woken, readVars>>

SetClosed(e) ==
    /\ ~closed[e]
    /\ closed' = [closed EXCEPT ![e] = TRUE]
    /\ UNCHANGED <<sendVars, queue, lost, readVars>>

\* The library tells the reader that nothing follows.
TellEnd == eof' = TRUE /\ woken' = waiting

-----------------------------------------------------------------------------
(* TcpConn and QuicConn: StreamReader and StreamWriter *)

StreamRead(k) ==
    /\ Enters
    /\ \/ queue # <<>> /\ ReturnBytes(k)
       \/ queue = <<>> /\ eof /\ Zero
       \/ queue = <<>> /\ ~eof /\ Suspend
    /\ UNCHANGED <<sendVars, flight, eof, closed, lost>>

\* A transport error is raised to the caller, before anything still buffered.
ReadRaises ==
    /\ Enters
    /\ waiting' = FALSE /\ woken' = FALSE
    /\ UNCHANGED <<sendVars, flight, queue, buf, eof, closed, lost, count, ret, zero>>

TcpRead(k) == net = "tcp" /\ IF lost THEN ReadRaises ELSE StreamRead(k)
TcpWrite(n) == net = "tcp" /\ n > 0 /\ Send(n)

\* writer.close() flushes; at the reading end it ends a suspended read.
TcpClose(e) ==
    /\ net = "tcp"
    /\ SetClosed(e)
    /\ IF e = "reader" THEN TellEnd ELSE UNCHANGED <<eof, woken>>
    /\ UNCHANGED flight

QuicRead(k) == net = "quic" /\ StreamRead(k)
QuicWrite(n) == net = "quic" /\ n > 0 /\ Send(n)

\* protocol.close() follows writer.close() at once: what has not been sent yet, or
\* was lost on the way, is given up.
QuicClose(e) ==
    /\ net = "quic"
    /\ SetClosed(e)
    /\ IF e = "reader" THEN TellEnd ELSE UNCHANGED <<eof, woken>>
    /\ \E n \in 0 .. Len(flight) : flight' = SubSeq(flight, 1, n)

-----------------------------------------------------------------------------
(* WsConn: messages *)

\* An empty message reads as 0, and so does every error of recv().
WsRead(k) ==
    /\ net = "websocket"
    /\ Enters
    /\ \/ ~waiting /\ Buffered /\ ReturnBuffered(k)
       \/ ~Buffered /\ queue # <<>> /\ ReturnMessage(k)
       \/ ~Buffered /\ queue = <<>> /\ eof /\ Zero
       \/ ~Buffered /\ queue = <<>> /\ ~eof /\ Suspend
    /\ UNCHANGED <<sendVars, flight, eof, closed, lost>>

WsWrite(n) == net = "websocket" /\ Send(n)

WsClose(e) ==
    /\ net = "websocket"
    /\ SetClosed(e)
    /\ UNCHANGED <<flight, eof, woken>>

-----------------------------------------------------------------------------
(* KcpConn: messages from a callback, on a thread of its own at a dialled end *)

\* put_nowait from another thread does not wake the event loop, so a suspended read
\* may stay suspended with its message in the queue.
KcpOnData ==
    /\ net = "kcp" /\ flight # <<>>
    /\ flight' = Tail(flight)
    /\ IF closed["reader"]
       THEN UNCHANGED <<queue, woken>>
       ELSE queue' = Append(queue, Head(flight)) /\ woken' \in {woken, waiting}
    /\ UNCHANGED <<sendVars, eof, closed, lost, readVars>>

KcpRead(k) ==
    /\ net = "kcp"
    /\ Enters
    /\ \/ ~waiting /\ Buffered /\ ReturnBuffered(k)
       \/ ~Buffered /\ queue # <<>> /\ ReturnMessage(k)
       \/ ~Buffered /\ queue = <<>> /\ Suspend
    /\ UNCHANGED <<sendVars, flight, eof, closed, lost>>

\* wait_for gives up after ten seconds; the message, if any, stays in the queue.
KcpTimeout ==
    /\ net = "kcp" /\ waiting
    /\ Zero
    /\ UNCHANGED <<sendVars, flight, eof, closed, lost>>

KcpWrite(n) == net = "kcp" /\ Send(n)

\* Only a flag: the peer is told nothing, nor is a suspended read.
KcpClose(e) ==
    /\ net = "kcp"
    /\ SetClosed(e)
    /\ UNCHANGED <<flight, eof, woken>>

-----------------------------------------------------------------------------
(* WebTransportConn: _buf, _eof and _data_event *)

\* Mutant of FeedData: the event is set only for data.
FeedDataNoEnd(chunks, ended) ==
    /\ queue' = queue \o chunks
    /\ eof' = (eof \/ ended)
    /\ woken' = (waiting /\ (woken \/ chunks # <<>>))

\* Mutant of FeedData: the event is not set.
FeedDataSilent(chunks, ended) ==
    /\ queue' = queue \o chunks
    /\ eof' = (eof \/ ended)
    /\ UNCHANGED woken

FeedData(chunks, ended) ==
    /\ queue' = queue \o chunks
    /\ eof' = (eof \/ ended)
    /\ woken' = waiting

\* The end of the stream comes with its last data or after it.
WtFeedData ==
    /\ net = "webtransport" /\ ~lost
    /\ \/ /\ flight # <<>>
          /\ \E ended \in {FALSE, closed["writer"] /\ Len(flight) = 1} :
                FeedData(<<Head(flight)>>, ended)
          /\ flight' = Tail(flight)
       \/ /\ flight = <<>> /\ closed["writer"] /\ ~eof
          /\ FeedData(<<>>, TRUE)
          /\ UNCHANGED flight
    /\ UNCHANGED <<sendVars, closed, lost, readVars>>

\* Mutant of WtRead: the end of the stream is looked at before the bytes.
WtReadEofFirst(k) ==
    /\ net = "webtransport"
    /\ Enters
    /\ \/ eof /\ Zero
       \/ ~eof /\ queue # <<>> /\ ReturnBytes(k)
       \/ ~eof /\ queue = <<>> /\ Suspend
    /\ UNCHANGED <<sendVars, flight, eof, closed, lost>>

WtRead(k) ==
    /\ net = "webtransport"
    /\ Enters
    /\ \/ queue # <<>> /\ ReturnBytes(k)
       \/ queue = <<>> /\ eof /\ Zero
       \/ queue = <<>> /\ ~eof /\ Suspend
    /\ UNCHANGED <<sendVars, flight, eof, closed, lost>>

WtWrite(n) == net = "webtransport" /\ n > 0 /\ Send(n)

\* The end of the stream follows the data; a suspended read of this end goes on
\* waiting for the peer.
WtClose(e) ==
    /\ net = "webtransport"
    /\ SetClosed(e)
    /\ UNCHANGED <<flight, eof, woken>>

-----------------------------------------------------------------------------
(* The libraries under the stream and message adapters, and the network *)

Told == {"tcp", "quic", "websocket"}

Arrive ==
    /\ net \in Told /\ flight # <<>> /\ ~eof
    /\ flight' = Tail(flight)
    /\ queue' = Append(queue, Head(flight))
    /\ woken' = waiting
    /\ UNCHANGED <<sendVars, eof, closed, lost, readVars>>

\* The peer's close arrives after its data; a WebSocket closed at this end is over
\* when the closing handshake is, and messages may still come before that.
EndArrives ==
    /\ net \in Told /\ ~eof
    /\ \/ flight = <<>> /\ closed["writer"]
       \/ net = "websocket" /\ closed["reader"]
    /\ TellEnd
    /\ UNCHANGED <<sendVars, flight, queue, closed, lost, readVars>>

\* The connection is gone.  aioquic reports that as an event which the WebTransport
\* protocols ignore, and KCP does not report it.
Lose ==
    /\ ~lost
    /\ lost' = TRUE /\ flight' = <<>>
    /\ IF net \in Told THEN TellEnd ELSE UNCHANGED <<eof, woken>>
    /\ UNCHANGED <<sendVars, queue, closed, readVars>>

-----------------------------------------------------------------------------
Read == \E k \in 1 .. MaxBuffer : TcpRead(k) \/ QuicRead(k) \/ WsRead(k) \/ KcpRead(k) \/ WtRead(k)
Write == \E n \in 0 .. MaxChunk : TcpWrite(n) \/ QuicWrite(n) \/ WsWrite(n) \/ KcpWrite(n) \/ WtWrite(n)
Close == \E e \in {"writer", "reader"} : TcpClose(e) \/ QuicClose(e) \/ WsClose(e) \/ KcpClose(e) \/ WtClose(e)
Deliver == Arrive \/ EndArrives \/ KcpOnData \/ WtFeedData

Next == Write \/ Read \/ KcpTimeout \/ Close \/ Deliver \/ Lose

Spec == Init /\ [][Next]_vars

\* The network delivers, the event loop runs what is ready, timers fire and the
\* application keeps reading.  Nobody has to write or close.
Fairness == WF_vars(Deliver) /\ WF_vars(Read) /\ WF_vars(KcpTimeout)

FairSpec == Spec /\ Fairness

-----------------------------------------------------------------------------
(* What an application relies on, whatever the transport *)

Stream == INSTANCE ByteStream WITH written <- total, read <- count, ret <- ret

\* Every read of every adapter returns the next bytes of the stream, in order and
\* without a gap or a repetition, whatever the sizes of writes, messages and buffers,
\* and whenever the connection is closed or lost.
StreamSpec == Stream!Spec

\* A read that returns 0 has met the end: this end was closed, the connection was
\* lost, or the peer has closed and every byte it wrote has been read.  QuicConn.close
\* may cut the end off; KcpConn.read returns 0 on a timeout and WsConn.read on
\* an empty message, so a 0 of theirs tells less.
ZeroIsEnd ==
    zero => \/ closed["reader"] \/ lost
            \/ closed["writer"] /\ (net = "quic" \/ count = total)
            \/ net = "kcp"
            \/ net = "websocket" /\ empty

\* Every byte written is read, unless this end is closed or the connection is lost,
\* or the peer closed a QUIC connection with the byte still on its way.
Delivered ==
    \A b \in 1 .. MaxChunk * MaxWrites :
        total >= b ~> \/ count >= b
                      \/ closed["reader"] \/ lost
                      \/ net = "quic" /\ closed["writer"]

\* A suspended read ends once either end is closed or the connection is lost.  Over
\* WebTransport that takes the peer's end of stream: neither close() of this end nor
\* the loss of the connection sets _data_event.
ReadEnds ==
    waiting /\ (closed["writer"] \/ closed["reader"] \/ lost)
        ~> ~waiting \/ (net = "webtransport" /\ (lost \/ closed["reader"]))
=============================================================================
