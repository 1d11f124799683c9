---------------------------- MODULE SecureChannel ----------------------------
(***************************************************************************)
(* One direction of a SecureConn: writers that seal frames under           *)
(* _write_lock, the inner connection, and readers that open them under     *)
(* _read_lock.                                                             *)
(* (uniconn-py/uniconn/secure: conn.py, message.py.  The Go and TypeScript *)
(* classes follow the same algorithm; in Go read looks at no closed flag.) *)
(*                                                                         *)
(* A frame is its counter and the first and last of the bytes it carries,  *)
(* named by their position in the stream.  Opening a frame succeeds iff it *)
(* is complete: authentication is taken as perfect.  What is on the wire   *)
(* is a sequence of frames, whole or cut.  A frame is cut when its writer  *)
(* failed half-way or when a reader gave up half-way; the reader that      *)
(* meets one loses the frame boundaries.                                   *)
(***************************************************************************)
EXTENDS Naturals, Sequences

CONSTANTS
    Writers,       \* tasks that call write
    MaxChunk,      \* bound: bytes of one write
    MaxMessage,    \* bytes MAX_MESSAGE_SIZE leaves for the plaintext of a frame
    MaxBuffer,     \* bound: bytes of one read
    MaxWrites,     \* bound: calls of write
    MaxFaults,     \* bound: failures and replays
    ChecksClosed   \* read looks at _closed first (Python and TypeScript, not Go)

ASSUME ChannelAssumption ==
    /\ MaxChunk \in Nat /\ MaxMessage \in Nat /\ MaxBuffer \in Nat
    /\ MaxWrites \in Nat /\ MaxFaults \in Nat
    /\ ChecksClosed \in BOOLEAN

VARIABLES
    pending,       \* the frame (index in log) a writer inside write has sealed, or 0
    sendCounter,   \* _send_counter of the writing side
    total,         \* bytes handed to write so far
    log,           \* the frames sealed so far, in order
    wire,          \* [frame, whole] in flight on the inner connection
    recvCounter,   \* _recv_counter of the reading side
    buf,           \* _recv_buf: first and last byte buffered
    count,         \* bytes read has returned
    ret,           \* first and last byte of the latest read
    closed,        \* the reading side has been closed
    faults         \* failures, timeouts, replays and oversized frames so far

vars == <<pending, sendCounter, total, log, wire, recvCounter, buf, count, ret, closed, faults>>
sendVars == <<pending, sendCounter, total, log>>
recvVars == <<recvCounter, buf, count, ret>>

Frame == [ctr : Nat, lo : Nat \ {0}, hi : Nat]
Item == [frame : Frame, whole : BOOLEAN]
Run == {r \in (Nat \ {0}) \X Nat : r[1] <= r[2] + 1}

\* Counters, frames and the stream positions have their types.
TypeOK ==
    /\ pending \in [Writers -> 0 .. Len(log)]
    /\ sendCounter \in Nat /\ recvCounter \in Nat
    /\ total \in Nat /\ count \in Nat /\ faults \in Nat
    /\ log \in Seq(Frame) /\ wire \in Seq(Item)
    /\ buf \in Run /\ ret \in Run
    /\ closed \in BOOLEAN

Init ==
    /\ pending = [w \in Writers |-> 0] /\ sendCounter = 0 /\ total = 0 /\ log = <<>>
    /\ wire = <<>>
    /\ recvCounter = 0 /\ buf = <<1, 0>> /\ count = 0 /\ ret = <<1, 0>>
    /\ closed = FALSE /\ faults = 0

-----------------------------------------------------------------------------
(* write *)

\* Mutant of Locked: writers are not serialised.
LockedNot(w) == pending[w] = 0

Locked(w) == \A v \in Writers : pending[v] = 0

\* Take the lock and the counter, and seal n bytes.
WriteBegins(w, n) ==
    /\ Locked(w) /\ Len(log) < MaxWrites
    /\ log' = Append(log, [ctr |-> sendCounter, lo |-> total + 1, hi |-> total + n])
    /\ sendCounter' = sendCounter + 1
    /\ total' = total + n
    /\ pending' = [pending EXCEPT ![w] = Len(log) + 1]
    /\ UNCHANGED <<wire, recvVars, closed, faults>>

\* The inner write returns; nothing checks that the frame fits MAX_MESSAGE_SIZE.
WriteEnds(w) ==
    /\ pending[w] # 0
    /\ wire' = Append(wire, [frame |-> log[pending[w]], whole |-> TRUE])
    /\ pending' = [pending EXCEPT ![w] = 0]
    /\ UNCHANGED <<sendCounter, total, log, recvVars, closed, faults>>

\* Mutant of WriteFails: a failed write gives its counter back.
WriteFailsBack(w) ==
    /\ pending[w] # 0 /\ faults < MaxFaults
    /\ pending' = [pending EXCEPT ![w] = 0]
    /\ sendCounter' = sendCounter - 1
    /\ faults' = faults + 1
    /\ UNCHANGED <<total, log, wire, recvVars, closed>>

\* The inner write fails after nothing, or a part, of the frame has been sent.  The
\* SecureConn stays usable.
WriteFails(w) ==
    /\ pending[w] # 0 /\ faults < MaxFaults
    /\ \/ UNCHANGED wire
       \/ wire' = Append(wire, [frame |-> log[pending[w]], whole |-> FALSE])
    /\ pending' = [pending EXCEPT ![w] = 0]
    /\ faults' = faults + 1
    /\ UNCHANGED <<sendCounter, total, log, recvVars, closed>>

-----------------------------------------------------------------------------
(* read *)

Least(a, b) == IF a <= b THEN a ELSE b

Buffered == buf[1] <= buf[2]

\* Return bytes lo .. of a run lo .. hi that fit k, and buffer the rest.
Return(lo, hi, k) ==
    LET last == Least(hi, lo + k - 1) IN
    /\ ret' = <<lo, last>>
    /\ count' = count + (last - lo + 1)
    /\ buf' = <<last + 1, hi>>

ReadBuffered(k) ==
    /\ Buffered /\ ~(ChecksClosed /\ closed)
    /\ Return(buf[1], buf[2], k)
    /\ UNCHANGED <<sendVars, wire, recvCounter, closed, faults>>

\* A frame is about to be read.
AtFrame == ~Buffered /\ ~closed /\ wire # <<>>

Head1 == wire[1].frame

\* What is left once a reader has stopped inside the first frame.
Cut(s) == [s EXCEPT ![1] = [frame |-> s[1].frame, whole |-> FALSE]]

TooLarge(f) == f.hi - f.lo + 1 > MaxMessage

\* Mutant of Expected: old and new counters alike are accepted.
ExpectedAny(f) == TRUE

\* Mutant of Expected: a gap is accepted.
ExpectedNewer(f) == f.ctr >= recvCounter

Expected(f) == f.ctr = recvCounter

\* _handle_data succeeds.
ReadFrame(k) ==
    /\ AtFrame /\ wire[1].whole /\ ~TooLarge(Head1) /\ Expected(Head1)
    /\ wire' = Tail(wire)
    /\ recvCounter' = recvCounter + 1
    /\ Return(Head1.lo, Head1.hi, k)
    /\ UNCHANGED <<sendVars, closed, faults>>

\* The counter is wrong: an error, and the frame is gone.
ReadRefused ==
    /\ AtFrame /\ wire[1].whole /\ ~TooLarge(Head1) /\ ~Expected(Head1)
    /\ wire' = Tail(wire)
    /\ UNCHANGED <<sendVars, recvVars, closed, faults>>

\* The length is refused, but the body stays on the wire.
ReadTooLarge ==
    /\ AtFrame /\ wire[1].whole /\ TooLarge(Head1)
    /\ wire' = Cut(wire)
    /\ faults' = faults + 1
    /\ UNCHANGED <<sendVars, recvVars, closed>>

\* The reader is not at a frame boundary: whatever it takes for a frame does not
\* open, and it may have used up frames behind and stopped inside another.
ReadBroken ==
    /\ AtFrame /\ ~wire[1].whole
    /\ \/ wire' = Tail(wire)
       \/ /\ Len(wire) > 1
          /\ wire' = Cut(Tail(wire))
    /\ UNCHANGED <<sendVars, recvVars, closed, faults>>

\* The read is cancelled or times out inside a frame; what was read of it is dropped.
ReadTimesOut ==
    /\ AtFrame /\ wire[1].whole /\ faults < MaxFaults
    /\ wire' = Cut(wire)
    /\ faults' = faults + 1
    /\ UNCHANGED <<sendVars, recvVars, closed>>

\* A read under way may still return; it counts as coming before the close, since
\* the flag matters only to later ones.
CloseReader ==
    /\ ~closed /\ closed' = TRUE
    /\ UNCHANGED <<sendVars, wire, recvVars, faults>>

-----------------------------------------------------------------------------
(* The inner connection *)

\* A frame sealed earlier arrives once more.
Replay(i) ==
    /\ faults < MaxFaults
    /\ wire' = Append(wire, [frame |-> log[i], whole |-> TRUE])
    /\ faults' = faults + 1
    /\ UNCHANGED <<sendVars, recvVars, closed>>

\* Two frames change places.
Reorder(i) ==
    /\ faults < MaxFaults
    /\ wire' = [wire EXCEPT ![i] = wire[i + 1], ![i + 1] = wire[i]]
    /\ faults' = faults + 1
    /\ UNCHANGED <<sendVars, recvVars, closed>>

-----------------------------------------------------------------------------
ReadSome == \E k \in 1 .. MaxBuffer : ReadBuffered(k) \/ ReadFrame(k)
Reads == ReadSome \/ ReadRefused \/ ReadTooLarge \/ ReadBroken

Next ==
    \/ \E w \in Writers : \/ \E n \in 1 .. MaxChunk : WriteBegins(w, n)
                          \/ WriteEnds(w) \/ WriteFails(w)
    \/ Reads \/ ReadTimesOut \/ CloseReader
    \/ \E i \in 1 .. Len(log) : Replay(i)
    \/ \E i \in 1 .. (Len(wire) - 1) : Reorder(i)

Spec == Init /\ [][Next]_vars

\* write returns, and the application keeps reading.
FairSpec ==
    /\ Spec /\ WF_vars(Reads)
    /\ \A w \in Writers : WF_vars(WriteEnds(w))

-----------------------------------------------------------------------------
(* Properties *)

\* Every read returns the bytes that follow those returned before, whatever
\* writers do at the same time, whichever writes fail and reads time out, and
\* whatever is replayed or reordered on the way.
Stream == INSTANCE ByteStream WITH written <- total, read <- count
StreamSpec == Stream!Spec

\* No two frames are ever sealed under the same counter, the part of the nonce
\* that tells them apart, also after a failed write.
NonceUnique == \A i, j \in DOMAIN log : log[i].ctr = log[j].ctr => i = j

\* The reader never runs ahead of the writer and buffers only what it has not yet
\* returned: the counters of both sides and the positions in the stream agree.
InStep ==
    /\ recvCounter <= sendCounter
    /\ buf[1] = count + 1 /\ buf[2] <= total
    /\ recvCounter = sendCounter /\ ~Buffered => count = total

\* While nothing fails and no write exceeds the frame limit, every byte written is
\* read in the end.
Delivered ==
    \A b \in 1 .. (MaxWrites * MaxChunk) :
        total >= b ~> (count >= b \/ faults > 0 \/ closed)
=============================================================================
