----------------------------- MODULE PaddingConn -----------------------------
(***************************************************************************)
(* paddingConn of naive_conn.go, one direction between two of them.  The   *)
(* first paddingCount writes travel as frames: a two-byte length, a one-   *)
(* byte padding length, the data, the padding.  Later bytes travel as they *)
(* are.  The reader undoes this over an underlying Read that returns as    *)
(* few bytes as it likes.  Read and Write of the connection below may also *)
(* fail and leave it usable, as BidirectionalConn does when a deadline is  *)
(* found expired in waitReady, before anything reaches the native stream.  *)
(*                                                                         *)
(* A byte is a number.  The i-th byte of the application's stream is i,    *)
(* padding bytes are 0.                                                    *)
(***************************************************************************)
EXTENDS Integers, Sequences

CONSTANTS
    paddingCount,           \* 8 in the code
    maxPaddingChunkSize,    \* 65535 in the code
    PaddingSizes,           \* outcomes of rand.Intn(256)
    MaxSent,                \* bound on the length of the stream
    MaxWrite, MaxRead,      \* bounds on the length of one Write, one buffer
    TimeoutIn,              \* what may time out: phases of Read, kinds of Write
    Bypass                  \* whether a copier uses ReaderReplaceable: not at
                            \* all, once the last frame is spent, at once

ASSUME SizesAssumption ==
    /\ paddingCount \in Nat \ {0}
    /\ maxPaddingChunkSize \in 1..65535
    /\ PaddingSizes \subseteq 0..255
    /\ {MaxSent, MaxWrite, MaxRead} \subseteq Nat
    /\ TimeoutIn \subseteq {"data", "skip", "header", "body", "raw",
                            "frame", "plain"}
    /\ Bypass \in {"never", "whenSpent", "atOnce"}

VARIABLES
    wire,               \* bytes written and not yet read
    sent,               \* length of the stream that Write has accounted for
    todo,               \* bytes a Write in progress has still to write
    writePadding,
    pc, room,           \* phase of the Read in progress, length of its buffer
    header, skipped,    \* header bytes read, padding bytes skipped by it
    readPadding, readRemaining, paddingRemaining,
    received            \* the bytes delivered to the application

writeVars == <<sent, todo, writePadding>>
callVars == <<pc, room, header, skipped>>
readVars == <<readPadding, readRemaining, paddingRemaining>>
vars == <<wire, writeVars, callVars, readVars, received>>

Least(a, b) == IF a < b THEN a ELSE b

Init ==
    /\ wire = <<>> /\ received = <<>>
    /\ sent = 0 /\ todo = 0 /\ writePadding = 0
    /\ pc = "idle" /\ room = 0 /\ header = <<>> /\ skipped = 0
    /\ readPadding = 0 /\ readRemaining = 0 /\ paddingRemaining = 0

-----------------------------------------------------------------------------
(* Writing, under writeMu.                                                 *)

\* n bytes of the stream, from the one after byte number i
Data(i, n) == [j \in 1..n |-> i + j]

Frame(data, padding) ==
    <<Len(data) \div 256, Len(data) % 256, padding>> \o data
        \o [j \in 1..padding |-> 0]

Padded == writePadding < paddingCount

\* writeChunked is entered with n bytes.
Write(n) ==
    /\ todo = 0
    /\ sent + n <= MaxSent
    /\ todo' = n
    /\ UNCHANGED <<wire, sent, writePadding, callVars, readVars, received>>

Put(frame(_), n) ==
    /\ sent' = sent + n
    /\ IF Padded
       THEN /\ \E p \in PaddingSizes : wire' = wire \o frame(p)
            /\ writePadding' = writePadding + 1
       ELSE wire' = wire \o Data(sent, n) /\ UNCHANGED writePadding

\* The next chunk of writeChunked.
writeWithPadding ==
    /\ todo > 0
    /\ LET n == Least(todo, maxPaddingChunkSize)
           frame(p) == Frame(Data(sent, n), p)
       IN todo' = todo - n /\ Put(frame, n)
    /\ UNCHANGED <<callVars, readVars, received>>

\* The write below fails: Write returns, but its chunk counts as a frame.
WriteTimeout ==
    /\ todo > 0
    /\ (IF Padded THEN "frame" ELSE "plain") \in TimeoutIn
    /\ todo' = 0
    /\ writePadding' = IF Padded THEN writePadding + 1 ELSE writePadding
    /\ UNCHANGED <<wire, sent, callVars, readVars, received>>

\* writeBufferWithPadding makes one frame, also of no data; a buffer too long
\* for a frame goes through writeChunked, that is, Write.
WriteBuffer(n) ==
    /\ todo = 0
    /\ sent + n <= MaxSent
    /\ Padded => n <= maxPaddingChunkSize
    /\ LET frame(p) == Frame(Data(sent, n), p) IN Put(frame, n)
    /\ UNCHANGED <<todo, callVars, readVars, received>>

-----------------------------------------------------------------------------
(* Reading, under readMu.                                                  *)

\* The phase of a Read that finds no frame data left.
AfterData ==
    IF paddingRemaining > 0 THEN "skip"
    ELSE IF readPadding < paddingCount THEN "header" ELSE "raw"

\* Mutated: the buffer is not cut to the rest of the frame.
ReadUncut(n) ==
    /\ pc = "idle"
    /\ pc' = IF readRemaining > 0 THEN "data" ELSE AfterData
    /\ room' = n
    /\ header' = <<>> /\ skipped' = 0
    /\ UNCHANGED <<wire, writeVars, readVars, received>>

Read(n) ==
    /\ pc = "idle"
    /\ pc' = IF readRemaining > 0 THEN "data" ELSE AfterData
    /\ room' = IF readRemaining > 0 THEN Least(n, readRemaining) ELSE n
    /\ header' = <<>> /\ skipped' = 0
    /\ UNCHANGED <<wire, writeVars, readVars, received>>

\* The underlying Read with a buffer of length n yields its first k bytes; an
\* empty buffer is filled at once.
Yields(n, k) ==
    /\ k \in (IF n = 0 THEN {0} ELSE 1..Least(n, Len(wire)))
    /\ wire' = SubSeq(wire, k + 1, Len(wire))

Deliver(k) == received' = received \o SubSeq(wire, 1, k)

Return ==
    /\ pc' = "idle" /\ room' = 0 /\ header' = <<>> /\ skipped' = 0

ReadData(k) ==
    /\ pc = "data"
    /\ Yields(room, k) /\ Deliver(k) /\ Return
    /\ readRemaining' = readRemaining - k
    /\ UNCHANGED <<writeVars, readPadding, paddingRemaining>>

ReadRaw(k) ==
    /\ pc = "raw"
    /\ Yields(room, k) /\ Deliver(k) /\ Return
    /\ UNCHANGED <<writeVars, readVars>>

\* rw.SkipN; paddingRemaining is cleared when all of it has been skipped.
Skip(k) ==
    /\ pc = "skip"
    /\ Yields(paddingRemaining - skipped, k)
    /\ IF skipped + k = paddingRemaining
       THEN /\ paddingRemaining' = 0 /\ skipped' = 0
            /\ pc' = IF readPadding < paddingCount THEN "header" ELSE "raw"
       ELSE skipped' = skipped + k /\ UNCHANGED <<pc, paddingRemaining>>
    /\ UNCHANGED <<writeVars, room, header, readPadding, readRemaining, received>>

DataSize(h) == 256 * h[1] + h[2]

\* io.ReadFull of the three header bytes
ReadHeader(k) ==
    /\ pc = "header"
    /\ Yields(3 - Len(header), k)
    /\ header' = header \o SubSeq(wire, 1, k)
    /\ IF Len(header') = 3
       THEN pc' = "body" /\ room' = Least(room, DataSize(header'))
       ELSE UNCHANGED <<pc, room>>
    /\ UNCHANGED <<writeVars, skipped, readVars, received>>

\* Mutated: a short read of a frame's data is taken for all of it.
ReadBodyWhole(k) ==
    /\ pc = "body"
    /\ Yields(room, k) /\ Deliver(k) /\ Return
    /\ readPadding' = readPadding + 1
    /\ readRemaining' = 0
    /\ paddingRemaining' = header[3]
    /\ UNCHANGED writeVars

ReadBody(k) ==
    /\ pc = "body"
    /\ Yields(room, k) /\ Deliver(k) /\ Return
    /\ readPadding' = readPadding + 1
    /\ readRemaining' = DataSize(header) - k
    /\ paddingRemaining' = header[3]
    /\ UNCHANGED writeVars

\* The underlying Read fails without having ended the connection.  What this
\* Read has taken from the wire is forgotten.
Timeout ==
    /\ pc \in TimeoutIn
    /\ Return
    /\ UNCHANGED <<wire, writeVars, readVars, received>>

\* Mutated: one frame too early.
readerReplaceableEarly == readPadding >= paddingCount - 1

readerReplaceable == readPadding = paddingCount

\* A copier that finds the reader replaceable reads from the connection below.
ReadBelow(k) ==
    /\ Bypass # "never"
    /\ Bypass = "whenSpent" => readRemaining = 0 /\ paddingRemaining = 0
    /\ pc = "idle" /\ readerReplaceable
    /\ k > 0 /\ Yields(MaxRead, k) /\ Deliver(k)
    /\ UNCHANGED <<writeVars, callVars, readVars>>

ReadStep(k) ==
    ReadData(k) \/ ReadRaw(k) \/ Skip(k) \/ ReadHeader(k) \/ ReadBody(k)

Progress == \E k \in 0..Len(wire) : ReadStep(k)

Next ==
    \/ \E n \in 1..MaxWrite : Write(n)
    \/ \E n \in 0..MaxWrite : WriteBuffer(n)
    \/ writeWithPadding
    \/ WriteTimeout
    \/ \E n \in 0..MaxRead : Read(n)
    \/ Progress
    \/ Timeout
    \/ \E k \in 1..MaxRead : ReadBelow(k)

Spec == Init /\ [][Next]_vars

\* A Write in progress goes on, the underlying Read returns what is there, and
\* the application reads again and again into buffers that hold something,
\* whatever calls with empty ones it makes in between and whichever of its
\* deadlines pass (hence SF): not all of its calls time out.
Fairness ==
    /\ WF_vars(writeWithPadding)
    /\ SF_vars(\E n \in 1..MaxRead : Read(n))
    /\ WF_vars(Progress)
    /\ SF_vars(room > 0 /\ Progress)

FairSpec == Spec /\ Fairness

-----------------------------------------------------------------------------
(* Properties.                                                             *)

\* Every variable stays within its type; the reader never counts a frame or a
\* byte of one that is not there.
TypeOK ==
    /\ wire \in Seq(0..255) /\ received \in Seq(0..255)
    /\ sent \in 0..MaxSent /\ todo \in 0..MaxWrite
    /\ pc \in {"idle", "data", "skip", "header", "body", "raw"}
    /\ room \in 0..MaxRead
    /\ header \in Seq(0..255) /\ Len(header) <= 3
    /\ writePadding \in 0..paddingCount /\ readPadding \in 0..paddingCount
    /\ readRemaining \in 0..maxPaddingChunkSize
    /\ paddingRemaining \in PaddingSizes \cup {0}
    /\ skipped \in 0..paddingRemaining

Drop(s, n) == SubSeq(s, n + 1, Len(s))

\* The format by itself: the stream in w, which begins with frame number c.
Unframed[w \in Seq(0..255), c \in 0..paddingCount] ==
    IF c = paddingCount \/ Len(w) < 3 THEN w
    ELSE LET n == DataSize(w)
         IN SubSeq(w, 4, Least(Len(w), 3 + n))
              \o Unframed[Drop(w, 3 + n + w[3]), c + 1]

\* What the reader, where it is now, has still to get out of the wire.
Pending ==
    LET s == header \o wire
    IN SubSeq(s, 1, Least(Len(s), readRemaining))
         \o Unframed[Drop(s, readRemaining + paddingRemaining - skipped),
                     readPadding]

\* At every moment of a Read and of a Write, what was delivered and what the
\* format says is still under way is the stream, complete and in order.
NothingLost == received \o Pending = Data(0, sent)

\* The application reads the stream from its start, in order, with no byte of
\* a header or of padding in it (the assertions of TestNaiveConnConcurrentIO).
StreamIntact ==
    /\ Len(received) <= sent
    /\ received = Data(0, Len(received))

Pipe == INSTANCE BytePipe

\* A padded direction is a pipe of bytes: framing, chunking, short reads and
\* small buffers cannot be told from the connection below.
PipeSpec == Pipe!Spec

\* An application that keeps reading gets all that was written, padding that
\* no data follows notwithstanding.
AllDelivered ==
    \A k \in 1..MaxSent : (sent >= k) ~> (Len(received) >= k)

=============================================================================
