----------------------------- MODULE GrpcFraming -----------------------------
(***************************************************************************)
(* The gRPC framing of browser_xhttp_grpc.go, one direction: the upload    *)
(* turns each piece of the application's stream into a message, a header   *)
(* with the size and a protobuf field with the bytes; the reader takes     *)
(* messages apart again.  The wire hands out as little as it likes, a      *)
(* Read may meet its deadline anywhere in a message and a later one must   *)
(* go on there, and the stream may be cut.                                 *)
(*                                                                         *)
(* The wire carries units: header bytes, tags (of a field with v units to  *)
(* follow), payload bytes, of which the i-th of the stream has v = i, and  *)
(* the filling of fields that are not ours.  A tag stands for its varints. *)
(***************************************************************************)
EXTENDS Naturals, Sequences

CONSTANTS
    HeaderSize,   \* 5 in the code
    MaxMessage,   \* browserMaxGRPCMessage, in units
    MaxSent,      \* bound on the length of the stream
    MaxPiece,     \* bound on what one Read of the source returns
    MaxRoom       \* bound on the length of a buffer

VARIABLES
    sent,              \* payload bytes taken from the application so far
    pending, uploadErr,\* of browserGRPCUpload
    wire,              \* units under way
    closed,            \* "open", "ended" after a message, "cut"
    header, frame,     \* what readMessage has of a message: r.header, r.frame
    cache, readErr,    \* r.cache, r.err
    room,              \* length of the buffer of the Read in progress, or 0
    received           \* what the application has read

upVars   == <<sent, pending, uploadErr>>
readVars == <<header, frame, cache, readErr>>
vars     == <<upVars, wire, closed, readVars, room, received>>

Unit(kind, v) == [k |-> kind, v |-> v]
Units(kind, n) == [i \in 1..n |-> Unit(kind, 0)]
Take(s, n) == SubSeq(s, 1, n)
Drop(s, n) == SubSeq(s, n + 1, Len(s))
Least(a, b) == IF a < b THEN a ELSE b

Init ==
    /\ sent = 0 /\ pending = <<>> /\ uploadErr = "nil"
    /\ wire = <<>> /\ closed = "open"
    /\ header = <<>> /\ frame = <<>> /\ cache = <<>> /\ readErr = "nil"
    /\ room = 0 /\ received = <<>>

-----------------------------------------------------------------------------
(* The upload.                                                             *)

\* A header: the flags of its first byte, the size in each of the others.
Header(flags, size) ==
    <<Unit(flags, size)>> \o [i \in 1..(HeaderSize - 1) |-> Unit("size", size)]

\* Field 1 with the n bytes after byte number i.
Field(i, n) == <<Unit("bytes", n)>> \o [j \in 1..n |-> Unit("data", i + j)]

Message(body) == Header("plain", Len(body)) \o body

\* browserGRPCUpload.Read with a buffer of length c, in which the source is
\* read, unless bytes wait, for n bytes and the error e.
UploadRead(c, n, e) ==
    /\ closed = "open"
    /\ uploadErr = "nil" \/ pending # <<>>
    /\ sent + n <= MaxSent /\ (pending # <<>> => n = 0 /\ e = uploadErr)
    /\ LET out == IF n = 0 THEN pending ELSE Message(Field(sent, n)) IN
       /\ wire' = wire \o Take(out, Least(c, Len(out)))
       /\ pending' = Drop(out, Least(c, Len(out)))
    /\ sent' = sent + n /\ uploadErr' = e
    /\ UNCHANGED <<closed, readVars, room, received>>

\* The error of the source, behind the bytes: the end of the stream.
UploadEnds ==
    /\ closed = "open" /\ uploadErr = "EOF" /\ pending = <<>>
    /\ closed' = "ended"
    /\ UNCHANGED <<upVars, wire, readVars, room, received>>

\* Messages of other senders: fields that are not ours around the bytes, no
\* field at all; and three that no reader of ours accepts.
Foreign(i) ==
    {Message(<<>>), Message(<<Unit("other", 1)>> \o Units("x", 1)),
     Message(<<Unit("other", 0)>> \o Field(i, 1)),
     Message(Field(i, 1) \o <<Unit("other", 1)>> \o Units("x", 1)),
     Header("compressed", 2) \o Field(i, 1),
     Header("plain", MaxMessage + 1) \o Units("x", 1),
     Message(<<Unit("invalid", 0)>>)}

PeerSends(m) ==
    /\ closed = "open" /\ uploadErr = "nil" /\ pending = <<>>
    /\ sent < MaxSent /\ wire = <<>>
    /\ wire' = wire \o m
    /\ sent' = IF \E i \in 1..Len(m) : m[i].k = "data" THEN sent + 1 ELSE sent
    /\ UNCHANGED <<pending, uploadErr, closed, readVars, room, received>>

\* The stream breaks off with a clean end of the transport.
Cut(n) ==
    /\ closed = "open"
    /\ wire' = Take(wire, n) /\ closed' = "cut"
    /\ UNCHANGED <<upVars, readVars, room, received>>

-----------------------------------------------------------------------------
(* The reader, under its mu.                                               *)

\* readContext; an empty buffer and an error that sticks return at once.
Read(n) ==
    /\ room = 0 /\ readErr = "nil" /\ n > 0
    /\ room' = n
    /\ UNCHANGED <<upVars, wire, closed, readVars, received>>

Reading     == room > 0 /\ cache = <<>>
HeaderKnown == Len(header) = HeaderSize
Size        == header[1].v
Rejected    == header[1].k # "plain" \/ Size > MaxMessage
Complete    == HeaderKnown /\ ~Rejected /\ Len(frame) = Size

\* fill, once: the transport returns k of the units that are missing.
Fill(k) ==
    /\ Reading /\ k > 0 /\ k <= Len(wire)
    /\ \/ /\ ~HeaderKnown /\ k <= HeaderSize - Len(header)
          /\ header' = header \o Take(wire, k)
          /\ UNCHANGED frame
       \/ /\ HeaderKnown /\ ~Rejected /\ k <= Size - Len(frame)
          /\ frame' = frame \o Take(wire, k)
          /\ UNCHANGED header
    /\ wire' = Drop(wire, k)
    /\ UNCHANGED <<upVars, closed, cache, readErr, room, received>>

Fails(e) == readErr' = e /\ room' = 0

Reject ==
    /\ Reading /\ HeaderKnown /\ Rejected
    /\ Fails("unsupported")
    /\ UNCHANGED <<upVars, wire, closed, header, frame, cache, received>>

\* The fields of a message from unit i on: the bytes of our field, or
\* "invalid" where a tag or a field cannot be read.
Fields(m) ==
    LET at[i \in 1..(Len(m) + 1)] ==
          IF i > Len(m) THEN <<>>
          ELSE LET next == i + m[i].v + 1 IN
               IF m[i].k \notin {"bytes", "other"} \/ next > Len(m) + 1
               THEN <<Unit("invalid", 0)>>
               ELSE IF m[i].k = "bytes" /\ at[next] = <<>>
                    THEN SubSeq(m, i + 1, next - 1)
                    ELSE at[next]
    IN  at[1]

\* The message is complete; one without bytes leads to the next.
ReadMessage ==
    /\ Reading /\ Complete
    /\ LET bytes == Fields(frame) IN
       IF bytes = <<Unit("invalid", 0)>>
       THEN Fails("invalid") /\ UNCHANGED <<header, frame, cache>>
       ELSE /\ cache' = bytes /\ header' = <<>> /\ frame' = <<>>
            /\ UNCHANGED <<readErr, room>>
    /\ UNCHANGED <<upVars, wire, closed, received>>

Deliver ==
    /\ room > 0 /\ cache # <<>>
    /\ LET n == Least(room, Len(cache)) IN
       /\ received' = received \o [i \in 1..n |-> cache[i].v]
       /\ cache' = Drop(cache, n)
    /\ room' = 0
    /\ UNCHANGED <<upVars, wire, closed, header, frame, readErr>>

\* Mutated: a Read that ends starts the next one with a header.
DeadlineForgets ==
    /\ Reading
    /\ room' = 0 /\ header' = <<>> /\ frame' = <<>>
    /\ UNCHANGED <<upVars, wire, closed, cache, readErr, received>>

\* The context ends: the error is returned and not kept.
Deadline ==
    /\ Reading
    /\ room' = 0
    /\ UNCHANGED <<upVars, wire, closed, readVars, received>>

\* The end of the transport, which is that of the stream between messages.
End ==
    /\ Reading /\ wire = <<>> /\ closed # "open" /\ ~Complete
    /\ ~(HeaderKnown /\ Rejected)
    /\ Fails(IF header = <<>> THEN "EOF" ELSE "unexpected EOF")
    /\ UNCHANGED <<upVars, wire, closed, header, frame, cache, received>>

\* release, once the request is cleaned up.
Release ==
    /\ room = 0
    /\ frame' = <<>> /\ cache' = <<>>
    /\ readErr' = IF readErr = "nil" THEN "closed pipe" ELSE readErr
    /\ UNCHANGED <<upVars, wire, closed, header, room, received>>

Next ==
    \/ \E c \in 1..MaxRoom, n \in 0..MaxPiece, e \in {"nil", "EOF"} :
         UploadRead(c, n, e)
    \/ UploadEnds
    \/ \E m \in Foreign(sent) : PeerSends(m)
    \/ \E n \in 0..Len(wire) : Cut(n)
    \/ \E n \in 1..MaxRoom : Read(n)
    \/ \E k \in 1..Len(wire) : Fill(k)
    \/ Reject \/ ReadMessage \/ Deliver \/ Deadline \/ End \/ Release

Spec == Init /\ [][Next]_vars

-----------------------------------------------------------------------------
Pipe == INSTANCE BytePipe

\* The format by itself: the payload of the whole messages in s.
Payload(s) ==
    LET at[i \in 1..(Len(s) + 1)] ==
          IF i + HeaderSize > Len(s) + 1 \/ s[i].v > Len(s) + 1 - i - HeaderSize
          THEN <<>>
          ELSE LET body == SubSeq(s, i + HeaderSize, i + HeaderSize + s[i].v - 1)
               IN  Fields(body) \o at[i + HeaderSize + s[i].v]
        bytes == at[1]
    IN  [i \in 1..Len(bytes) |-> bytes[i].v]

Values(s) == [i \in 1..Len(s) |-> s[i].v]

Coming == header \o frame \o wire \o pending

\* Nothing under way that the reader will refuse.
Acceptable ==
    \A i \in 1..Len(Coming) :
      /\ Coming[i].k \notin {"compressed", "invalid"}
      /\ Coming[i].k = "plain" => Coming[i].v <= MaxMessage

\* Whatever the reader has consumed of a message and whatever deadlines have
\* passed, what was delivered, what is cached and what is under way is the
\* stream: a Read resumes in the middle of a message where the last one
\* stopped, with the frame of that message (browserGRPCReader).  A stream
\* that is cut inside a message is never reported as ended.
Resumes ==
    /\ (readErr = "nil" /\ closed # "cut" /\ Acceptable)
         => received \o Values(cache) \o Payload(Coming) = [i \in 1..sent |-> i]
    /\ (readErr = "EOF" /\ closed = "ended") => Len(received) = sent
    /\ readErr = "EOF" => header = <<>>

\* A framed direction is a pipe of bytes.
PipeSpec == Pipe!Spec

\* Every variable stays within its type.
TypeOK ==
    /\ sent \in 0..MaxSent
    /\ uploadErr \in {"nil", "EOF"} /\ closed \in {"open", "ended", "cut"}
    /\ Len(header) <= HeaderSize /\ Len(frame) <= MaxMessage
    /\ readErr \in {"nil", "EOF", "unexpected EOF", "unsupported", "invalid",
                    "closed pipe"}
    /\ room \in 0..MaxRoom
=============================================================================
