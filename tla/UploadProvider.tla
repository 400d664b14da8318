--------------------------- MODULE UploadProvider ---------------------------
(***************************************************************************)
(* readerUploadProvider of streaming_request.go, and the goroutine of      *)
(* streamingUpload that calls it.  The native side asks for one read or    *)
(* rewind at a time; stop may come at any moment from callbacks, cancels   *)
(* and the native Close, and takes the body away from a read that blocks   *)
(* in it.  A body is opened by the caller (number 1) or by getBody.        *)
(***************************************************************************)
EXTENDS Integers

CONSTANTS
    Stoppers,       \* goroutines that call stop
    Lengths,        \* values of Content-Length; not positive when unknown
    BodySize,       \* what the bodies really hold
    room,           \* size of the native buffer
    MaxAttempts,    \* 100 in the code
    MaxBodies       \* bound on the bodies opened

ConstantsAssumption ==
    /\ Lengths \subseteq Int /\ BodySize \in Nat
    /\ {room, MaxAttempts, MaxBodies} \subseteq Nat \ {0}
    /\ Stoppers \cap {"provider", "rewind"} = {}     \* owners' names, below

Bodies == 1..MaxBodies
NoBody == 0

VARIABLES
    reader, closed,     \* p.reader, p.closed, under p.mu
    length, readLen,    \* p.length, p.readLen
    opened,             \* bodies opened so far
    position,           \* how far each body was read
    closes,             \* how often each body was closed
    pc, local,          \* the upload goroutine and its reader or old
    attempts,           \* reads of no progress in the call in progress
    report,             \* what the sink was told last
    stopper, taken      \* each stop and the body that it took

providerVars == <<reader, closed, length, readLen>>
bodyVars == <<opened, position, closes>>
uploadVars == <<pc, local, attempts, report>>
stopVars == <<stopper, taken>>
vars == <<providerVars, bodyVars, uploadVars, stopVars>>

Smaller(a, b) == IF a < b THEN a ELSE b

Known == length > 0

Init ==
    /\ reader = 1 /\ closed = FALSE
    /\ length \in Lengths /\ readLen = 0
    /\ opened = 1
    /\ position = [b \in Bodies |-> 0]
    /\ closes = [b \in Bodies |-> 0]
    /\ pc = "idle" /\ local = NoBody /\ attempts = 0
    /\ report = [kind |-> "none", n |-> 0]
    /\ stopper = [s \in Stoppers |-> "idle"]
    /\ taken = [s \in Stoppers |-> NoBody]

Reported(kind, n) ==
    /\ pc' = "idle" /\ local' = NoBody /\ attempts' = 0
    /\ report' = [kind |-> kind, n |-> n]

\* An action of the upload goroutine that ends the call without a body read.
EndsWith(kind) == Reported(kind, 0) /\ UNCHANGED <<bodyVars, stopVars>>

CloseBody(b) == closes' = [closes EXCEPT ![b] = @ + 1]

-----------------------------------------------------------------------------
(* streamingUpload.Read and readerUploadProvider.read                      *)

\* The native side asks for no more bytes than it was told of.
AskRead ==
    /\ pc = "idle" /\ report.kind \notin {"error", "final"}
    /\ Known => readLen < length
    /\ pc' = "readStart" /\ attempts' = 0
    /\ UNCHANGED <<providerVars, bodyVars, local, report, stopVars>>

ReadStart ==
    /\ pc = "readStart"
    /\ IF reader = NoBody
       THEN EndsWith("error")
       ELSE /\ pc' = "bodyRead" /\ local' = reader
            /\ UNCHANGED <<bodyVars, attempts, report, stopVars>>
    /\ UNCHANGED providerVars

Limit == IF Known THEN Smaller(room, length - readLen) ELSE room

\* A body of known length ends where it should, or unexpectedly.
EOFKind(n) ==
    IF ~Known THEN "final"
    ELSE IF readLen + n = length /\ n > 0 THEN "bytes" ELSE "error"

\* The body yields n bytes, and with or after its last one the end.  A read of
\* nothing is tried again.
BodyRead ==
    /\ pc = "bodyRead"
    /\ \E n \in 0..Smaller(Limit, BodySize - position[local]) :
          /\ position' = [position EXCEPT ![local] = @ + n]
          /\ readLen' = readLen + n
          /\ \/ n > 0 /\ Reported("bytes", n)
             \/ position'[local] = BodySize /\ Reported(EOFKind(n), n)
             \/ n = 0 /\ attempts + 1 = MaxAttempts /\ Reported("error", 0)
             \/ /\ n = 0 /\ attempts + 1 < MaxAttempts
                /\ attempts' = attempts + 1
                /\ pc' = "readStart" /\ local' = NoBody
                /\ UNCHANGED report
    /\ UNCHANGED <<reader, closed, length, opened, closes, stopVars>>

\* A body fails, at the latest when it is closed under the read.
BodyFails ==
    /\ pc = "bodyRead" /\ EndsWith("error")
    /\ UNCHANGED providerVars

-----------------------------------------------------------------------------
(* streamingUpload.Rewind and readerUploadProvider.rewind                  *)

AskRewind ==
    /\ pc = "idle" /\ report.kind # "error"
    /\ pc' = "rewindTake"
    /\ UNCHANGED <<providerVars, bodyVars, local, attempts, report, stopVars>>

RewindTake ==
    /\ pc = "rewindTake"
    /\ IF closed
       THEN EndsWith("error") /\ UNCHANGED reader
       ELSE /\ pc' = "rewindClose" /\ local' = reader
            /\ reader' = NoBody
            /\ UNCHANGED <<bodyVars, attempts, report, stopVars>>
    /\ UNCHANGED <<closed, length, readLen>>

RewindClose ==
    /\ pc = "rewindClose"
    /\ pc' = "getBody" /\ local' = NoBody
    /\ IF local = NoBody THEN UNCHANGED closes ELSE CloseBody(local)
    /\ UNCHANGED <<providerVars, opened, position, attempts, report, stopVars>>

\* getBody is absent, fails, or opens the next body.
GetBody ==
    /\ pc = "getBody"
    /\ \/ EndsWith("error")
       \/ /\ opened < MaxBodies
          /\ opened' = opened + 1
          /\ pc' = "rewindSet" /\ local' = opened'
          /\ UNCHANGED <<position, closes, attempts, report, stopVars>>
    /\ UNCHANGED providerVars

\* Mutated: a stop since rewindTake goes unnoticed.
RewindSetUnchecked ==
    /\ pc = "rewindSet"
    /\ reader' = local /\ readLen' = 0
    /\ Reported("rewound", 0)
    /\ UNCHANGED <<closed, length, bodyVars, stopVars>>

RewindSet ==
    /\ pc = "rewindSet"
    /\ IF closed
       THEN /\ CloseBody(local)
            /\ Reported("error", 0)
            /\ UNCHANGED <<reader, readLen>>
       ELSE /\ reader' = local /\ readLen' = 0
            /\ Reported("rewound", 0)
            /\ UNCHANGED closes
    /\ UNCHANGED <<closed, length, opened, position, stopVars>>

Upload ==
    \/ ReadStart \/ BodyRead \/ BodyFails
    \/ RewindTake \/ RewindClose \/ GetBody \/ RewindSet

-----------------------------------------------------------------------------
(* stop                                                                    *)

stop(s) ==
    /\ stopper[s] = "idle"
    /\ closed' = TRUE
    /\ reader' = NoBody
    /\ stopper' = [stopper EXCEPT ![s] = "close"]
    /\ taken' = [taken EXCEPT ![s] = reader]
    /\ UNCHANGED <<length, readLen, bodyVars, uploadVars>>

StopClose(s) ==
    /\ stopper[s] = "close"
    /\ stopper' = [stopper EXCEPT ![s] = "done"]
    /\ IF taken[s] = NoBody THEN UNCHANGED closes ELSE CloseBody(taken[s])
    /\ UNCHANGED <<providerVars, opened, position, uploadVars, taken>>

Next ==
    \/ AskRead \/ AskRewind \/ Upload
    \/ \E s \in Stoppers : stop(s) \/ StopClose(s)

Spec == Init /\ [][Next]_vars

\* Calls in progress go on, but a body may block until it is closed.
Fairness ==
    /\ WF_vars(ReadStart \/ RewindTake \/ RewindClose \/ GetBody \/ RewindSet)
    /\ WF_vars(pc = "bodyRead" /\ closes[local] > 0 /\ BodyFails)
    /\ \A s \in Stoppers : WF_vars(StopClose(s))

FairSpec == Spec /\ Fairness

-----------------------------------------------------------------------------
(* Properties.                                                             *)

\* Every variable stays within its type.
TypeOK ==
    /\ reader \in Bodies \cup {NoBody} /\ closed \in BOOLEAN
    /\ length \in Lengths
    /\ readLen \in 0..(IF Known THEN length ELSE BodySize)
    /\ opened \in Bodies
    /\ position \in [Bodies -> 0..BodySize]
    /\ closes \in [Bodies -> 0..1]
    /\ pc \in {"idle", "readStart", "bodyRead", "rewindTake", "rewindClose",
               "getBody", "rewindSet"}
    /\ local \in Bodies \cup {NoBody}
    /\ attempts \in 0..(MaxAttempts - 1)
    /\ report \in [kind : {"none", "bytes", "final", "error", "rewound"},
                   n : 0..room]
    /\ stopper \in [Stoppers -> {"idle", "close", "done"}]
    /\ taken \in [Stoppers -> Bodies \cup {NoBody}]

Owners == {"provider", "rewind"} \cup Stoppers

\* o is to close body b.
Owns(o, b) ==
    \/ o = "provider" /\ reader = b
    \/ /\ o = "rewind" /\ local = b
       /\ pc \in {"rewindClose", "rewindSet"}
    \/ o \in Stoppers /\ stopper[o] = "close" /\ taken[o] = b

\* Nothing stays open behind a stop.
StoppedMeansClosed ==
    closed /\ pc = "idle" /\ (\A s \in Stoppers : stopper[s] # "close") =>
        \A b \in 1..opened : closes[b] = 1

\* Each open body has exactly one owner who is to close it: the provider, the
\* rewind that replaces it, the rewind that has just opened it, or a stop that
\* took it.  So none is closed twice and none is forgotten; and once a stop and
\* the upload goroutine have come to rest, every body that was ever opened,
\* before the stop or in a rewind that raced it, is closed.
Ownership ==
    \A b \in Bodies :
        /\ (\E o \in Owners : Owns(o, b)) <=> b <= opened /\ closes[b] = 0
        /\ \A o, x \in Owners : Owns(o, b) /\ Owns(x, b) => o = x
OneOwner == StoppedMeansClosed /\ Ownership

\* The native side gets the bytes of one body from its start: what was read
\* since the last rewind is what the provider counts, and a known length is
\* neither exceeded nor ended by a final chunk.
CountsOneBody ==
    /\ reader # NoBody => readLen = position[reader]
    /\ Known => readLen <= length /\ report.kind # "final"

\* Every body has one owner and is closed by it, and the native side gets the
\* bytes of one body.
OneBody == OneOwner /\ CountsOneBody

\* stop unblocks an upload, however its body blocks, and a rewind under way
\* comes to its end.
StopUnblocks ==
    closed ~> (pc = "idle")

-----------------------------------------------------------------------------
(* The inductive invariant behind OneOwner and CountsOneBody.              *)

\* Where the upload goroutine is tells what its body and the provider's are.
Bookkeeping ==
    /\ closed => reader = NoBody
    /\ pc \in {"rewindClose", "getBody", "rewindSet"} => reader = NoBody
    /\ pc = "bodyRead" =>
          /\ local \in 1..opened /\ readLen = position[local]
          /\ reader # NoBody => local = reader
    /\ pc = "rewindSet" => local = opened /\ position[local] = 0
    /\ \A b \in Bodies : b > opened => position[b] = 0 /\ closes[b] = 0

IInv == TypeOK /\ Bookkeeping /\ Ownership /\ CountsOneBody

=============================================================================
