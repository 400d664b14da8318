----------------------------- MODULE BrowserConn -----------------------------
(***************************************************************************)
(* One connection of a BrowserXHTTPClient (browser_xhttp.go) and the       *)
(* client's Close.  A download request brings bytes for Read; Write fills  *)
(* a browserBatch, which is emptied by the uploader: in packet-up it posts *)
(* numbered packets, in stream-up and stream-one it is the body of one     *)
(* request, the post or the download itself.  A monitor ends the           *)
(* connection, or stops the upload when the download is done.              *)
(*                                                                         *)
(* A request is what StreamingRequest and BrowserDuplex promise: it is     *)
(* open until it ends or is cancelled, its first error stays, bytes come   *)
(* before the error, and it is done after that and after its body.         *)
(*                                                                         *)
(* A section of c.mu, b.mu or client.mu is one step; the context of a Read *)
(* or Write is the generation of the deadline it was made for.             *)
(***************************************************************************)
EXTENDS Naturals, FiniteSets

CONSTANTS Scenarios,    \* set of [mode : Mode, actors : SUBSET Actors]
          Max,          \* browserBatch.max, in bytes
          Limit,        \* ScMaxBufferedPosts
          MaxWrite,     \* bound on the bytes of one Write
          MaxBytes,     \* bound on the bytes written in all
          MaxBuffered   \* bound on the response bytes that wait for Read

Mode == {"packet-up", "stream-up", "stream-one"}

\* Who uses the connection: calls of Write, calls of Read on a download that has
\* bytes for them, Close of the connection ("owner"), Close of the client, and the
\* contexts that are cancelled: that of the dial and those of the deadlines.
Actors == {"writer", "reader", "owner", "client", "contexts"}

ASSUME ConstantsAssumption ==
    /\ Scenarios \subseteq [mode : Mode, actors : SUBSET Actors]
    /\ {Max, Limit, MaxWrite, MaxBytes} \subseteq Nat \ {0}
    /\ MaxBuffered \in Nat

Posts == 0..MaxBytes - 1

VARIABLES
    mode, actors,
    client,                             \* client.Close
    dial, registered,                   \* DialContext; conn is in c.conns
    err, cancelled, uploadCancelled,    \* c.err; cancel() and uploadCancel() ran
    closing, monitor,                   \* closeOnce's body, the goroutine of Dial
    data, closed, closeErr, waiting,    \* browserBatch; see below
    download, downloadDone, buffered,   \* c.reader
    post, bodyClosed,                   \* posts; the body of the stream
    uploader, seq, payload, piece,      \* see below
    waiter,                             \* the goroutines in post.wait
    wr, rd                              \* the calls of Write and Read

clientVars == <<mode, actors, client, dial, registered>>
endVars == <<err, cancelled, uploadCancelled>>
batchVars == <<closed, closeErr, waiting>>
requestVars == <<download, downloadDone, buffered, post, bodyClosed>>
uploadVars == <<uploader, seq, payload, piece>>
vars == <<clientVars, endVars, closing, monitor, data, batchVars,
          requestVars, uploadVars, waiter, wr, rd>>

\* A call of Write or Read: changed once its deadline is set anew.
Quiet == [pc |-> "idle", changed |-> FALSE, left |-> 0, err |-> "none",
          result |-> "none"]

\* data counts the bytes in the batch, payload and piece[i] are the stretch of
\* the stream <<from, to>> that the uploader has in hand and that packet i has.
Init ==
    /\ \E s \in Scenarios : mode = s.mode /\ actors = s.actors
    /\ client = "open" /\ dial = "none" /\ registered = FALSE
    /\ err = "none" /\ cancelled = FALSE /\ uploadCancelled = FALSE
    /\ closing = "no" /\ monitor = "none"
    /\ data = 0 /\ closed = FALSE /\ closeErr = "none" /\ waiting = {}
    /\ download = "none" /\ downloadDone = FALSE /\ buffered = 0
    /\ post = [i \in Posts |-> "none"] /\ bodyClosed = FALSE
    /\ uploader = "none" /\ seq = 0 /\ payload = <<0, 0>>
    /\ piece = [i \in Posts |-> <<0, 0>>]
    /\ waiter = [i \in Posts |-> "none"]
    /\ wr = Quiet /\ rd = Quiet

-----------------------------------------------------------------------------
(* Contexts, errors, and the batch.                                        *)

\* The context of a call is done: cancelled with the connection, or because a
\* new deadline replaced it; or its deadline has passed, which is left to chance.
CtxDone(call) == cancelled \/ call.changed

UploadCtxDone == uploadCancelled \/ cancelled

First(e, f) == IF e = "none" THEN f ELSE e

setError(e) == err' = First(err, e)

closeWithError(e) ==
    IF closed THEN UNCHANGED batchVars
    ELSE closed' = TRUE /\ closeErr' = e /\ waiting' = {}

\* A request is cancelled; one that has ended stays as it is.
Cancelled(state) == IF state = "open" THEN "canceled" ELSE state

\* The state of the request whose body is the batch.
Carrier == IF mode = "stream-up" THEN post[0] ELSE download

\* post.close and reader.close join the request and its body.
PostDone(i) ==
    /\ post[i] # "open"
    /\ mode = "stream-up" => bodyClosed /\ uploader = "gone"

UploadDone ==
    \/ mode = "stream-one"
    \/ mode = "stream-up" /\ waiter[0] = "gone"
    \/ mode = "packet-up" /\ uploader = "gone"

-----------------------------------------------------------------------------
(* The client.                                                             *)

\* Under client.mu; a dial that fails takes down what it had begun.
DialContext ==
    /\ dial = "none"
    /\ \/ /\ dial' = "failed"
          /\ UNCHANGED <<registered, monitor, download, post, uploader, waiter>>
       \/ /\ client = "open"
          /\ dial' = "open" /\ registered' = TRUE
          /\ monitor' = "watch" /\ download' = "open"
          /\ uploader' = IF mode = "packet-up" THEN "top" ELSE "drain"
          /\ IF mode = "stream-up"
             THEN /\ post' = [post EXCEPT ![0] = "open"]
                  /\ waiter' = [waiter EXCEPT ![0] = "wait"]
             ELSE UNCHANGED <<post, waiter>>
    /\ UNCHANGED <<mode, actors, client, endVars, closing, data, batchVars,
                   downloadDone, buffered, bodyClosed, seq, payload, piece, wr,
                   rd>>

ClientOnly ==
    UNCHANGED <<mode, actors, dial, registered, endVars, monitor, data,
                batchVars, requestVars, uploadVars, waiter, wr, rd>>

\* Whoever calls Close first runs the body of closeOnce, the others wait.
BeginClose == closing' = IF closing = "no" THEN "setError" ELSE closing

\* The section in which closed is set and the connections are taken, c.cancel,
\* and the beginning of the Close of a connection.
CloseClient ==
    /\ client = "open" /\ "client" \in actors
    /\ IF registered THEN client' = "join" /\ BeginClose
       ELSE client' = "shutdown" /\ UNCHANGED closing
    /\ ClientOnly

\* The engine is destroyed.
Shutdown ==
    /\ \/ client = "shutdown"
       \/ client = "join" /\ closing = "done"
    /\ client' = "done"
    /\ UNCHANGED closing
    /\ ClientOnly

-----------------------------------------------------------------------------
(* Close of the connection.                                                *)

Close ==
    /\ "owner" \in actors /\ dial = "open" /\ closing = "no"
    /\ BeginClose
    /\ UNCHANGED client
    /\ ClientOnly

CloseOnly == UNCHANGED <<mode, actors, client, dial, monitor, data, uploadVars,
                         waiter, wr, rd>>

CloseSetError ==
    /\ closing = "setError"
    /\ setError("closed")
    /\ closing' = "cancel"
    /\ UNCHANGED <<registered, cancelled, uploadCancelled, batchVars, requestVars>>
    /\ CloseOnly

\* All contexts of the connection are children of c.ctx.
CloseCancel ==
    /\ closing = "cancel"
    /\ cancelled' = TRUE
    /\ uploadCancelled' = TRUE
    /\ closing' = "writer"
    /\ UNCHANGED <<registered, err, batchVars, requestVars>>
    /\ CloseOnly

CloseWriter ==
    /\ closing = "writer"
    /\ closeWithError("pipe")
    /\ closing' = IF mode = "stream-up" THEN "post" ELSE "reader"
    /\ UNCHANGED <<registered, endVars, requestVars>>
    /\ CloseOnly

ClosePost ==
    /\ closing = "post"
    /\ post' = [post EXCEPT ![0] = Cancelled(@)]
    /\ closing' = "reader"
    /\ UNCHANGED <<registered, endVars, batchVars, download, downloadDone,
                   buffered, bodyClosed>>
    /\ CloseOnly

\* post.close returns before reader.close is called.
CloseReader ==
    /\ closing = "reader"
    /\ mode = "stream-up" => PostDone(0)
    /\ download' = Cancelled(download)
    /\ closing' = "join"
    /\ UNCHANGED <<registered, endVars, batchVars, downloadDone, buffered, post,
                   bodyClosed>>
    /\ CloseOnly

Removed ==
    /\ registered' = FALSE
    /\ closing' = "done"
    /\ UNCHANGED <<endVars, batchVars, requestVars>>
    /\ CloseOnly

\* Mutated: the uploader is not waited for.
RemoveEarly == closing = "join" /\ downloadDone /\ Removed

\* removeConn, once reader.close has returned and uploadDone is closed.
Remove == closing = "join" /\ downloadDone /\ UploadDone /\ Removed

CloseStep ==
    \/ CloseSetError \/ CloseCancel \/ CloseWriter \/ ClosePost
    \/ CloseReader \/ Remove

-----------------------------------------------------------------------------
(* The monitor.                                                            *)

MonitorOnly == UNCHANGED <<clientVars, cancelled, data, download,
                           downloadDone, buffered, bodyClosed, uploadVars,
                           waiter, wr, rd>>

\* The contexts of the dial and of the client.
MonitorCancel ==
    /\ monitor \in {"watch", "stopped"}
    /\ cancelled \/ client # "open"
    /\ setError("canceled")
    /\ BeginClose
    /\ monitor' = "gone"
    /\ UNCHANGED <<uploadCancelled, batchVars, post>>
    /\ MonitorOnly

Reason(e) == IF e = "EOF" THEN "pipe" ELSE e

\* Mutated: the batch is left for the cancelled upload to close.
StopUnexplained ==
    /\ monitor = "watch" /\ downloadDone
    /\ monitor' = "cancel"
    /\ UNCHANGED <<endVars, closing, batchVars, post>>
    /\ MonitorOnly

\* stopUpload gives the writers the reason before it cancels the upload.
StopClose ==
    /\ monitor = "watch" /\ downloadDone
    /\ closeWithError(Reason(download))
    /\ monitor' = "cancel"
    /\ UNCHANGED <<err, uploadCancelled, closing, post>>
    /\ MonitorOnly

StopCancel ==
    /\ monitor = "cancel"
    /\ uploadCancelled' = TRUE
    /\ monitor' = "cancelPost"
    /\ UNCHANGED <<err, closing, batchVars, post>>
    /\ MonitorOnly

StopPost ==
    /\ monitor = "cancelPost"
    /\ post' = IF mode = "stream-up" THEN [post EXCEPT ![0] = Cancelled(@)] ELSE post
    /\ monitor' = "stopped"
    /\ UNCHANGED <<err, uploadCancelled, closing, batchVars>>
    /\ MonitorOnly

Monitor == MonitorCancel \/ StopClose \/ StopCancel \/ StopPost

-----------------------------------------------------------------------------
(* The uploader: drain, and the loop of packet-up.                         *)

UploaderOnly == UNCHANGED <<clientVars, uploadCancelled, closing, monitor,
                            downloadDone, buffered, bodyClosed,
                            wr, rd>>

UploaderGoto(label) ==
    /\ uploader' = label
    /\ UNCHANGED <<err, cancelled, data, batchVars, download, post, seq, payload,
                   piece, waiter>>
    /\ UploaderOnly

Top ==
    /\ uploader = "top"
    /\ UploaderGoto(IF UploadCtxDone THEN "join" ELSE "drain")

\* Mutated: no signal for those who wait for room.
DrainSilent ==
    /\ uploader = "drain" /\ data > 0
    /\ payload' = <<payload[2], payload[2] + data>>
    /\ data' = 0
    /\ uploader' = IF mode = "packet-up" THEN "slot" ELSE "busy"
    /\ UNCHANGED <<err, cancelled, batchVars, download, post, seq, piece, waiter>>
    /\ UploaderOnly

Drain ==
    /\ uploader = "drain" /\ data > 0
    /\ payload' = <<payload[2], payload[2] + data>>
    /\ data' = 0
    /\ waiting' = {}
    /\ uploader' = IF mode = "packet-up" THEN "slot" ELSE "busy"
    /\ UNCHANGED <<err, cancelled, closed, closeErr, download, post, seq, piece,
                   waiter>>
    /\ UploaderOnly

DrainWait ==
    /\ uploader = "drain" /\ data = 0 /\ ~closed
    /\ uploader' = "waitData"
    /\ waiting' = waiting \cup {"uploader"}
    /\ UNCHANGED <<err, cancelled, data, closed, closeErr, download, post, seq,
                   payload, piece, waiter>>
    /\ UploaderOnly

DrainWoken ==
    /\ uploader = "waitData" /\ "uploader" \notin waiting
    /\ UploaderGoto("drain")

\* The end of its body ends a duplex request, which the stream of stream-one is
\* and the post of stream-up may be.
DrainEnd ==
    /\ uploader = "drain" /\ data = 0 /\ closed
    /\ uploader' = IF mode = "packet-up" THEN "join" ELSE "gone"
    /\ LET ended(state) == IF state = "open" THEN "EOF" ELSE state IN
       /\ download' = IF mode = "stream-one" THEN ended(download) ELSE download
       /\ post' \in {post} \cup IF mode = "stream-up"
                                THEN {[post EXCEPT ![0] = ended(@)]} ELSE {}
    /\ UNCHANGED <<err, cancelled, data, batchVars, seq, payload, piece, waiter>>
    /\ UploaderOnly

\* The bytes of a stream have been sent, or the request has ended.
BodySent ==
    /\ uploader = "busy"
    /\ UploaderGoto(IF Carrier = "open" THEN "drain" ELSE "gone")

InFlight == Cardinality({i \in Posts : waiter[i] \notin {"none", "gone"}})

\* Mutated: the limit on the packets in flight is off by one.
TakeSlotOneMore ==
    /\ uploader = "slot"
    /\ \/ UploadCtxDone /\ uploader' = "join" /\ UNCHANGED seq
       \/ InFlight <= Limit /\ uploader' = "start" /\ seq' = seq + 1
    /\ UNCHANGED <<err, cancelled, data, batchVars, download, post, payload,
                   piece, waiter>>
    /\ UploaderOnly

\* After a delay the packet gets its number, and waits for a slot.
TakeSlot ==
    /\ uploader = "slot"
    /\ \/ UploadCtxDone /\ uploader' = "join" /\ UNCHANGED seq
       \/ InFlight < Limit /\ uploader' = "start" /\ seq' = seq + 1
    /\ UNCHANGED <<err, cancelled, data, batchVars, download, post, payload,
                   piece, waiter>>
    /\ UploaderOnly

Posted ==
    /\ post' = [post EXCEPT ![seq - 1] = "open"]
    /\ piece' = [piece EXCEPT ![seq - 1] = payload]
    /\ waiter' = [waiter EXCEPT ![seq - 1] = "wait"]
    /\ uploader' = "top"
    /\ UNCHANGED <<err, cancelled, data, batchVars, download, seq, payload>>
    /\ UploaderOnly

\* Mutated: a packet that cannot be posted is skipped.
startPacketSkip ==
    /\ uploader = "start"
    /\ Posted \/ UploaderGoto("top")

startPacket ==
    /\ uploader = "start"
    /\ Posted \/ UploaderGoto(IF UploadCtxDone THEN "join" ELSE "setError")

\* A failed upload takes the connection down: setError, closeWithError,
\* reader.cancel, cancel.
FailStep(at, to) ==
    \/ /\ at = "setError" /\ to = "closeBatch"
       /\ setError("upload")
       /\ UNCHANGED <<cancelled, batchVars, download>>
    \/ /\ at = "closeBatch" /\ to = "cancelReader"
       /\ closeWithError("upload")
       /\ UNCHANGED <<err, cancelled, download>>
    \/ /\ at = "cancelReader" /\ to = "cancel"
       /\ download' = Cancelled(download)
       /\ UNCHANGED <<err, cancelled, batchVars>>
    \/ /\ at = "cancel" /\ to = "failed"
       /\ cancelled' = TRUE
       /\ UNCHANGED <<err, batchVars, download>>

FailLabels == {"closeBatch", "cancelReader", "cancel", "failed"}

UploaderFails ==
    /\ \E to \in FailLabels :
          /\ FailStep(uploader, to)
          /\ uploader' = IF to = "failed" THEN "join" ELSE to
    /\ UNCHANGED <<data, post, seq, payload, piece, waiter>>
    /\ UploaderOnly

\* uploads.Wait
UploadsJoined ==
    /\ uploader = "join"
    /\ InFlight = 0
    /\ UploaderGoto("gone")

Uploader ==
    \/ Top \/ Drain \/ DrainWait \/ DrainWoken \/ DrainEnd
    \/ TakeSlot \/ startPacket \/ UploaderFails \/ UploadsJoined

-----------------------------------------------------------------------------
(* A goroutine in post.wait: one for each packet, or for the stream.       *)

WaiterOnly == UNCHANGED <<clientVars, uploadCancelled, closing, monitor,
                          data, downloadDone, buffered,
                          bodyClosed, uploadVars, wr, rd>>

WaiterGoto(i, label) == waiter' = [waiter EXCEPT ![i] = label]

\* post.wait ends with the response or with the context, and closes the request.
\* Nobody else sees how a packet is answered.
WaitEnds(i) ==
    /\ waiter[i] = "wait"
    /\ \/ /\ mode = "packet-up" \/ post[i] = "EOF"
          /\ WaiterGoto(i, "succeeded")
       \/ /\ \/ mode = "packet-up" \/ UploadCtxDone
             \/ post[i] \in {"failed", "canceled"}
          /\ WaiterGoto(i, "erred")
    /\ post' = [post EXCEPT ![i] = Cancelled(@)]
    /\ UNCHANGED <<err, cancelled, batchVars, download>>
    /\ WaiterOnly

\* Only an error that no cancellation of the upload explains counts.
WaitReturns(i) ==
    /\ PostDone(i)
    /\ \/ /\ waiter[i] = "succeeded"
          /\ WaiterGoto(i, "gone")
          /\ IF mode = "stream-up" THEN closeWithError("pipe") ELSE UNCHANGED batchVars
       \/ /\ waiter[i] = "erred"
          /\ WaiterGoto(i, IF UploadCtxDone THEN "gone" ELSE "setError")
          /\ UNCHANGED batchVars
    /\ UNCHANGED <<err, cancelled, download, post>>
    /\ WaiterOnly

WaiterFails(i) ==
    /\ \E to \in FailLabels :
          /\ FailStep(waiter[i], to)
          /\ WaiterGoto(i, IF to = "failed" THEN "gone" ELSE to)
    /\ UNCHANGED post
    /\ WaiterOnly

Waiter(i) == WaitReturns(i) \/ WaiterFails(i)

-----------------------------------------------------------------------------
(* Write, under writeMu, and browserBatch.writeContext.                    *)

Bytes == payload[2] + data      \* the batch has accepted

WriteOnly == UNCHANGED <<clientVars, endVars, closing, monitor, closed, closeErr,
                         requestVars, uploadVars, waiter, rd>>

\* Most steps of Write only move on.
WriteMoves(call) ==
    /\ wr' = call
    /\ waiting' = waiting \ {"writer"}
    /\ UNCHANGED data
    /\ WriteOnly

\* A call is over; result is its error, none also for a timeout, after which the
\* caller may go on.
Returned(e) == [Quiet EXCEPT !.result = IF e = "deadline" THEN "none" ELSE e]

Write(n) ==
    /\ "writer" \in actors /\ dial = "open" /\ wr.pc = "idle" /\ wr.result = "none"
    /\ Bytes + n <= MaxBytes
    /\ WriteMoves([Quiet EXCEPT !.pc = "check", !.left = n])

WriteCheck ==
    /\ wr.pc = "check"
    /\ WriteMoves(IF err # "none" THEN Returned(err)
                  ELSE [wr EXCEPT !.pc = "context", !.changed = FALSE])

WriteFails(e) == WriteMoves([wr EXCEPT !.pc = "failed", !.err = e])

WriteContext ==
    /\ wr.pc = "context"
    /\ IF CtxDone(wr) THEN WriteFails("canceled")
       ELSE WriteMoves([wr EXCEPT !.pc = "lock"])

\* The section of b.mu: closed, room for some bytes, or full.
WriteLock ==
    /\ wr.pc = "lock"
    /\ \/ closed /\ WriteFails(closeErr)
       \/ /\ ~closed /\ data < Max
          /\ LET n == IF wr.left < Max - data THEN wr.left ELSE Max - data IN
             /\ data' = data + n
             /\ wr' = IF n = wr.left THEN Returned("none")
                      ELSE [wr EXCEPT !.pc = "context", !.left = @ - n]
          /\ waiting' = {}
          /\ WriteOnly
       \/ /\ ~closed /\ data = Max
          /\ wr' = [wr EXCEPT !.pc = "wait"]
          /\ waiting' = waiting \cup {"writer"}
          /\ UNCHANGED data
          /\ WriteOnly

WriteWait ==
    /\ wr.pc = "wait"
    /\ \/ "writer" \notin waiting /\ WriteMoves([wr EXCEPT !.pc = "context"])
       \/ CtxDone(wr) /\ WriteFails("canceled")

WriteDeadline ==
    /\ "contexts" \in actors /\ wr.pc \in {"context", "wait"}
    /\ WriteFails("deadline")

\* The error of the connection comes first; a context cancelled because the
\* deadline was changed is none.
WriteFailed ==
    /\ wr.pc = "failed"
    /\ LET e == First(err, wr.err) IN
       WriteMoves(IF e = "canceled" /\ wr.changed
                  THEN [wr EXCEPT !.pc = "retry"]
                  ELSE Returned(e))

WriteRetry ==
    /\ wr.pc = "retry"
    /\ WriteMoves(IF cancelled THEN Returned("canceled")
                  ELSE [wr EXCEPT !.pc = "check"])

WriteStep == WriteCheck \/ WriteContext \/ WriteLock \/ WriteWait
             \/ WriteFailed \/ WriteRetry

-----------------------------------------------------------------------------
(* Read.                                                                   *)

ReadOnly == UNCHANGED <<clientVars, cancelled, uploadCancelled, monitor,
                        data, batchVars, download, downloadDone,
                        post, bodyClosed, uploadVars, waiter, wr>>

ReadMoves(call) == rd' = call /\ UNCHANGED <<err, closing, buffered>> /\ ReadOnly

Read ==
    /\ "reader" \in actors /\ dial = "open" /\ rd.pc = "idle" /\ rd.result = "none"
    /\ ReadMoves([Quiet EXCEPT !.pc = "check"])

ReadCheck ==
    /\ rd.pc = "check"
    /\ ReadMoves(IF err # "none" THEN Returned(err)
                 ELSE [rd EXCEPT !.pc = "read", !.changed = FALSE])

ReadFails(e) == ReadMoves([rd EXCEPT !.pc = "failed", !.err = e])

\* c.reader.readContext: bytes, then the error, unless the context comes first.
readContext ==
    /\ rd.pc = "read"
    /\ \/ /\ buffered > 0
          /\ \E n \in 1..buffered : buffered' = buffered - n
          /\ rd' = Returned("none")
          /\ UNCHANGED <<err, closing>>
          /\ ReadOnly
       \/ buffered = 0 /\ download # "open" /\ ReadFails(download)
       \/ CtxDone(rd) /\ ReadFails("canceled")

ReadDeadline == "contexts" \in actors /\ rd.pc = "read" /\ ReadFails("deadline")

\* An error that is not a timeout ends the connection.
ReadEnds(e) ==
    ReadMoves(IF e = "deadline" THEN Returned(e)
              ELSE [rd EXCEPT !.pc = "close", !.err = e])

ReadFailed ==
    /\ rd.pc = "failed"
    /\ LET e == First(err, rd.err) IN
       IF e = "canceled" /\ rd.changed
       THEN ReadMoves([rd EXCEPT !.pc = "retry"])
       ELSE ReadEnds(e)

ReadRetry ==
    /\ rd.pc = "retry"
    /\ IF cancelled THEN ReadEnds("canceled")
       ELSE ReadMoves([rd EXCEPT !.pc = "check"])

ReadCloses ==
    /\ rd.pc = "close"
    /\ setError(rd.err)
    /\ BeginClose
    /\ rd' = [rd EXCEPT !.pc = "join"]
    /\ UNCHANGED buffered
    /\ ReadOnly

ReadJoin ==
    /\ rd.pc = "join" /\ closing = "done"
    /\ ReadMoves(Returned(rd.err))

ReadStep == ReadCheck \/ readContext \/ ReadFailed \/ ReadRetry
            \/ ReadCloses \/ ReadJoin

-----------------------------------------------------------------------------
(* The caller's contexts and deadlines, and the requests.                  *)

CancelDial ==
    /\ "contexts" \in actors /\ dial = "open" /\ ~cancelled
    /\ cancelled' = TRUE
    /\ UNCHANGED <<clientVars, err, uploadCancelled, closing, monitor, data,
                   batchVars, requestVars, uploadVars, waiter, wr, rd>>

\* A new deadline cancels the context of the call that has captured the old one.
SetWriteDeadline ==
    /\ "contexts" \in actors /\ wr.pc \notin {"idle", "check"}
    /\ wr' = [wr EXCEPT !.changed = TRUE]
    /\ UNCHANGED <<data, waiting>>
    /\ WriteOnly

SetReadDeadline ==
    /\ "contexts" \in actors /\ rd.pc \in {"read", "failed"}
    /\ ReadMoves([rd EXCEPT !.changed = TRUE])

RequestOnly == UNCHANGED <<clientVars, endVars, closing, monitor, data, uploadVars,
                           waiter, wr, rd>>

NetBytes ==
    /\ "reader" \in actors /\ download = "open" /\ buffered < MaxBuffered
    /\ buffered' = buffered + 1
    /\ UNCHANGED <<batchVars, download, downloadDone, post, bodyClosed>>
    /\ RequestOnly

NetEnd(e) ==
    /\ download = "open"
    /\ download' = e
    /\ UNCHANGED <<batchVars, downloadDone, buffered, post, bodyClosed>>
    /\ RequestOnly

NetPost(e) ==
    /\ mode = "stream-up" /\ post[0] = "open"
    /\ post' = [post EXCEPT ![0] = e]
    /\ UNCHANGED <<batchVars, download, downloadDone, buffered, bodyClosed>>
    /\ RequestOnly

\* A request that has ended closes its body, and is done after it.
CloseBody ==
    /\ dial = "open" /\ mode # "packet-up"
    /\ Carrier # "open" /\ ~bodyClosed
    /\ bodyClosed' = TRUE
    /\ closeWithError("pipe")
    /\ UNCHANGED <<download, downloadDone, buffered, post>>
    /\ RequestOnly

DownloadDone ==
    /\ download \notin {"none", "open"} /\ ~downloadDone
    /\ mode = "stream-one" => bodyClosed /\ uploader = "gone"
    /\ downloadDone' = TRUE
    /\ UNCHANGED <<batchVars, download, buffered, post, bodyClosed>>
    /\ RequestOnly

-----------------------------------------------------------------------------

Next ==
    \/ DialContext \/ Close \/ CloseStep
    \/ CloseClient \/ Shutdown
    \/ Monitor \/ Uploader \/ BodySent
    \/ \E i \in Posts : WaitEnds(i) \/ Waiter(i)
    \/ \E e \in {"EOF", "failed"} : NetPost(e)
    \/ \E n \in 1..MaxWrite : Write(n)
    \/ WriteStep \/ Read \/ ReadStep
    \/ CancelDial \/ SetWriteDeadline \/ SetReadDeadline
    \/ WriteDeadline \/ ReadDeadline
    \/ NetBytes \/ CloseBody \/ DownloadDone
    \/ \E e \in {"EOF", "download"} : NetEnd(e)

Spec == Init /\ [][Next]_vars

\* Goroutines run, and a request that has ended is cleaned up.  Callers, the
\* peer, deadlines and the transport of a stream's bytes owe nothing.
Fairness ==
    /\ WF_vars(CloseStep)
    /\ WF_vars(Shutdown)
    /\ WF_vars(Monitor) /\ WF_vars(Uploader)
    /\ WF_vars(Carrier # "open" /\ BodySent)
    /\ \A i \in Posts :
          /\ WF_vars(Waiter(i))
          /\ WF_vars((UploadCtxDone \/ post[i] # "open") /\ WaitEnds(i))
    /\ WF_vars(WriteStep) /\ WF_vars(ReadStep)
    /\ WF_vars(CloseBody) /\ WF_vars(DownloadDone)

FairSpec == Spec /\ Fairness

-----------------------------------------------------------------------------
(* Properties.                                                             *)

Errors == {"none", "closed", "canceled", "deadline", "pipe", "EOF", "download",
           "upload"}

CallType(pcs) ==
    [pc : {"idle", "check", "failed", "retry"} \cup pcs,
     changed : BOOLEAN, left : 0..MaxWrite, err : Errors,
     result : Errors]

\* Every variable stays within its type: no more bytes in the batch than it
\* holds, and no more packets in flight than the limit.
TypeOK ==
    /\ [mode |-> mode, actors |-> actors] \in Scenarios
    /\ client \in {"open", "join", "shutdown", "done"}
    /\ dial \in {"none", "failed", "open"}
    /\ {registered, cancelled, uploadCancelled, closed, downloadDone, bodyClosed}
          \subseteq BOOLEAN
    /\ err \in Errors /\ closeErr \in Errors
    /\ closing \in {"no", "setError", "cancel", "writer", "post", "reader",
                    "join", "done"}
    /\ monitor \in {"none", "watch", "cancel", "cancelPost", "stopped", "gone"}
    /\ data \in 0..Max /\ waiting \subseteq {"writer", "uploader"}
    /\ download \in {"none", "open", "EOF", "download", "canceled"}
    /\ buffered \in 0..MaxBuffered
    /\ post \in [Posts -> {"none", "open", "EOF", "failed", "canceled"}]
    /\ uploader \in {"none", "top", "drain", "waitData", "busy", "slot", "start",
                     "join", "gone"} \cup (FailLabels \cup {"setError"})
    /\ seq \in 0..MaxBytes
    /\ payload \in (0..MaxBytes) \X (0..MaxBytes)
    /\ piece \in [Posts -> (0..MaxBytes) \X (0..MaxBytes)]
    /\ waiter \in [Posts -> {"none", "wait", "succeeded", "erred", "gone",
                             "setError"} \cup FailLabels]
    /\ InFlight <= Limit
    /\ wr \in CallType({"context", "lock", "wait"})
    /\ rd \in CallType({"read", "close", "join"})

\* What Close leaves behind: no request, no uploader, no goroutine that waits for
\* a packet; and the engine is not destroyed before that of any connection.
CloseLeavesNothing ==
    /\ closing = "done" =>
          /\ downloadDone /\ UploadDone /\ uploader = "gone"
          /\ \A i \in Posts : post[i] # "open" /\ waiter[i] \in {"none", "gone"}
    /\ client = "done" => dial # "open" \/ closing = "done"

\* The packets that were posted carry the stream without a gap: each begins
\* where the one numbered before it ends.
NoGap ==
    mode = "packet-up" =>
        \A i \in Posts : post[i] # "none" =>
            IF i = 0 THEN piece[i][1] = 0
            ELSE post[i - 1] # "none" /\ piece[i][1] = piece[i - 1][2]

\* What explains that the batch was closed without a reason: a cancellation, a clean
\* end of the download, or the clean-up of the request that carries the batch, which
\* closes its body when that request has ended by itself.  The carrier of stream-one
\* is the download, the clean-up of which runs before the monitor hears of its end.
Piped ==
    \/ cancelled
    \/ download = "EOF"
    \/ mode = "stream-up" /\ post[0] \in {"EOF", "failed"}
    \/ mode = "stream-one" /\ bodyClosed

\* Errors tell what happened.  A call reports a cancellation only if somebody
\* cancelled, not when its deadline was changed; and an end or a failure of the
\* download only if that is how it ended.  A Read never reports that the batch is
\* closed.  A Write does so only when Piped explains it: the failure of a download is
\* told, or an error that was published before, unless the download itself carries
\* the batch (stream-one) or the post that carries it has ended as well (stream-up).
ErrorsTellWhy ==
    /\ "canceled" \in {wr.result, rd.result} =>
          cancelled \/ client # "open"
    /\ \A e \in {"EOF", "download"} :
          e \in {wr.result, rd.result} => download = e
    /\ rd.result # "pipe"
    /\ wr.result = "pipe" => Piped

\* Calls return: both closes do, whatever is full or in flight, and a Write that
\* waits for room is waiting by room, by the end and by its deadline.  The end of
\* the download stops the upload.
CallsReturn ==
    /\ (closing # "no") ~> (closing = "done")
    /\ (client # "open") ~> (client = "done")
    /\ (wr.pc = "wait" /\ (data < Max \/ closed \/ CtxDone(wr)))
          ~> (wr.pc # "wait")
    /\ downloadDone ~> (closed /\ uploader = "gone")

\* The promise of README.md and of DialContext: when the download has ended, the
\* bytes of the response that wait are delivered before an error is published.
\* A failed upload publishes its own at once, after which Read returns only that.
DrainedFirst ==
    [][err = "none" /\ err' = "upload" => ~(downloadDone /\ buffered > 0)]_vars

-----------------------------------------------------------------------------
(* The inductive invariant behind TypeOK, CloseLeavesNothing, NoGap and    *)
(* ErrorsTellWhy.                                                          *)

\* A connection that was not made does nothing, and one that was has all its parts.
Birth ==
    IF dial = "open"
    THEN /\ monitor # "none" /\ uploader # "none" /\ download # "none"
         /\ mode = "stream-up" => post[0] # "none"
    ELSE /\ ~registered /\ ~cancelled /\ ~uploadCancelled /\ ~closed
         /\ closing = "no" /\ monitor = "none" /\ err = "none"
         /\ uploader = "none" /\ seq = 0 /\ payload = <<0, 0>>
         /\ download = "none" /\ \A i \in Posts : post[i] = "none"
         /\ wr = Quiet /\ rd = Quiet

\* The client knows a connection until it is closed, and waits for that.
Membership ==
    /\ registered => closing # "done"
    /\ dial = "open" => registered \/ closing = "done"
    /\ client = "join" => closing # "no"
    /\ client \in {"shutdown", "done"} => dial # "open" \/ closing = "done"

\* What a request and its waiter know of each other in every mode, and where the
\* uploader of a mode may be; it leaves no packet behind, nor does the waiter of a
\* stream leave its body, and a number is taken with a slot.
Flight ==
    /\ \A i \in Posts :
          /\ post[i] = "none" <=> waiter[i] = "none"
          /\ post[i] = "open" => waiter[i] = "wait"
          /\ mode = "stream-one" \/ (mode = "stream-up" /\ i # 0) =>
                waiter[i] = "none"
    /\ IF mode = "packet-up"
       THEN /\ uploader # "busy"
            /\ uploader = "gone" =>
                  \A i \in Posts : waiter[i] \in {"none", "gone"}
            /\ uploader = "start" => InFlight < Limit
       ELSE uploader \in {"none", "drain", "waitData", "busy", "gone"} /\ seq = 0
    /\ mode = "stream-up" /\ waiter[0] \in {"gone", "setError"} \cup FailLabels =>
          PostDone(0)

\* The n packets that were numbered first carry the stream up to byte to.
Reaches(n, to) ==
    IF n = 0 THEN to = 0 ELSE post[n - 1] # "none" /\ piece[n - 1][2] = to

\* Bytes are numbered as they are written, and packets as they are posted.
Numbering ==
    /\ Bytes + wr.left <= MaxBytes /\ seq <= payload[2]
    /\ uploader = "slot" => seq <= payload[1] /\ payload[1] < payload[2]
    /\ uploader = "start" =>
          0 < seq /\ seq - 1 <= payload[1] /\ payload[1] < payload[2]
    /\ mode = "packet-up" =>
          /\ \A i \in Posts : post[i] # "none" =>
                i < seq /\ (uploader = "start" => i < seq - 1)
          /\ uploader \in {"top", "drain", "waitData"} => Reaches(seq, payload[2])
          /\ uploader = "slot" => Reaches(seq, payload[1])
          /\ uploader = "start" => Reaches(seq - 1, payload[1])

\* What the ends of the requests and of the connection leave.
Ending ==
    /\ downloadDone =>
          /\ download \notin {"none", "open"}
          /\ mode = "stream-one" => uploader = "gone"
    /\ closing = "done" => downloadDone /\ UploadDone

\* Who takes the connection down has published why, and then closed the batch.
Failing(at) ==
    /\ at \in {"closeBatch", "cancelReader", "cancel"} => err # "none"
    /\ at \in {"cancelReader", "cancel"} => closed

\* Who cancelled, and what became of the batch.
Cancels ==
    /\ closing \in {"writer", "post", "reader", "join", "done"} => cancelled
    /\ monitor \in {"cancel", "cancelPost", "stopped"} => closed
    /\ uploadCancelled => cancelled \/ closed
    /\ download = "canceled" => cancelled \/ (closed /\ err # "none")
    /\ Failing(uploader) /\ \A i \in Posts : Failing(waiter[i])
    /\ mode = "stream-up" =>
          /\ post[0] = "canceled" => cancelled \/ closed
          /\ waiter[0] = "succeeded" => post[0] = "EOF"

\* Why an error is what it is, from where it begins to the call that returns it.
Ended == cancelled \/ client # "open"
Real(e) == e \in {"EOF", "download"} => download = e

Reasons ==
    /\ closeErr = "canceled" => cancelled
    /\ wr.pc = "failed" /\ wr.err = "canceled" => CtxDone(wr)
    /\ rd.pc = "failed" /\ rd.err = "canceled" => CtxDone(rd) \/ err # "none"
    /\ rd.pc \in {"close", "join"} /\ rd.err = "canceled" => Ended
    /\ "canceled" \in {err, wr.result, rd.result} => Ended
    /\ \A e \in {err, closeErr, wr.err, wr.result, rd.err, rd.result} : Real(e)
    /\ "pipe" \notin {err, rd.err, rd.result}
    /\ "pipe" \in {closeErr, wr.err, wr.result} => Piped

IInv == TypeOK /\ Birth /\ Membership /\ Flight /\ Numbering /\ NoGap
        /\ Ending /\ Cancels /\ Reasons

=============================================================================
