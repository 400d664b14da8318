---------------------------- MODULE BrowserDuplex ----------------------------
(***************************************************************************)
(* browserDuplexRequest of browser_xhttp_duplex.go: one native             *)
(* bidirectional stream used as an HTTP exchange.  Readers take response   *)
(* bytes, an upload worker moves bytes from a reader into the stream, the  *)
(* engine's network thread calls back, and a clean-up goroutine frees the  *)
(* two native buffers once the stream has ended and the worker has left.   *)
(*                                                                         *)
(* A section of r.mu is one step.  The channel r.notify, closed and        *)
(* replaced at each signal, is the set of the waiters that were signalled  *)
(* since they looked; r.done is closed exactly when r.terminal is set.     *)
(* With gRPC framing a reader collects the pieces of a message under the   *)
(* decoder's mutex, possibly in several calls of readRawContext.           *)
(***************************************************************************)
EXTENDS Naturals

CONSTANTS Readers, Closers,     \* goroutines that call Read, and close
          None,                 \* see NativeStream
          MaxChunk              \* bound on the bytes of one native read

ASSUME ConstantsAssumption ==
    /\ MaxChunk \in Nat \ {0}
    /\ "worker" \notin Readers /\ None # "request"

\* Both native buffers belong to the request.
Threads == {"request"}
Dirs == {"read", "write"}

VARIABLES
    framed,                             \* gRPC framing
    started, ready, haveHeaders, readPending, writePending,
    cancelled, terminal, err,
    pending,                            \* len(r.pending)
    woken,                              \* waiters whose notify channel is closed
    app,                                \* start
    pc,                                 \* control of readers and closers
    worker, body,                       \* runUpload, and what its body yielded
    uploadClosed, cleanup,              \* the clean-up goroutine
    net, responded,                     \* callback in progress; headers are sent
    native, held, cancelPosted, eof, destroys   \* see NativeStream

flags == <<framed, started, ready, haveHeaders>>
endVars == <<err, cancelled, terminal, cancelPosted, destroys, woken>>
goVars == <<app, pc, worker, body>>
cleanupVars == <<uploadClosed, cleanup>>
netVars == <<net, responded>>
vars == <<flags, readPending, writePending, pending, endVars, goVars,
          cleanupVars, netVars, native, held, eof>>

Idle == [do |-> "none", n |-> 0, err |-> "none"]
Callback(do, n, e) == [do |-> do, n |-> n, err |-> e]

Init ==
    /\ framed \in BOOLEAN
    /\ started = FALSE /\ ready = FALSE /\ haveHeaders = FALSE
    /\ readPending = FALSE /\ writePending = FALSE
    /\ cancelled = FALSE /\ terminal = FALSE /\ err = "none"
    /\ pending = 0
    /\ woken = {}
    /\ app = "new"
    /\ pc = [p \in Readers \cup Closers |-> "idle"]
    /\ worker = "await" /\ body = "none"
    /\ uploadClosed = FALSE /\ cleanup = "await"
    /\ net = Idle /\ responded = FALSE
    /\ native = "created" /\ held = [d \in Dirs |-> None]
    /\ cancelPosted = FALSE /\ eof = FALSE /\ destroys = 0

-----------------------------------------------------------------------------
(* What several sections of r.mu do.                                       *)

Waiters == Readers \cup {"worker"}

First(e) == IF err = "none" THEN e ELSE err

Failed == terminal \/ err # "none"

finishLocked(e) ==
    IF terminal
    THEN UNCHANGED endVars
    ELSE /\ terminal' = TRUE
         /\ err' = First(e)
         /\ destroys' = destroys + 1
         /\ woken' = Waiters
         /\ UNCHANGED <<cancelled, cancelPosted>>

\* Mutated: a request that was not started may be cancelled twice.
cancelUnstarted(e) ==
    IF ~started
    THEN /\ terminal' = TRUE
         /\ err' = First(e)
         /\ destroys' = destroys + 1
         /\ woken' = Waiters
         /\ UNCHANGED <<cancelled, cancelPosted>>
    ELSE /\ err' = First(e)
         /\ cancelled' = (cancelled \/ ~terminal)
         /\ cancelPosted' = (cancelPosted \/ (native = "running" /\ ~terminal))
         /\ woken' = Waiters
         /\ UNCHANGED <<terminal, destroys>>

\* The native Cancel has no effect on a stream that has ended.
cancelLocked(e) ==
    IF ~started /\ ~terminal
    THEN finishLocked(e)
    ELSE /\ err' = First(e)
         /\ cancelled' = (cancelled \/ ~terminal)
         /\ cancelPosted' = (cancelPosted \/ (native = "running" /\ ~terminal))
         /\ woken' = Waiters
         /\ UNCHANGED <<terminal, destroys>>

\* A buffer given to a stream that has ended is not used.
Lend(d) ==
    held' = IF native = "running" THEN [held EXCEPT ![d] = "request"] ELSE held

\* The native Read may refuse.
startReadLocked(headers) ==
    IF ~headers \/ readPending \/ Failed
    THEN UNCHANGED <<readPending, held, endVars>>
    ELSE /\ readPending' = TRUE
         /\ \/ Lend("read") /\ UNCHANGED endVars
            \/ cancelLocked("read") /\ UNCHANGED held

-----------------------------------------------------------------------------
(* start and close                                                         *)

\* Mutated: a cancellation before start goes unnoticed.
startAnyway ==
    /\ app = "new"
    /\ \/ native' = "refused" /\ app' = "await"
          /\ finishLocked("start") /\ UNCHANGED started
       \/ native' = "running" /\ app' = "running"
          /\ started' = TRUE /\ UNCHANGED endVars
    /\ UNCHANGED <<framed, ready, haveHeaders, readPending, writePending, pending,
                   pc, worker, body, cleanupVars, netVars, held, eof>>

start ==
    /\ app = "new"
    /\ \/ terminal /\ app' = "failed"
          /\ UNCHANGED <<started, native, endVars>>
       \/ ~terminal /\ native' = "refused" /\ app' = "await"
          /\ finishLocked("start") /\ UNCHANGED started
       \/ ~terminal /\ native' = "running" /\ app' = "running"
          /\ started' = TRUE /\ UNCHANGED endVars
    /\ UNCHANGED <<framed, ready, haveHeaders, readPending, writePending, pending,
                   pc, worker, body, cleanupVars, netVars, held, eof>>

StartReturns ==
    /\ app = "await" /\ cleanup = "done"
    /\ app' = "failed"
    /\ UNCHANGED <<flags, readPending, writePending, pending, endVars, pc,
                   worker, body, cleanupVars, netVars, native, held, eof>>

Goto(p, label) == pc' = [pc EXCEPT ![p] = label]

\* A step of a goroutine p, from one label to another, that does nothing else.
Step(p, from, to) ==
    /\ pc[p] = from
    /\ Goto(p, to)
    /\ UNCHANGED <<flags, readPending, writePending, pending, endVars, app,
                   worker, body, cleanupVars, netVars, native, held, eof>>

\* A context or the owner cancels and does not wait.  Once err is set, one more
\* cancellation only signals, as close does.
cancel ==
    /\ err = "none"
    /\ cancelLocked("canceled")
    /\ UNCHANGED <<flags, readPending, writePending, pending, goVars,
                   cleanupVars, netVars, native, held, eof>>

close(p) ==
    /\ pc[p] = "idle"
    /\ cancelLocked("canceled")
    /\ Goto(p, "join")
    /\ UNCHANGED <<flags, readPending, writePending, pending, app, worker, body,
                   cleanupVars, netVars, native, held, eof>>

\* The decoder's mutex is held by a reader between these labels.
Decoding == framed /\ \E p \in Readers : pc[p] \in {"look", "wait", "decode"}

\* close waits for cleanupDone and, with a decoder, releases it.
CloseReturns(p) ==
    /\ cleanup = "done" /\ ~Decoding
    /\ Step(p, "join", "closed")

-----------------------------------------------------------------------------
(* Reading                                                                 *)

Read(p) == ~Decoding /\ Step(p, "idle", "look")

\* readRawContext: bytes that are there come before the error.  An error other
\* than the plain end or a cancellation is reported to cancelLocked by
\* readContext, and so is an end in the middle of a message.
Look(p) ==
    /\ pc[p] = "look"
    /\ \/ /\ pending > 0
          /\ \E k \in 1..pending : pending' = pending - k
          /\ IF pending' = 0
             THEN startReadLocked(haveHeaders)
             ELSE UNCHANGED <<readPending, held, endVars>>
          /\ Goto(p, IF framed THEN "decode" ELSE "idle")
       \/ /\ pending = 0 /\ err # "none"
          /\ \E label \in {"idle", "reject"} :
                /\ label = "reject" => framed /\ err # "canceled"
                /\ label = "idle" => ~framed \/ err \in {"canceled", "EOF"}
                /\ Goto(p, label)
          /\ UNCHANGED <<pending, readPending, held, endVars>>
       \/ /\ pending = 0 /\ err = "none"
          /\ Goto(p, "wait")
          /\ woken' = woken \ {p}
          /\ UNCHANGED <<pending, readPending, held, err, cancelled, terminal,
                         cancelPosted, destroys>>
    /\ UNCHANGED <<flags, writePending, app, worker, body, cleanupVars, netVars,
                   native, eof>>

Wake(p) == p \in woken /\ Step(p, "wait", "look")

ContextDone(p) == Step(p, "look", "idle") \/ Step(p, "wait", "idle")

\* The bytes end a message that is well-formed or not, or more are needed.
Decode(p) == \E label \in {"look", "idle", "reject"} : Step(p, "decode", label)

Reject(p) ==
    /\ pc[p] = "reject"
    /\ cancelLocked("decode")
    /\ Goto(p, "idle")
    /\ UNCHANGED <<flags, readPending, writePending, pending, app, worker, body,
                   cleanupVars, netVars, native, held, eof>>

-----------------------------------------------------------------------------
(* The upload worker                                                       *)

WorkerGoto(label) == worker' = label /\ UNCHANGED <<app, pc>>

\* Steps of the worker outside of r.mu.
WorkerOnly ==
    UNCHANGED <<flags, readPending, writePending, pending, endVars, cleanupVars,
                netVars, native, held, eof>>

WorkerStart ==
    /\ worker = "await"
    /\ \/ ready /\ WorkerGoto("upload")
       \/ terminal /\ WorkerGoto("left")
    /\ UNCHANGED body
    /\ WorkerOnly

\* upload.Read fills the native write buffer, or ends: with its last bytes,
\* after them, or with neither bytes nor an error.
UploadRead ==
    /\ worker = "upload"
    /\ body' \in {"bytes", "lastBytes", "end"}
    /\ WorkerGoto("got")
    /\ WorkerOnly

\* The section after upload.Read; the native Write may refuse.
WorkerWrite ==
    /\ worker = "got"
    /\ \/ /\ Failed
          /\ WorkerGoto("left")
          /\ UNCHANGED <<writePending, held, endVars>>
       \/ /\ ~Failed /\ body = "end"
          /\ cancelLocked("EOF") /\ WorkerGoto("left")
          /\ UNCHANGED <<writePending, held>>
       \/ /\ ~Failed /\ body # "end"
          /\ writePending' = TRUE
          /\ \/ /\ Lend("write") /\ WorkerGoto("write")
                /\ woken' = woken \ {"worker"}
                /\ UNCHANGED <<err, cancelled, terminal, cancelPosted, destroys>>
             \/ /\ cancelLocked("write") /\ WorkerGoto("left")
                /\ UNCHANGED held
    /\ UNCHANGED <<flags, readPending, pending, body, cleanupVars, netVars,
                   native, eof>>

\* The worker goes on when its write has completed or the request has failed.
WorkerWoken ==
    /\ worker = "write" /\ "worker" \in woken
    /\ \/ /\ writePending /\ ~Failed
          /\ woken' = woken \ {"worker"}
          /\ WorkerGoto("write")
          /\ UNCHANGED <<err, cancelled, terminal, cancelPosted, destroys>>
       \/ Failed /\ WorkerGoto("left") /\ UNCHANGED endVars
       \/ /\ ~writePending /\ ~Failed
          /\ body = "bytes" /\ WorkerGoto("upload") /\ UNCHANGED endVars
       \/ /\ ~writePending /\ ~Failed
          /\ body # "bytes" /\ WorkerGoto("left") /\ cancelLocked("EOF")
    /\ UNCHANGED <<flags, readPending, writePending, pending, body, cleanupVars,
                   netVars, native, held, eof>>

-----------------------------------------------------------------------------
(* The clean-up goroutine                                                  *)

CleanupStep ==
    UNCHANGED <<flags, readPending, writePending, pending, endVars, goVars,
                netVars, native, held, eof>>

\* Mutated: the body is left open.
CleanupNoClose ==
    /\ cleanup = "await" /\ terminal
    /\ cleanup' = "join"
    /\ UNCHANGED uploadClosed
    /\ CleanupStep

CleanupClose ==
    /\ cleanup = "await" /\ terminal
    /\ uploadClosed' = TRUE
    /\ cleanup' = "join"
    /\ CleanupStep

CleanupFree ==
    /\ cleanup = "join" /\ worker = "left"
    /\ cleanup' = "done"
    /\ UNCHANGED uploadClosed
    /\ CleanupStep

-----------------------------------------------------------------------------
(* The network thread: an event of the native stream, then its callback,   *)
(* which has to wait for r.mu.                                             *)

Event(callback) ==
    /\ net = Idle
    /\ net' = callback
    /\ UNCHANGED <<flags, readPending, writePending, pending, endVars, goVars,
                   cleanupVars>>

NetReady ==
    /\ native = "running" /\ ~ready
    /\ Event(Callback("OnStreamReady", 0, "none"))
    /\ UNCHANGED <<responded, native, held, eof>>

NetHeaders ==
    /\ native = "running" /\ ~responded
    /\ responded' = TRUE
    /\ \E e \in {"none", "headers"} :
          Event(Callback("OnResponseHeadersReceived", 0, e))
    /\ UNCHANGED <<native, held, eof>>

\* A read completes with bytes, or with none at the end of the response, which
\* with framing may lack a good status.
NetRead ==
    /\ native = "running" /\ held["read"] # None
    /\ held' = [held EXCEPT !["read"] = None]
    /\ \/ /\ eof' = TRUE
          /\ \E e \in {"EOF", "status"} :
                /\ e = "status" => framed
                /\ Event(Callback("OnReadCompleted", 0, e))
       \/ /\ eof' = eof /\ ~eof
          /\ \E n \in 1..MaxChunk :
                Event(Callback("OnReadCompleted", n, "none"))
    /\ UNCHANGED <<responded, native>>

NetWrite ==
    /\ native = "running" /\ held["write"] # None
    /\ held' = [held EXCEPT !["write"] = None]
    /\ Event(Callback("OnWriteCompleted", 0, "none"))
    /\ UNCHANGED <<responded, native, eof>>

NetEnd(e) ==
    /\ native = "running"
    /\ e \in {"EOF", "status"} => eof
    /\ e = "status" => framed
    /\ e = "canceled" => cancelPosted
    /\ native' = "ended"
    /\ held' = [d \in Dirs |-> None]
    /\ Event(Callback("OnTerminal", 0, e))
    /\ UNCHANGED <<responded, eof>>

\* The destruction posted by Destroy.
NetDelete ==
    /\ net = Idle
    /\ destroys > 0 /\ native # "deleted"
    /\ native' = "deleted"
    /\ held' = [d \in Dirs |-> None]
    /\ UNCHANGED <<flags, readPending, writePending, pending, endVars, goVars,
                   cleanupVars, netVars, eof>>

Called(do) ==
    /\ net.do = do
    /\ net' = Idle
    /\ UNCHANGED <<framed, started, goVars, cleanupVars, responded, native, eof>>

OnStreamReady ==
    /\ Called("OnStreamReady")
    /\ ready' = TRUE
    /\ UNCHANGED <<haveHeaders, readPending, writePending, pending, endVars, held>>

OnResponseHeadersReceived ==
    /\ Called("OnResponseHeadersReceived")
    /\ IF net.err # "none"
       THEN cancelLocked(net.err) /\ UNCHANGED <<haveHeaders, readPending, held>>
       ELSE haveHeaders' = TRUE /\ startReadLocked(TRUE)
    /\ UNCHANGED <<ready, writePending, pending>>

\* Mutated: the next bytes are asked for before these are consumed.
OnReadCompletedAhead ==
    /\ Called("OnReadCompleted")
    /\ IF net.n = 0
       THEN cancelLocked(net.err) /\ readPending' = FALSE /\ UNCHANGED <<pending, held>>
       ELSE /\ pending' = net.n
            /\ woken' = Waiters
            /\ readPending' = ~Failed
            /\ IF Failed THEN UNCHANGED held ELSE Lend("read")
            /\ UNCHANGED <<err, cancelled, terminal, cancelPosted, destroys>>
    /\ UNCHANGED <<ready, haveHeaders, writePending>>

\* Mutated: the end of the response ends the request.
OnReadCompletedEnds ==
    /\ Called("OnReadCompleted")
    /\ readPending' = FALSE
    /\ IF net.n = 0
       THEN finishLocked(net.err) /\ UNCHANGED pending
       ELSE /\ pending' = net.n
            /\ woken' = Waiters
            /\ UNCHANGED <<err, cancelled, terminal, cancelPosted, destroys>>
    /\ UNCHANGED <<ready, haveHeaders, writePending, held>>

OnReadCompleted ==
    /\ Called("OnReadCompleted")
    /\ readPending' = FALSE
    /\ IF net.n = 0
       THEN cancelLocked(net.err) /\ UNCHANGED pending
       ELSE /\ pending' = net.n
            /\ woken' = Waiters
            /\ UNCHANGED <<err, cancelled, terminal, cancelPosted, destroys>>
    /\ UNCHANGED <<ready, haveHeaders, writePending, held>>

OnWriteCompleted ==
    /\ Called("OnWriteCompleted")
    /\ writePending' = FALSE
    /\ woken' = Waiters
    /\ UNCHANGED <<ready, haveHeaders, readPending, pending, err, cancelled,
                   terminal, cancelPosted, destroys, held>>

\* OnSucceeded, OnFailed, OnCanceled
OnTerminal ==
    /\ Called("OnTerminal")
    /\ finishLocked(net.err)
    /\ UNCHANGED <<ready, haveHeaders, readPending, writePending, pending, held>>

OnCallback ==
    \/ OnStreamReady \/ OnResponseHeadersReceived \/ OnReadCompleted
    \/ OnWriteCompleted \/ OnTerminal

-----------------------------------------------------------------------------

Next ==
    \/ start \/ StartReturns \/ cancel
    \/ \E p \in Closers : close(p) \/ CloseReturns(p)
    \/ \E p \in Readers :
          \/ Read(p) \/ Look(p) \/ Wake(p) \/ ContextDone(p)
          \/ Decode(p) \/ Reject(p)
    \/ WorkerStart \/ UploadRead \/ WorkerWrite \/ WorkerWoken
    \/ CleanupClose \/ CleanupFree
    \/ NetReady \/ NetHeaders \/ NetRead \/ NetWrite \/ NetDelete
    \/ \E e \in {"EOF", "status", "failed", "canceled"} : NetEnd(e)
    \/ OnCallback

Spec == Init /\ [][Next]_vars

\* Goroutines and callbacks in progress go on.  A stream that was cancelled
\* ends, and an upload body that was closed yields something; neither a peer
\* nor an open body is obliged to anything.  A sync.Mutex does not starve
\* those who wait for it (hence SF).
Fairness ==
    /\ \A p \in Readers : WF_vars(Look(p) \/ Wake(p) \/ Decode(p) \/ Reject(p))
    /\ \A p \in Closers : SF_vars(CloseReturns(p))
    /\ WF_vars(WorkerStart) /\ WF_vars(WorkerWrite) /\ WF_vars(WorkerWoken)
    /\ WF_vars(uploadClosed /\ UploadRead)
    /\ WF_vars(CleanupClose) /\ WF_vars(CleanupFree)
    /\ WF_vars(OnCallback)
    /\ SF_vars(NetEnd("canceled"))

FairSpec == Spec /\ Fairness

-----------------------------------------------------------------------------
(* Properties.                                                             *)

Errors == {"none", "start", "read", "write", "headers", "status", "decode",
           "canceled", "failed", "EOF"}

\* Every variable stays within its type; the stream is destroyed at most once.
TypeOK ==
    /\ {framed, started, ready, haveHeaders, readPending, writePending, cancelled,
        terminal, uploadClosed, responded, cancelPosted, eof} \subseteq BOOLEAN
    /\ err \in Errors
    /\ pending \in 0..MaxChunk
    /\ woken \subseteq Waiters
    /\ app \in {"new", "await", "failed", "running"}
    /\ pc \in [Readers \cup Closers -> {"idle", "look", "wait", "decode",
                                        "reject", "join", "closed"}]
    /\ worker \in {"await", "upload", "got", "write", "left"}
    /\ body \in {"none", "bytes", "lastBytes", "end"}
    /\ cleanup \in {"await", "join", "done"}
    /\ net \in [do : {"none", "OnStreamReady", "OnResponseHeadersReceived",
                      "OnReadCompleted", "OnWriteCompleted", "OnTerminal"},
                n : 0..MaxChunk, err : Errors]
    /\ native \in {"created", "running", "refused", "ended", "deleted"}
    /\ held \in [Dirs -> {"request", None}]
    /\ destroys \in 0..1

\* The native buffers are freed only when neither the native side nor the worker
\* can touch them again, and the worker fills the write buffer only while the
\* native side does not read it.
BuffersExclusive ==
    /\ cleanup = "done" =>
          /\ held = [d \in Dirs |-> None]
          /\ worker = "left"
          /\ terminal
    /\ worker \in {"upload", "got"} => held["write"] = None

\* Reading neither loses bytes nor stalls: no read is outstanding while bytes of
\* the one before wait for a reader, as OnReadCompleted assigns r.pending; and
\* while the response flows, bytes wait or a read is outstanding.
ReadFlow ==
    /\ readPending \/ held["read"] # None => pending = 0
    /\ haveHeaders /\ ~Failed => pending > 0 \/ readPending

Native == INSTANCE NativeStream

\* The native stream is used as its contract demands: one operation in each
\* direction, no read after the end of the response, nothing after Destroy.
Contract == Native!Spec

\* A request that failed or was cancelled, started or not, is destroyed and its
\* buffers are freed.  Blocked calls return, whatever the worker, the body and the decoder do: close
\* does, and a reader is woken by bytes and by the end of the request.
CallsReturn ==
    /\ (err # "none") ~> (cleanup = "done")
    /\ \A p \in Closers : (pc[p] = "join") ~> (pc[p] = "closed")
    /\ \A p \in Readers :
          (pc[p] = "wait" /\ (pending > 0 \/ err # "none")) ~> (pc[p] # "wait")

-----------------------------------------------------------------------------
(* The inductive invariant behind BuffersExclusive, ReadFlow and Contract. *)

\* A request is terminal exactly when its stream was destroyed, and a stream
\* runs only between a start that succeeded and the terminal callback.
Life ==
    /\ destroys = IF terminal THEN 1 ELSE 0
    /\ native = "running" => started /\ ~terminal
    /\ native = "deleted" => terminal
    /\ app = "new" => ~started /\ native \in {"created", "deleted"}
    /\ net.do = "OnTerminal" => started /\ native # "running"

\* A buffer is lent for the one operation in its direction that is pending, to
\* a running stream, and is back when the completion is called back.
Buffers ==
    /\ native # "running" => held["read"] = None /\ held["write"] = None
    /\ held["read"] # None \/ net.do = "OnReadCompleted" => readPending
    /\ held["write"] # None \/ net.do = "OnWriteCompleted" => writePending
    /\ net.do = "OnReadCompleted" => held["read"] = None
    /\ net.do = "OnWriteCompleted" => held["write"] = None
    /\ worker \in {"await", "upload", "got"} => ~writePending

\* Nothing is read before the headers, which come once; the end of the response
\* fails the request, in the callback that brings it or before.
Response ==
    /\ haveHeaders => responded
    /\ ~haveHeaders => pending = 0 /\ ~readPending
    /\ net.do = "OnResponseHeadersReceived" => responded /\ ~haveHeaders
    /\ net.do = "OnReadCompleted" /\ net.n = 0 => net.err # "none"
    /\ eof => Failed \/ (net.do = "OnReadCompleted" /\ net.n = 0)

\* The clean-up goroutine goes on after the end and after the worker.
Cleaning ==
    /\ cleanup # "await" => terminal
    /\ cleanup = "done" => worker = "left"

IInv == TypeOK /\ Life /\ Buffers /\ Response /\ Cleaning /\ ReadFlow

=============================================================================
