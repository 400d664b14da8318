-------------------------- MODULE StreamingRequest --------------------------
(***************************************************************************)
(* streamingRequest and streamingUpload of streaming_request.go: one HTTP  *)
(* request of the native library, read like a stream.                      *)
(*                                                                         *)
(* What touches the native request runs as a function of the request's     *)
(* streamingExecutor, one at a time and in order (SerialExecutor), so one  *)
(* queued function is one step here.  A native callback is such a function *)
(* too.  Beside it run the goroutines that call start, Read, cancel and    *)
(* close, each section of r.mu a step, the goroutine of an upload that     *)
(* blocks in the caller's body, and the native network thread.             *)
(***************************************************************************)
EXTENDS Naturals, Sequences

CONSTANTS Readers, Closers,     \* goroutines that call Read, and close
          MaxChunk,             \* bound on the bytes of one native read
          HasUpload             \* the request has a body read from a reader

ASSUME ConstantsAssumption == MaxChunk \in Nat /\ HasUpload \in BOOLEAN

VARIABLES
    queue,                              \* of the serial executor
    started, terminal, readPending,     \* owned by its functions
    activeUploads, cleanupQueued,
    err, pending, readCh, done,         \* r.err, len(r.pending), the channels
    stopped,                            \* upload.stop was called
    life, lent, sinks,                  \* the native request
    head,                               \* how far its response has come
    uploading,                          \* the upload goroutine runs
    app, result,                        \* who creates and starts the request
    pc                                  \* control of readers and closers

serialVars == <<started, terminal, readPending, activeUploads, cleanupQueued>>
streamVars == <<err, pending, readCh>>
nativeVars == <<life, lent, sinks, head>>
callVars == <<app, result, pc>>
vars == <<queue, serialVars, streamVars, done, stopped, nativeVars, uploading,
          callVars>>

Init ==
    /\ queue = <<>>
    /\ started = FALSE /\ terminal = FALSE /\ readPending = FALSE
    /\ activeUploads = 0 /\ cleanupQueued = FALSE
    /\ err = "none" /\ pending = 0 /\ readCh = 0 /\ done = 0
    /\ stopped = FALSE
    /\ life = "created" /\ lent = FALSE /\ sinks = 0 /\ head = "waiting"
    /\ uploading = FALSE
    /\ app = "new" /\ result = "none"
    /\ pc = [p \in Readers \cup Closers |-> "idle"]

\* A queued function; e and n are what it was created with.
Task(do, e, n) == [do |-> do, err |-> e, n |-> n]
Plain(do) == Task(do, "none", 0)

Submit(task) == queue' = Append(queue, task)

Due(do) == queue # <<>> /\ Head(queue).do = do

\* The function that is due is do; it is run and submits more.
Runs(do, more) == Due(do) /\ queue' = Tail(queue) \o more

Queued(do) == \E i \in DOMAIN queue : queue[i].do = do

\* r.err keeps the first error.
First(e) == IF err = "none" THEN e ELSE err

-----------------------------------------------------------------------------
(* Operators for what several functions of the queue do.                   *)

\* Mutated: cleanup does not look at activeUploads.
finishAtOnce(do, e) ==
    /\ Due(do)
    /\ IF terminal
       THEN /\ Runs(do, <<>>)
            /\ UNCHANGED <<terminal, cleanupQueued, err, stopped>>
       ELSE /\ terminal' = TRUE
            /\ err' = First(e)
            /\ stopped' = TRUE
            /\ cleanupQueued' = TRUE
            /\ Runs(do, <<Plain("cleanup")>>)

\* finish, and cleanup unless an upload is still active
finish(do, e) ==
    /\ Due(do)
    /\ IF terminal
       THEN /\ Runs(do, <<>>)
            /\ UNCHANGED <<terminal, cleanupQueued, err, stopped>>
       ELSE /\ terminal' = TRUE
            /\ err' = First(e)
            /\ stopped' = TRUE
            /\ cleanupQueued' = (activeUploads = 0)
            /\ Runs(do, IF activeUploads = 0 THEN <<Plain("cleanup")>> ELSE <<>>)

CancelNative == life' = IF life = "started" THEN "cancelled" ELSE life

\* Mutated: the native request is not cancelled.
failQuietly(e) ==
    /\ err' = First(e)
    /\ stopped' = TRUE
    /\ UNCHANGED life

fail(e) ==
    /\ err' = First(e)
    /\ stopped' = TRUE
    /\ CancelNative

\* startRead; the native Read may refuse, and does after the request's end.
startRead ==
    IF terminal \/ readPending \/ pending > 0 \/ err # "none"
    THEN UNCHANGED <<readPending, lent, err, stopped, life>>
    ELSE \/ /\ life = "started"
            /\ readPending' = TRUE /\ lent' = TRUE
            /\ UNCHANGED <<err, stopped, life>>
         \/ fail("read") /\ UNCHANGED <<readPending, lent>>

-----------------------------------------------------------------------------
(* Creating and starting.                                                  *)

\* newStreamingRequest; when InitWithParams fails it submits finish and waits.
Create ==
    /\ app = "new"
    /\ \/ app' = "created" /\ UNCHANGED queue
       \/ app' = "initFailed" /\ Submit(Task("finish", "init", 0))
    /\ UNCHANGED <<serialVars, streamVars, done, stopped, nativeVars,
                   uploading, result, pc>>

RunFinish ==
    /\ finish("finish", "init")
    /\ UNCHANGED <<started, readPending, activeUploads, pending, readCh, done,
                   nativeVars, uploading, callVars>>

start ==
    /\ app = "created"
    /\ app' = "starting"
    /\ Submit(Plain("start"))
    /\ UNCHANGED <<serialVars, streamVars, done, stopped, nativeVars,
                   uploading, result, pc>>

RunStart ==
    /\ \/ /\ terminal \/ started
          /\ Runs("start", <<>>)
          /\ result' = "error"
          /\ UNCHANGED <<started, terminal, cleanupQueued, err, stopped, life>>
       \/ /\ ~terminal /\ ~started
          /\ finish("start", "start")
          /\ result' = "error"
          /\ UNCHANGED <<started, life>>
       \/ /\ ~terminal /\ ~started
          /\ Runs("start", <<>>)
          /\ started' = TRUE /\ life' = "started"
          /\ result' = "ok"
          /\ UNCHANGED <<terminal, cleanupQueued, err, stopped>>
    /\ UNCHANGED <<readPending, activeUploads, pending, readCh, done, lent,
                   sinks, head, uploading, app, pc>>

\* An error of a request that has finished is reported once it is destroyed.
StartReturns ==
    /\ app = "starting" /\ result # "none"
    /\ app' = IF result = "ok" THEN "live"
              ELSE IF err # "none" THEN "startFailed" ELSE "over"
    /\ UNCHANGED <<queue, serialVars, streamVars, done, stopped, nativeVars,
                   uploading, result, pc>>

AwaitDone ==
    /\ app \in {"initFailed", "startFailed"}
    /\ done > 0
    /\ app' = "over"
    /\ UNCHANGED <<queue, serialVars, streamVars, done, stopped, nativeVars,
                   uploading, result, pc>>

\* The constructor has returned the request.
Usable == app \notin {"new", "initFailed"} /\ ~(app = "over" /\ result = "none")

-----------------------------------------------------------------------------
(* Reading: readContext.                                                   *)

Goto(p, label) == pc' = [pc EXCEPT ![p] = label]

Read(p) ==
    /\ Usable /\ pc[p] = "idle"
    /\ Goto(p, "look")
    /\ UNCHANGED <<queue, serialVars, streamVars, done, stopped, nativeVars,
                   uploading, app, result>>

\* Mutated: the next native read is not asked for.
LookOnly(p) ==
    /\ pc[p] = "look"
    /\ \/ /\ pending > 0
          /\ \E k \in 1..pending : pending' = pending - k
          /\ Goto(p, "idle")
       \/ /\ pending = 0
          /\ Goto(p, IF err = "none" THEN "wait" ELSE "idle")
          /\ UNCHANGED pending
    /\ UNCHANGED <<queue, serialVars, err, readCh, done, stopped, nativeVars,
                   uploading, app, result>>

\* A section of r.mu: bytes that are there come before the error.
Look(p) ==
    /\ pc[p] = "look"
    /\ \/ /\ pending > 0
          /\ \E k \in 1..pending : pending' = pending - k
          /\ IF pending' = 0 /\ err = "none"
             THEN Submit(Plain("startRead"))
             ELSE UNCHANGED queue
          /\ Goto(p, "idle")
       \/ /\ pending = 0
          /\ Goto(p, IF err = "none" THEN "wait" ELSE "idle")
          /\ UNCHANGED <<pending, queue>>
    /\ UNCHANGED <<serialVars, err, readCh, done, stopped, nativeVars,
                   uploading, app, result>>

Wake(p) ==
    /\ pc[p] = "wait"
    /\ \/ readCh = 1 /\ readCh' = 0
       \/ done > 0 /\ UNCHANGED readCh
    /\ Goto(p, "look")
    /\ UNCHANGED <<queue, serialVars, err, pending, done, stopped, nativeVars,
                   uploading, app, result>>

ContextDone(p) ==
    /\ pc[p] \in {"look", "wait"}
    /\ Goto(p, "idle")
    /\ UNCHANGED <<queue, serialVars, streamVars, done, stopped, nativeVars,
                   uploading, app, result>>

RunStartRead ==
    /\ Runs("startRead", <<>>)
    /\ startRead
    /\ UNCHANGED <<started, terminal, activeUploads, cleanupQueued, pending,
                   readCh, done, sinks, head, uploading, callVars>>

-----------------------------------------------------------------------------
(* Cancelling and closing.                                                 *)

\* cancelWithError; the submit is inside the section of r.mu.
cancelWithError(e) ==
    IF err = "none"
    THEN err' = e /\ Submit(Task("cancel", e, 0))
    ELSE UNCHANGED <<err, queue>>

\* A context's watcher or a callback cancels and does not wait.
cancel(e) ==
    /\ Usable /\ err = "none"
    /\ cancelWithError(e)
    /\ UNCHANGED <<serialVars, pending, readCh, done, stopped, nativeVars,
                   uploading, callVars>>

close(p) ==
    /\ Usable /\ pc[p] = "idle"
    /\ cancelWithError("canceled")
    /\ Goto(p, "closing")
    /\ UNCHANGED <<serialVars, pending, readCh, done, stopped, nativeVars,
                   uploading, app, result>>

CloseReturns(p) ==
    /\ pc[p] = "closing" /\ done > 0
    /\ Goto(p, "closed")
    /\ UNCHANGED <<queue, serialVars, streamVars, done, stopped, nativeVars,
                   uploading, app, result>>

RunCancel ==
    /\ \/ /\ terminal
          /\ Runs("cancel", <<>>)
          /\ UNCHANGED <<terminal, cleanupQueued, err, stopped, life>>
       \/ /\ ~terminal /\ started
          /\ Runs("cancel", <<>>)
          /\ stopped' = TRUE
          /\ CancelNative
          /\ UNCHANGED <<terminal, cleanupQueued, err>>
       \/ /\ ~terminal /\ ~started
          /\ finish("cancel", Head(queue).err)
          /\ UNCHANGED life
    /\ UNCHANGED <<started, readPending, activeUploads, pending, readCh, done,
                   lent, sinks, head, uploading, callVars>>

\* Destruction, as a function of the queue of its own.
RunCleanup ==
    /\ Runs("cleanup", <<>>)
    /\ life' = "destroyed"
    /\ done' = done + 1
    /\ UNCHANGED <<serialVars, streamVars, stopped, lent, sinks, head,
                   uploading, callVars>>

-----------------------------------------------------------------------------
(* Callbacks, posted by the network thread and run from the queue.  Those  *)
(* that are not terminal may be dropped once the request has come to its   *)
(* end or was cancelled; a dropped read result is freed with its buffer.   *)

Dropped(do) ==
    /\ life # "started"
    /\ Runs(do, <<>>)
    /\ lent' = (lent /\ do # "OnReadCompleted")
    /\ UNCHANGED <<serialVars, streamVars, done, stopped, life, sinks, head,
                   uploading, callVars>>

OnRedirectReceived ==
    /\ Runs("OnRedirectReceived", <<>>)
    /\ \/ life = "started" /\ head' = "waiting" /\ UNCHANGED <<err, stopped, life>>
       \/ fail("redirect") /\ UNCHANGED head
    /\ UNCHANGED <<serialVars, pending, readCh, done, lent, sinks, uploading,
                   callVars>>

\* A status that the caller cannot use fails the request.
OnResponseStarted ==
    /\ Runs("OnResponseStarted", <<>>)
    /\ \/ startRead
       \/ fail("status") /\ UNCHANGED <<readPending, lent>>
    /\ UNCHANGED <<started, terminal, activeUploads, cleanupQueued, pending,
                   readCh, done, sinks, head, uploading, callVars>>

OnReadCompleted ==
    /\ Runs("OnReadCompleted", IF Head(queue).n = 0 THEN <<Plain("startRead")>>
                               ELSE <<>>)
    /\ readPending' = FALSE /\ lent' = FALSE
    /\ pending' = Head(queue).n
    /\ readCh' = 1
    /\ UNCHANGED <<started, terminal, activeUploads, cleanupQueued, err, done,
                   stopped, life, sinks, head, uploading, callVars>>

\* OnSucceeded, OnFailed, OnCanceled
OnTerminal ==
    /\ finish("OnTerminal", Head(queue).err)
    /\ life' = "over"
    /\ UNCHANGED <<started, readPending, activeUploads, pending, readCh, done,
                   lent, sinks, head, uploading, callVars>>

\* streamingUpload.Read and Rewind leave the blocking part to a goroutine.
UploadCall ==
    /\ Runs("upload", <<>>)
    /\ activeUploads' = activeUploads + 1
    /\ uploading' = TRUE
    /\ UNCHANGED <<started, terminal, readPending, cleanupQueued, streamVars,
                   done, stopped, nativeVars, callVars>>

UploadDone ==
    /\ uploading
    /\ uploading' = FALSE
    /\ Submit(Plain("notify"))
    /\ UNCHANGED <<serialVars, streamVars, done, stopped, nativeVars, callVars>>

\* Mutated: the upload counts as active for ever.
RunNotifyKeep ==
    /\ Runs("notify", <<>>)
    /\ sinks' = 0
    /\ UNCHANGED <<serialVars, streamVars, done, stopped, life, lent, head,
                   uploading, callVars>>

\* The sink is told, then cleanup is tried again.
RunNotify ==
    /\ Due("notify")
    /\ activeUploads' = activeUploads - 1
    /\ LET now == terminal /\ activeUploads' = 0 /\ ~cleanupQueued
       IN /\ Runs("notify", IF now THEN <<Plain("cleanup")>> ELSE <<>>)
          /\ cleanupQueued' = (cleanupQueued \/ now)
    /\ sinks' = 0
    /\ UNCHANGED <<started, terminal, readPending, streamVars, done, stopped,
                   life, lent, head, uploading, callVars>>

RunCallback ==
    \/ OnRedirectReceived \/ Dropped("OnRedirectReceived")
    \/ OnResponseStarted \/ Dropped("OnResponseStarted")
    \/ OnReadCompleted \/ Dropped("OnReadCompleted")
    \/ OnTerminal \/ UploadCall

\* The serial executor runs the function at the head of its queue.
Run ==
    \/ RunFinish \/ RunStart \/ RunStartRead \/ RunCancel \/ RunCleanup
    \/ RunNotify \/ RunCallback

-----------------------------------------------------------------------------
(* The native network thread.                                              *)

Respond ==
    /\ life = "started" /\ head = "waiting"
    /\ \/ head' = "redirecting" /\ Submit(Plain("OnRedirectReceived"))
       \/ head' = "responded" /\ Submit(Plain("OnResponseStarted"))
    /\ UNCHANGED <<serialVars, streamVars, done, stopped, life, lent, sinks,
                   uploading, callVars>>

CompleteRead ==
    /\ life = "started" /\ lent /\ ~Queued("OnReadCompleted")
    /\ \E n \in 0..MaxChunk : Submit(Task("OnReadCompleted", "none", n))
    /\ UNCHANGED <<serialVars, streamVars, done, stopped, nativeVars,
                   uploading, callVars>>

AskUpload ==
    /\ HasUpload
    /\ life = "started" /\ head = "waiting" /\ sinks = 0
    /\ sinks' = 1
    /\ Submit(Plain("upload"))
    /\ UNCHANGED <<serialVars, streamVars, done, stopped, life, lent, head,
                   uploading, callVars>>

\* One terminal callback: success only in place of a read result.
End ==
    /\ \/ life = "cancelled" /\ Submit(Task("OnTerminal", "canceled", 0))
       \/ life = "started" /\ Submit(Task("OnTerminal", "failed", 0))
       \/ /\ life = "started" /\ lent /\ ~Queued("OnReadCompleted")
          /\ Submit(Task("OnTerminal", "EOF", 0))
    /\ life' = "ended"
    /\ lent' = (lent /\ Queued("OnReadCompleted"))
    /\ UNCHANGED <<serialVars, streamVars, done, stopped, sinks, head,
                   uploading, callVars>>

Caller == start \/ StartReturns \/ AwaitDone

Next ==
    \/ Create \/ Caller
    \/ \E p \in Readers : Read(p) \/ Look(p) \/ Wake(p) \/ ContextDone(p)
    \/ \E e \in {"canceled", "deadline"} : cancel(e)
    \/ \E p \in Closers : close(p) \/ CloseReturns(p)
    \/ Run
    \/ UploadDone
    \/ Respond \/ CompleteRead \/ AskUpload \/ End

Spec == Init /\ [][Next]_vars

\* The executor drains its queue and calls in progress go on.  The native side
\* ends what was cancelled.  A body that was stopped makes its Read return;
\* nothing obliges a healthy server or body to do anything.
Fairness ==
    /\ WF_vars(Run)
    /\ WF_vars(StartReturns) /\ WF_vars(AwaitDone)
    /\ \A p \in Readers : WF_vars(Look(p)) /\ WF_vars(Wake(p))
    /\ \A p \in Closers : WF_vars(CloseReturns(p))
    /\ WF_vars(life = "cancelled" /\ End)
    /\ WF_vars(stopped /\ UploadDone)

FairSpec == Spec /\ Fairness

-----------------------------------------------------------------------------
(* Properties.                                                             *)

Errors == {"none", "init", "start", "read", "redirect", "status", "canceled",
           "deadline", "failed", "EOF"}

Dos == {"finish", "start", "startRead", "cancel", "cleanup", "notify",
        "upload", "OnRedirectReceived", "OnResponseStarted", "OnReadCompleted",
        "OnTerminal"}

Tasks == [do : Dos, err : Errors, n : 0..MaxChunk]

\* Every variable stays within its type: one token in the channel, one upload
\* call at a time, done closed at most once.
TypeOK ==
    /\ queue \in Seq(Tasks)
    /\ started \in BOOLEAN /\ terminal \in BOOLEAN /\ readPending \in BOOLEAN
    /\ activeUploads \in 0..1 /\ cleanupQueued \in BOOLEAN
    /\ err \in Errors /\ pending \in 0..MaxChunk
    /\ readCh \in 0..1 /\ done \in 0..1
    /\ stopped \in BOOLEAN
    /\ life \in {"created", "started", "cancelled", "ended", "over", "destroyed"}
    /\ lent \in BOOLEAN /\ sinks \in 0..1
    /\ head \in {"waiting", "redirecting", "responded"}
    /\ uploading \in BOOLEAN
    /\ app \in {"new", "created", "initFailed", "starting", "startFailed",
                "live", "over"}
    /\ result \in {"none", "ok", "error"}
    /\ pc \in [Readers \cup Closers -> {"idle", "look", "wait", "closing", "closed"}]

\* Reading neither loses bytes nor stalls.  No read is outstanding while bytes of
\* the one before wait for a reader, as OnReadCompleted assigns r.pending; and
\* while the response flows, bytes wait, or a read is outstanding or about to be.
ReadFlow ==
    /\ readPending \/ lent => pending = 0
    /\ head = "responded" /\ err = "none" =>
          \/ pending > 0
          \/ readPending
          \/ Queued("startRead") \/ Queued("OnResponseStarted")
          \/ Queued("OnTerminal")

Native == INSTANCE NativeRequest

\* The native request is used as its contract demands, whatever callers,
\* contexts, uploads and the network do.
Contract == Native!Spec

\* A request that has failed or was cancelled, started or not, with an upload
\* in progress or not, is destroyed and done.
\* Blocked calls return: close and start do, also when the request fails, and a
\* reader is woken by bytes and by the end of the request.
CallsReturn ==
    /\ (err # "none") ~> (done = 1)
    /\ \A p \in Closers : (pc[p] = "closing") ~> (pc[p] = "closed")
    /\ (app = "starting") ~> (app \in {"live", "over"})
    /\ \A p \in Readers :
          (pc[p] = "wait" /\ (pending > 0 \/ err # "none")) ~> (pc[p] # "wait")

-----------------------------------------------------------------------------
(* The inductive invariant behind ReadFlow and Contract.                   *)

\* Functions of which one is queued at most, and those that say why they finish.
Singles == {"cleanup", "OnTerminal", "OnReadCompleted", "upload", "notify"}
Finishers == {"finish", "cancel", "OnTerminal"}

Once(do) == \A i, j \in DOMAIN queue :
                queue[i].do = do /\ queue[j].do = do => i = j

\* None of these functions is queued after the terminal callback.
BeforeEnd(do) == \A i, j \in DOMAIN queue :
                     queue[i].do = do /\ queue[j].do = "OnTerminal" => i < j

\* What finish is to report is an error.
Reasons == \A i \in DOMAIN queue :
    queue[i].do \in Finishers => queue[i].err # "none"

Queue ==
    /\ \A do \in Singles : Once(do)
    /\ BeforeEnd("upload") /\ BeforeEnd("OnReadCompleted")
    /\ Reasons

\* A request that could not be initialised is never started.
Birth ==
    /\ app \in {"new", "created"} =>
          ~started /\ ~Queued("finish") /\ ~Queued("start")
    /\ Queued("finish") => ~started /\ ~Queued("start")

\* How far the native request is tells what the serial functions have done, and
\* a request that has ended, or has an error, says so.
Life ==
    /\ life = "created" => ~started /\ ~lent /\ sinks = 0 /\ head = "waiting"
    /\ ~started => life \in {"created", "destroyed"}
    /\ life = "cancelled" \/ Queued("cancel") \/ terminal => err # "none"
    /\ Queued("OnTerminal") <=> life = "ended"
    /\ terminal => life \in {"created", "over", "destroyed"}
    /\ life \in {"over", "destroyed"} => terminal /\ ~lent /\ ~Queued("upload")

\* Cleanup is queued once, after the last upload call.
Cleanup ==
    /\ done = 1 <=> life = "destroyed"
    /\ Queued("cleanup") <=> cleanupQueued /\ done = 0
    /\ done = 1 => cleanupQueued
    /\ cleanupQueued => terminal /\ sinks = 0

\* An upload call is queued, then active, then answered.
Uploads ==
    /\ Queued("upload") <=> sinks = 1 /\ activeUploads = 0
    /\ activeUploads = 1 <=> uploading \/ Queued("notify")
    /\ activeUploads = 1 => sinks = 1
    /\ ~(uploading /\ Queued("notify"))

\* The buffer is lent for the one read that is pending, and is lent as long as
\* the result of that read is under way.
Buffer ==
    /\ lent => readPending
    /\ Queued("OnReadCompleted") => lent
    /\ life = "ended" /\ lent => Queued("OnReadCompleted")

IInv == TypeOK /\ Queue /\ Birth /\ Life /\ Cleanup /\ Uploads /\ Buffer /\ ReadFlow

=============================================================================
