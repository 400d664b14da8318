------------------------- MODULE BrowserDuplexProofs -------------------------
(***************************************************************************)
(* Safety of BrowserDuplex for any number of goroutines that read or close *)
(* and any size of a read, with and without gRPC framing; and that it is   *)
(* an implementation of NativeStream.                                      *)
(***************************************************************************)
EXTENDS BrowserDuplex, TLAPS

-----------------------------------------------------------------------------
(* What sections of r.mu do.                                               *)

\* A section may fail the request, and ends it only with its stream.
Ends ==
  /\ err' \in Errors /\ terminal' \in BOOLEAN
  /\ cancelled' \in BOOLEAN /\ cancelPosted' \in BOOLEAN
  /\ woken' \subseteq Waiters
  /\ destroys' = IF terminal' THEN 1 ELSE 0
  /\ terminal => terminal'
  /\ Failed => Failed'
  /\ terminal' => terminal \/ native # "running"

\* To the native stream it is a call of Cancel or Destroy, or nothing.
Tells ==
  \/ UNCHANGED <<cancelPosted, destroys>>
  \/ native = "running" /\ destroys = 0 /\ cancelPosted' = TRUE /\ UNCHANGED destroys
  \/ destroys = 0 /\ destroys' = 1 /\ UNCHANGED cancelPosted

LEMMA Flags ==
  ASSUME TypeOK
  PROVE  /\ started \in BOOLEAN /\ ready \in BOOLEAN /\ haveHeaders \in BOOLEAN
         /\ readPending \in BOOLEAN /\ writePending \in BOOLEAN
         /\ cancelled \in BOOLEAN /\ terminal \in BOOLEAN /\ framed \in BOOLEAN
         /\ uploadClosed \in BOOLEAN /\ responded \in BOOLEAN
         /\ cancelPosted \in BOOLEAN /\ eof \in BOOLEAN
  BY DEF TypeOK

LEMMA SameEnds ==
  ASSUME TypeOK, Life, UNCHANGED endVars
  PROVE  Ends /\ Tells
<1>1. /\ err \in Errors /\ woken \subseteq Waiters
      /\ destroys = IF terminal THEN 1 ELSE 0
  BY DEF TypeOK, Life
<1>. QED BY <1>1, Flags DEF endVars, Ends, Tells, Failed

LEMMA SignalEnds ==
  ASSUME TypeOK, Life, woken' \subseteq Waiters,
         UNCHANGED <<err, cancelled, terminal, cancelPosted, destroys>>
  PROVE  Ends /\ Tells
<1>1. err \in Errors /\ destroys = IF terminal THEN 1 ELSE 0
  BY DEF TypeOK, Life
<1>. QED BY <1>1, Flags DEF Ends, Tells, Failed

LEMMA FinishEnds ==
  ASSUME TypeOK, Life, native # "running", NEW e \in Errors, finishLocked(e)
  PROVE  Ends /\ Tells /\ terminal' /\ Failed'
<1>1. CASE terminal
  <2>1. UNCHANGED endVars
    BY <1>1 DEF finishLocked
  <2>. QED BY <1>1, <2>1, SameEnds DEF endVars, Failed
<1>2. CASE ~terminal
  <2>1. /\ terminal' = TRUE /\ err' = First(e) /\ destroys' = destroys + 1
        /\ woken' = Waiters /\ UNCHANGED <<cancelled, cancelPosted>>
    BY <1>2 DEF finishLocked
  <2>2. err' \in Errors /\ destroys = 0
    BY <1>2, <2>1 DEF TypeOK, Life, First
  <2>. QED BY <1>2, <2>1, <2>2, Flags DEF Ends, Tells, Failed
<1>. QED BY <1>1, <1>2

LEMMA CancelEnds ==
  ASSUME TypeOK, Life, NEW e \in Errors, e # "none", cancelLocked(e)
  PROVE  Ends /\ Tells /\ Failed'
<1>1. CASE ~started /\ ~terminal
  <2>1. finishLocked(e) /\ native # "running"
    BY <1>1 DEF cancelLocked, Life
  <2>. QED BY <2>1, FinishEnds
<1>2. CASE ~(~started /\ ~terminal)
  <2>1. /\ err' = First(e)
        /\ cancelled' = (cancelled \/ ~terminal)
        /\ cancelPosted' = (cancelPosted \/ (native = "running" /\ ~terminal))
        /\ woken' = Waiters
        /\ UNCHANGED <<terminal, destroys>>
    BY <1>2 DEF cancelLocked
  <2>2. err' \in Errors /\ err' # "none" /\ destroys = IF terminal THEN 1 ELSE 0
    BY <2>1 DEF TypeOK, Life, First
  <2>3. cancelled' \in BOOLEAN /\ cancelPosted' \in BOOLEAN
    BY <2>1
  <2>4. Ends /\ Failed'
    BY <2>1, <2>2, <2>3, Flags DEF Ends, Failed
  <2>5. ASSUME native = "running", ~terminal
        PROVE  Tells
    <3>1. cancelPosted' = TRUE
      BY <2>1, <2>5
    <3>2. destroys = 0 /\ destroys' = destroys
      BY <2>1, <2>2, <2>5
    <3>. QED BY <2>5, <3>1, <3>2 DEF Tells
  <2>6. ASSUME ~(native = "running" /\ ~terminal)
        PROVE  Tells
    <3>1. cancelPosted \in BOOLEAN
      BY Flags
    <3>2. cancelPosted' <=> cancelPosted
      BY <2>1, <2>6
    <3>3. cancelPosted' = cancelPosted /\ destroys' = destroys
      BY <2>1, <2>3, <3>1, <3>2
    <3>. QED BY <3>3 DEF Tells
  <2>. QED BY <2>4, <2>5, <2>6
<1>. QED BY <1>1, <1>2

\* Buffers are lent to a running stream.
LEMMA Lends ==
  ASSUME TypeOK, NEW d \in Dirs, Lend(d)
  PROVE  /\ held' \in [Dirs -> {"request", None}]
         /\ held'[d] = IF native = "running" THEN "request" ELSE held[d]
         /\ \A x \in Dirs : x # d => held'[x] = held[x]
  BY DEF TypeOK, Lend

\* A read is posted unless one is pending, and not after a failure.
LEMMA StartsRead ==
  ASSUME TypeOK, Life, NEW h \in BOOLEAN, startReadLocked(h)
  PROVE  /\ Ends
         /\ held' \in [Dirs -> {"request", None}]
         /\ readPending' \in BOOLEAN /\ (readPending => readPending')
         /\ readPending' => readPending \/ h
         /\ held'["write"] = held["write"]
         /\ h => readPending' \/ Failed'
         /\ \/ held'["read"] = held["read"]
            \/ held'["read"] = "request" /\ native = "running" /\ readPending'
         /\ \/ UNCHANGED held /\ Tells
            \/ /\ Lend("read") /\ ~readPending /\ ~Failed
               /\ UNCHANGED <<cancelPosted, destroys>>
<1>1. CASE ~h \/ readPending \/ Failed
  <2>1. UNCHANGED <<readPending, held, endVars>>
    BY <1>1 DEF startReadLocked
  <2>2. Ends /\ Tells
    BY <2>1, SameEnds
  <2>3. Failed => Failed'
    BY <2>2 DEF Ends
  <2>4. held' \in [Dirs -> {"request", None}] /\ readPending \in BOOLEAN
    BY <2>1, Flags DEF TypeOK
  <2>. QED BY <1>1, <2>1, <2>2, <2>3, <2>4
<1>2. CASE ~(~h \/ readPending \/ Failed) /\ Lend("read") /\ UNCHANGED endVars
  <2>1. readPending' = TRUE
    BY <1>2 DEF startReadLocked
  <2>2. Ends
    BY <1>2, SameEnds
  <2>3. UNCHANGED <<cancelPosted, destroys>>
    BY <1>2 DEF endVars
  <2>4. "read" \in Dirs /\ "write" \in Dirs
    BY DEF Dirs
  <2>. QED BY <1>2, <2>1, <2>2, <2>3, <2>4, Lends
<1>3. CASE ~(~h \/ readPending \/ Failed) /\ cancelLocked("read") /\ UNCHANGED held
  <2>1. readPending' = TRUE
    BY <1>3 DEF startReadLocked
  <2>2. Ends /\ Tells /\ Failed'
    BY <1>3, CancelEnds DEF Errors
  <2>3. held' \in [Dirs -> {"request", None}]
    BY <1>3 DEF TypeOK
  <2>. QED BY <1>3, <2>1, <2>2, <2>3
<1>. QED BY <1>1, <1>2, <1>3 DEF startReadLocked

-----------------------------------------------------------------------------
(* Steps that leave the stream and its buffers alone.                      *)

NativeStep == [Native!Next]_(Native!nativeVars)

LEMMA TellsSteps ==
  ASSUME Tells, UNCHANGED <<native, held, eof>>
  PROVE  NativeStep
<1>1. CASE UNCHANGED <<cancelPosted, destroys>>
  BY <1>1 DEF NativeStep, Native!nativeVars
<1>2. CASE native = "running" /\ destroys = 0 /\ cancelPosted' = TRUE /\ UNCHANGED destroys
  BY <1>2 DEF NativeStep, Native!Next, Native!Cancel
<1>3. CASE destroys = 0 /\ destroys' = 1 /\ UNCHANGED cancelPosted
  BY <1>3 DEF NativeStep, Native!Next, Native!Destroy
<1>. QED BY <1>1, <1>2, <1>3 DEF Tells

\* The type invariant, variable by variable.
LEMMA Types ==
  /\ framed \in BOOLEAN /\ started \in BOOLEAN /\ ready \in BOOLEAN
  /\ haveHeaders \in BOOLEAN /\ readPending \in BOOLEAN /\ writePending \in BOOLEAN
  /\ cancelled \in BOOLEAN /\ terminal \in BOOLEAN /\ uploadClosed \in BOOLEAN
  /\ responded \in BOOLEAN /\ cancelPosted \in BOOLEAN /\ eof \in BOOLEAN
  /\ err \in Errors /\ pending \in 0..MaxChunk /\ woken \subseteq Waiters
  /\ app \in {"new", "await", "failed", "running"}
  /\ pc \in [Readers \cup Closers -> {"idle", "look", "wait", "decode",
                                      "reject", "join", "closed"}]
  /\ worker \in {"await", "upload", "got", "write", "left"}
  /\ body \in {"none", "bytes", "lastBytes", "end"}
  /\ cleanup \in {"await", "join", "done"}
  /\ net \in [do : {"none", "OnStreamReady", "OnResponseHeadersReceived",
                    "OnReadCompleted", "OnWriteCompleted", "OnTerminal"},
              n : 0..MaxChunk, err : Errors]
  /\ native \in {"created", "running", "refused", "ended", "deleted"}
  /\ held \in [Dirs -> {"request", None}]
  /\ destroys \in 0..1
  <=> TypeOK
  BY DEF TypeOK

\* What only moves goroutines, or fails the request, keeps the invariant.
LEMMA QuietKeeps ==
  ASSUME IInv, Ends, Tells,
         UNCHANGED <<flags, readPending, writePending, pending, netVars, native,
                     held, eof>>,
         app' \in {"new", "await", "failed", "running"},
         app' = "new" => app = "new",
         pc' \in [Readers \cup Closers -> {"idle", "look", "wait", "decode",
                                           "reject", "join", "closed"}],
         worker' \in {"await", "upload", "got", "write", "left"},
         worker' \in {"await", "upload", "got"} => ~writePending,
         body' \in {"none", "bytes", "lastBytes", "end"},
         uploadClosed' \in BOOLEAN,
         cleanup' \in {"await", "join", "done"},
         cleanup' # "await" => terminal',
         cleanup' = "done" => worker' = "left"
  PROVE  IInv' /\ NativeStep
<1>1. TypeOK'
  <2>1. destroys' \in 0..1
    BY DEF Ends
  <2>. QED BY <2>1 DEF IInv, TypeOK, Ends, flags, netVars
<1>2. Life'
  BY DEF IInv, Life, Ends, flags, netVars
<1>3. Buffers'
  BY DEF IInv, Buffers, netVars
<1>4. Response'
  BY DEF IInv, Response, Ends, flags, netVars
<1>5. Cleaning'
  BY DEF Cleaning
<1>6. ReadFlow'
  BY DEF IInv, ReadFlow, Ends, flags
<1>7. NativeStep
  BY TellsSteps
<1>. QED BY <1>1, <1>2, <1>3, <1>4, <1>5, <1>6, <1>7 DEF IInv

\* Where the goroutines are.
LEMMA Goroutines ==
  ASSUME IInv
  PROVE  /\ app \in {"new", "await", "failed", "running"}
         /\ pc \in [Readers \cup Closers -> {"idle", "look", "wait", "decode",
                                             "reject", "join", "closed"}]
         /\ worker \in {"await", "upload", "got", "write", "left"}
         /\ worker \in {"await", "upload", "got"} => ~writePending
         /\ body \in {"none", "bytes", "lastBytes", "end"}
         /\ uploadClosed \in BOOLEAN
         /\ cleanup \in {"await", "join", "done"}
         /\ cleanup # "await" => terminal
         /\ cleanup = "done" => worker = "left"
  BY DEF IInv, TypeOK, Buffers, Cleaning

\* Steps of readers and closers.
LEMMA GotoKeeps ==
  ASSUME IInv, Ends, Tells, NEW p \in Readers \cup Closers,
         NEW label \in {"idle", "look", "wait", "decode", "reject", "join", "closed"},
         Goto(p, label),
         UNCHANGED <<flags, readPending, writePending, pending, app, worker, body,
                     cleanupVars, netVars, native, held, eof>>
  PROVE  IInv' /\ NativeStep
<1>1. pc' \in [Readers \cup Closers -> {"idle", "look", "wait", "decode",
                                        "reject", "join", "closed"}]
  BY Goroutines DEF Goto
<1>2. terminal => terminal'
  BY DEF Ends
<1>. QED BY <1>1, <1>2, Goroutines, QuietKeeps DEF cleanupVars

LEMMA StepKeeps ==
  ASSUME IInv, NEW p \in Readers \cup Closers, NEW from,
         NEW to \in {"idle", "look", "wait", "decode", "reject", "join", "closed"},
         Step(p, from, to)
  PROVE  IInv' /\ NativeStep
<1>1. Ends /\ Tells
  BY SameEnds DEF Step, IInv
<1>. QED BY <1>1, GotoKeeps DEF Step

\* Steps of goroutines other than those.
LEMMA StaysKeeps ==
  ASSUME IInv, Ends, Tells,
         UNCHANGED <<flags, readPending, writePending, pending, app, pc, netVars,
                     native, held, eof>>,
         worker' \in {"await", "upload", "got", "write", "left"},
         worker' \in {"await", "upload", "got"} => ~writePending,
         worker = "left" => worker' = "left",
         body' \in {"none", "bytes", "lastBytes", "end"},
         UNCHANGED cleanupVars
  PROVE  IInv' /\ NativeStep
<1>1. terminal => terminal'
  BY DEF Ends
<1>. QED BY <1>1, Goroutines, QuietKeeps DEF cleanupVars

LEMMA StartReturnsKeeps ==
  ASSUME IInv, StartReturns
  PROVE  IInv' /\ NativeStep
<1>1. Ends /\ Tells
  BY SameEnds DEF StartReturns, IInv
<1>2. terminal => terminal'
  BY <1>1 DEF Ends
<1>. QED BY <1>1, <1>2, Goroutines, QuietKeeps DEF StartReturns, cleanupVars

LEMMA cancelKeeps ==
  ASSUME IInv, cancel
  PROVE  IInv' /\ NativeStep
<1>1. Ends /\ Tells
  BY CancelEnds DEF cancel, IInv, Errors
<1>. QED BY <1>1, Goroutines, StaysKeeps DEF cancel, goVars

LEMMA closeKeeps ==
  ASSUME IInv, NEW p \in Closers, close(p)
  PROVE  IInv' /\ NativeStep
<1>1. Ends /\ Tells
  BY CancelEnds DEF close, IInv, Errors
<1>. QED BY <1>1, GotoKeeps DEF close

LEMMA RejectKeeps ==
  ASSUME IInv, NEW p \in Readers, Reject(p)
  PROVE  IInv' /\ NativeStep
<1>1. Ends /\ Tells
  BY CancelEnds DEF Reject, IInv, Errors
<1>. QED BY <1>1, GotoKeeps DEF Reject

LEMMA WorkerStartKeeps ==
  ASSUME IInv, WorkerStart
  PROVE  IInv' /\ NativeStep
<1>1. Ends /\ Tells
  BY SameEnds DEF WorkerStart, WorkerOnly, IInv
<1>. QED BY <1>1, Goroutines, StaysKeeps DEF WorkerStart, WorkerOnly, WorkerGoto

LEMMA UploadReadKeeps ==
  ASSUME IInv, UploadRead
  PROVE  IInv' /\ NativeStep
<1>1. Ends /\ Tells
  BY SameEnds DEF UploadRead, WorkerOnly, IInv
<1>. QED BY <1>1, Goroutines, StaysKeeps DEF UploadRead, WorkerOnly, WorkerGoto

LEMMA WorkerWokenKeeps ==
  ASSUME IInv, WorkerWoken
  PROVE  IInv' /\ NativeStep
<1>1. /\ worker = "write" /\ UNCHANGED <<app, pc, body>>
      /\ UNCHANGED <<flags, readPending, writePending, pending, cleanupVars,
                     netVars, native, held, eof>>
  BY DEF WorkerWoken, WorkerGoto
<1>2. /\ worker' \in {"write", "left", "upload"}
      /\ worker' = "upload" => ~writePending
  BY DEF WorkerWoken, WorkerGoto
<1>3. Ends /\ Tells
  <2>1. CASE UNCHANGED endVars
    BY <2>1, SameEnds DEF IInv
  <2>2. CASE /\ woken' = woken \ {"worker"}
             /\ UNCHANGED <<err, cancelled, terminal, cancelPosted, destroys>>
    <3>1. woken' \subseteq Waiters
      BY <2>2 DEF IInv, TypeOK
    <3>. QED BY <2>2, <3>1, SignalEnds DEF IInv
  <2>3. CASE cancelLocked("EOF")
    BY <2>3, CancelEnds DEF IInv, Errors
  <2>. QED BY <2>1, <2>2, <2>3 DEF WorkerWoken
<1>. QED BY <1>1, <1>2, <1>3, Goroutines, StaysKeeps

LEMMA CleanupKeeps ==
  ASSUME IInv, CleanupClose \/ CleanupFree
  PROVE  IInv' /\ NativeStep
<1>1. CleanupStep
  BY DEF CleanupClose, CleanupFree
<1>2. Ends /\ Tells
  BY <1>1, SameEnds DEF CleanupStep, IInv
<1>3. terminal => terminal'
  BY <1>2 DEF Ends
<1>4. CASE CleanupClose
  BY <1>1, <1>2, <1>3, <1>4, Goroutines, QuietKeeps DEF CleanupStep, CleanupClose, goVars
<1>5. CASE CleanupFree
  BY <1>1, <1>2, <1>3, <1>5, Goroutines, QuietKeeps DEF CleanupStep, CleanupFree, goVars
<1>. QED BY <1>4, <1>5

-----------------------------------------------------------------------------
(* Steps that use the stream or tell what it did.                          *)

\* What every section of r.mu keeps.
LEMMA SectionTypes ==
  ASSUME IInv, Ends,
         UNCHANGED <<framed, started, uploadClosed, cleanup, app, responded, eof>>,
         ready' \in BOOLEAN, haveHeaders' \in BOOLEAN,
         readPending' \in BOOLEAN, writePending' \in BOOLEAN,
         pending' \in 0..MaxChunk,
         pc' \in [Readers \cup Closers -> {"idle", "look", "wait", "decode",
                                           "reject", "join", "closed"}],
         worker' \in {"await", "upload", "got", "write", "left"},
         body' = body, net' = net \/ net' = Idle, native' = native,
         held' \in [Dirs -> {"request", None}]
  PROVE  TypeOK'
<1>1. destroys' \in 0..1
  BY DEF Ends
<1>2. Idle \in [do : {"none", "OnStreamReady", "OnResponseHeadersReceived",
                      "OnReadCompleted", "OnWriteCompleted", "OnTerminal"},
                n : 0..MaxChunk, err : Errors]
  BY ConstantsAssumption DEF Idle, Errors
<1>3. TypeOK
  BY DEF IInv
<1>4. net' \in [do : {"none", "OnStreamReady", "OnResponseHeadersReceived",
                      "OnReadCompleted", "OnWriteCompleted", "OnTerminal"},
                n : 0..MaxChunk, err : Errors]
  BY <1>2, <1>3 DEF TypeOK
<1>. QED BY <1>1, <1>3, <1>4 DEF TypeOK, Ends

\* A lent buffer is an operation the contract allows.
LEMMA Posts ==
  ASSUME IInv, NEW d \in Dirs, Lend(d), ~Failed, held[d] = None,
         d = "read" => ~eof,
         UNCHANGED <<native, eof, cancelPosted, destroys>>
  PROVE  NativeStep
<1>1. CASE native # "running"
  BY <1>1 DEF Lend, NativeStep, Native!nativeVars
<1>2. CASE native = "running"
  <2>1. destroys = 0
    BY DEF IInv, Life, Failed
  <2>2. held' = [held EXCEPT ![d] = "request"]
    BY <1>2 DEF Lend
  <2>3. Native!Post(d, "request")
    BY <1>2, <2>1, <2>2 DEF Native!Post
  <2>4. "request" \in Threads /\ d \in Native!Dirs
    BY DEF Threads, Native!Dirs, Dirs
  <2>. QED BY <2>3, <2>4 DEF NativeStep, Native!Next
<1>. QED BY <1>1, <1>2

\* No read is posted after the end of the response.
LEMMA PostsRead ==
  ASSUME IInv, Lend("read"), ~Failed, held["read"] = None,
         net.do # "OnReadCompleted",
         UNCHANGED <<native, eof, cancelPosted, destroys>>
  PROVE  NativeStep
<1>1. ~eof /\ "read" \in Dirs
  BY DEF IInv, Response, Dirs
<1>. QED BY <1>1, Posts

LEMMA startKeeps ==
  ASSUME IInv, start
  PROVE  IInv' /\ NativeStep
<1>1. /\ app = "new" /\ ~started /\ native \in {"created", "deleted"}
      /\ native = "deleted" => terminal
  BY DEF start, IInv, Life
<1>2. UNCHANGED <<framed, ready, haveHeaders, readPending, writePending, pending,
                  pc, worker, body, cleanupVars, netVars, held, eof>>
  BY DEF start
<1>3. CASE terminal /\ app' = "failed" /\ UNCHANGED <<started, native, endVars>>
  <2>1. Ends /\ Tells
    BY <1>3, SameEnds DEF IInv
  <2>2. terminal'
    BY <1>3 DEF endVars
  <2>. QED BY <1>2, <1>3, <2>1, <2>2, Goroutines, QuietKeeps DEF flags, cleanupVars
<1>4. CASE ~terminal /\ app' \in {"await", "running"} /\ native' \in {"refused", "running"}
           /\ (native' = "running" => started' = TRUE /\ UNCHANGED endVars
                                      /\ app' = "running")
           /\ (native' = "refused" => finishLocked("start") /\ UNCHANGED started
                                      /\ app' = "await")
  <2>1. native = "created" /\ destroys = 0
    BY <1>1, <1>4 DEF IInv, Life
  <2>2. /\ net.do # "OnTerminal" /\ held["read"] = None /\ held["write"] = None
        /\ TypeOK /\ Life
    BY <1>1, <2>1 DEF IInv, Life, Buffers
  <2>3. Ends
    <3>1. CASE native' = "running"
      BY <1>4, <2>2, <3>1, SameEnds
    <3>2. CASE native' = "refused"
      <4>1. "start" \in Errors
        BY DEF Errors
      <4>. QED BY <1>4, <2>1, <2>2, <3>2, <4>1, FinishEnds
    <3>. QED BY <1>4, <3>1, <3>2
  <2>4. /\ native' = "running" => ~terminal' /\ destroys' = 0 /\ started'
        /\ native' = "refused" => terminal' /\ destroys' = 1
        /\ cancelPosted' = cancelPosted /\ started' \in BOOLEAN
    <3>1. CASE native' = "running"
      BY <1>4, <2>1, <3>1 DEF endVars
    <3>2. CASE native' = "refused"
      <4>1. /\ terminal' = TRUE /\ destroys' = destroys + 1
            /\ UNCHANGED <<cancelPosted, started>>
        BY <1>4, <3>2 DEF finishLocked
      <4>2. started \in BOOLEAN
        BY <2>2, Flags
      <4>. QED BY <2>1, <3>2, <4>1, <4>2
    <3>. QED BY <1>4, <3>1, <3>2
  <2>5. TypeOK'
    <3>1. destroys' \in 0..1
      BY <1>4, <2>4
    <3>. QED BY <1>2, <1>4, <2>2, <2>3, <2>4, <3>1
             DEF TypeOK, Ends, cleanupVars, netVars
  <2>6. Life'
    BY <1>2, <1>4, <2>2, <2>3, <2>4 DEF Life, Ends, netVars
  <2>7. Buffers'
    BY <1>2, <2>2 DEF IInv, Buffers, netVars
  <2>8. Response'
    BY <1>2, <2>3 DEF IInv, Response, Ends, netVars
  <2>9. Cleaning'
    BY <1>2, <2>3 DEF IInv, Cleaning, Ends, cleanupVars
  <2>10. ReadFlow'
    BY <1>2, <2>3 DEF IInv, ReadFlow, Ends
  <2>11. NativeStep
    BY <1>2, <1>4, <2>1, <2>4 DEF NativeStep, Native!Next, Native!Start
  <2>. QED BY <2>5, <2>6, <2>7, <2>8, <2>9, <2>10, <2>11 DEF IInv
<1>. QED BY <1>1, <1>3, <1>4 DEF start

LEMMA LookKeeps ==
  ASSUME IInv, NEW p \in Readers, Look(p)
  PROVE  IInv' /\ NativeStep
<1>1. UNCHANGED <<flags, writePending, app, worker, body, cleanupVars, netVars,
                  native, eof>>
  BY DEF Look
<1>2. TypeOK /\ Life /\ haveHeaders \in BOOLEAN
  BY DEF IInv, TypeOK
<1>3. ASSUME NEW label \in {"idle", "wait", "reject", "decode"}, Goto(p, label)
      PROVE  pc' \in [Readers \cup Closers -> {"idle", "look", "wait", "decode",
                                               "reject", "join", "closed"}]
  BY <1>3, Goroutines DEF Goto
<1>4. CASE UNCHANGED <<pending, readPending, held>>
           /\ \E label \in {"idle", "wait", "reject", "decode"} : Goto(p, label)
           /\ woken' \in {woken, woken \ {p}}
           /\ UNCHANGED <<err, cancelled, terminal, cancelPosted, destroys>>
  <2>1. woken' \subseteq Waiters
    BY <1>2, <1>4 DEF TypeOK
  <2>2. Ends /\ Tells
    BY <1>2, <1>4, <2>1, SignalEnds
  <2>3. PICK label \in {"idle", "wait", "reject", "decode"} : Goto(p, label)
    BY <1>4
  <2>4. UNCHANGED <<flags, readPending, writePending, pending, app, worker, body,
                    cleanupVars, netVars, native, held, eof>>
    BY <1>1, <1>4
  <2>. QED BY <2>2, <2>3, <2>4, GotoKeeps
<1>5. CASE /\ pending > 0 /\ \E k \in 1..pending : pending' = pending - k
           /\ pending' # 0 /\ UNCHANGED <<readPending, held, endVars>>
           /\ \E label \in {"idle", "wait", "reject", "decode"} : Goto(p, label)
  <2>1. Ends /\ Tells
    BY <1>2, <1>5, SameEnds
  <2>2. pc' \in [Readers \cup Closers -> {"idle", "look", "wait", "decode",
                                          "reject", "join", "closed"}]
    BY <1>3, <1>5
  <2>3. pending \in 0..MaxChunk /\ MaxChunk \in Nat
    BY <1>2, ConstantsAssumption DEF TypeOK
  <2>4. pending' \in 0..MaxChunk /\ pending' > 0
    BY <1>5, <2>3
  <2>5. TypeOK'
    BY <1>1, <1>2, <1>5, <2>1, <2>2, <2>4, Flags, Goroutines, SectionTypes
       DEF flags, cleanupVars, netVars, TypeOK
  <2>6. Life'
    BY <1>1, <1>2, <2>1 DEF Life, Ends, flags, netVars
  <2>7. Buffers'
    BY <1>1, <1>5 DEF IInv, Buffers, flags, netVars
  <2>8. Response'
    <3>1. haveHeaders
      BY <1>5 DEF IInv, Response
    <3>. QED BY <1>1, <1>5, <2>1, <3>1 DEF IInv, Response, Ends, flags, netVars
  <2>9. Cleaning'
    BY <1>1, <2>1 DEF IInv, Cleaning, Ends, cleanupVars
  <2>10. ReadFlow'
    <3>1. ~readPending /\ held["read"] = None
      BY <1>5, <2>3 DEF IInv, ReadFlow
    <3>. QED BY <1>5, <2>4, <3>1 DEF ReadFlow
  <2>11. NativeStep
    BY <1>1, <1>5, <2>1, TellsSteps
  <2>. QED BY <2>5, <2>6, <2>7, <2>8, <2>9, <2>10, <2>11 DEF IInv
<1>6. CASE /\ pending > 0 /\ pending' = 0 /\ startReadLocked(haveHeaders)
           /\ \E label \in {"idle", "wait", "reject", "decode"} : Goto(p, label)
  <2>1. /\ Ends
        /\ held' \in [Dirs -> {"request", None}]
        /\ readPending' \in BOOLEAN /\ (readPending => readPending')
        /\ held'["write"] = held["write"]
        /\ haveHeaders => readPending' \/ Failed'
        /\ \/ held'["read"] = held["read"]
           \/ held'["read"] = "request" /\ native = "running" /\ readPending'
        /\ \/ UNCHANGED held /\ Tells
           \/ /\ Lend("read") /\ ~readPending /\ ~Failed
              /\ UNCHANGED <<cancelPosted, destroys>>
    BY <1>2, <1>6, StartsRead
  <2>2. pc' \in [Readers \cup Closers -> {"idle", "look", "wait", "decode",
                                          "reject", "join", "closed"}]
    BY <1>3, <1>6
  <2>3. haveHeaders /\ ~readPending /\ held["read"] = None
    <3>1. pending # 0
      BY <1>6
    <3>. QED BY <3>1 DEF IInv, Response, ReadFlow
  <2>4. net.do # "OnReadCompleted"
    BY <2>3 DEF IInv, Buffers
  <2>5. TypeOK'
    <3>1. pending' \in 0..MaxChunk
      BY <1>6, ConstantsAssumption
    <3>. QED BY <1>1, <1>2, <2>1, <2>2, <3>1, Flags, Goroutines, SectionTypes
             DEF flags, cleanupVars, netVars
  <2>6. Life'
    BY <1>1, <1>2, <2>1 DEF Life, Ends, flags, netVars
  <2>7. Buffers'
    <3>1. /\ native # "running" => held'["read"] = None /\ held'["write"] = None
          /\ held'["read"] # None => readPending'
      BY <2>1, <2>3 DEF IInv, Buffers
    <3>. QED BY <1>1, <2>1, <2>4, <3>1 DEF IInv, Buffers, flags, netVars
  <2>8. Response'
    BY <1>1, <2>1, <2>3, <2>4 DEF IInv, Response, Ends, flags, netVars
  <2>9. Cleaning'
    BY <1>1, <2>1 DEF IInv, Cleaning, Ends, cleanupVars
  <2>10. ReadFlow'
    BY <1>1, <1>6, <2>1, <2>3 DEF ReadFlow, flags
  <2>11. NativeStep
    <3>1. CASE UNCHANGED held /\ Tells
      BY <1>1, <3>1, TellsSteps
    <3>2. CASE /\ Lend("read") /\ ~readPending /\ ~Failed
               /\ UNCHANGED <<cancelPosted, destroys>>
      BY <1>1, <2>3, <2>4, <3>2, PostsRead
    <3>. QED BY <2>1, <3>1, <3>2
  <2>. QED BY <2>5, <2>6, <2>7, <2>8, <2>9, <2>10, <2>11 DEF IInv
<1>7. \E label \in {"idle", "wait", "reject", "decode"} : Goto(p, label)
  BY DEF Look
<1>8. \/ /\ pending > 0 /\ \E k \in 1..pending : pending' = pending - k
         /\ IF pending' = 0
            THEN startReadLocked(haveHeaders)
            ELSE UNCHANGED <<readPending, held, endVars>>
      \/ UNCHANGED <<pending, readPending, held, endVars>>
      \/ /\ woken' = woken \ {p}
         /\ UNCHANGED <<pending, readPending, held, err, cancelled, terminal,
                        cancelPosted, destroys>>
  BY DEF Look
<1>9. CASE /\ pending > 0 /\ \E k \in 1..pending : pending' = pending - k
           /\ IF pending' = 0
              THEN startReadLocked(haveHeaders)
              ELSE UNCHANGED <<readPending, held, endVars>>
  <2>1. CASE pending' = 0
    BY <1>6, <1>7, <1>9, <2>1
  <2>2. CASE pending' # 0
    BY <1>5, <1>7, <1>9, <2>2
  <2>. QED BY <2>1, <2>2
<1>10. CASE UNCHANGED <<pending, readPending, held, endVars>>
  <2>1. UNCHANGED <<pending, readPending, held>>
    BY <1>10
  <2>2. UNCHANGED <<err, cancelled, terminal, cancelPosted, destroys, woken>>
    BY <1>10 DEF endVars
  <2>. QED BY <1>4, <1>7, <2>1, <2>2
<1>11. CASE /\ woken' = woken \ {p}
            /\ UNCHANGED <<pending, readPending, held, err, cancelled, terminal,
                           cancelPosted, destroys>>
  BY <1>4, <1>7, <1>11
<1>. QED BY <1>8, <1>9, <1>10, <1>11

LEMMA WorkerWriteKeeps ==
  ASSUME IInv, WorkerWrite
  PROVE  IInv' /\ NativeStep
<1>1. /\ worker = "got" /\ UNCHANGED <<app, pc>>
      /\ UNCHANGED <<flags, readPending, pending, body, cleanupVars, netVars,
                     native, eof>>
  BY DEF WorkerWrite, WorkerGoto
<1>2. /\ TypeOK /\ Life /\ ~writePending /\ held["write"] = None
      /\ net.do # "OnWriteCompleted" /\ cleanup # "done"
  BY <1>1 DEF IInv, Buffers, Cleaning
<1>3. CASE /\ UNCHANGED <<writePending, held>> /\ worker' = "left"
           /\ UNCHANGED endVars \/ cancelLocked("EOF")
  <2>1. Ends /\ Tells
    BY <1>2, <1>3, SameEnds, CancelEnds DEF Errors
  <2>. QED BY <1>1, <1>3, <2>1, Goroutines, StaysKeeps
<1>4. ASSUME Ends, writePending' = TRUE, worker' \in {"write", "left"},
             held' \in [Dirs -> {"request", None}],
             held'["read"] = held["read"],
             native # "running" => held'["write"] = None,
             NativeStep
      PROVE  IInv' /\ NativeStep
  <2>1. TypeOK'
    BY <1>1, <1>2, <1>4, Flags, Goroutines, SectionTypes
       DEF flags, cleanupVars, netVars, TypeOK
  <2>2. Life'
    BY <1>1, <1>2, <1>4 DEF Life, Ends, flags, netVars
  <2>3. Buffers'
    BY <1>1, <1>2, <1>4 DEF IInv, Buffers, netVars
  <2>4. Response'
    BY <1>1, <1>4 DEF IInv, Response, Ends, flags, netVars
  <2>5. Cleaning'
    BY <1>1, <1>2, <1>4 DEF IInv, Cleaning, Ends, cleanupVars
  <2>6. ReadFlow'
    BY <1>1, <1>4 DEF IInv, ReadFlow, Ends, flags
  <2>. QED BY <1>4, <2>1, <2>2, <2>3, <2>4, <2>5, <2>6 DEF IInv
<1>5. CASE /\ ~Failed /\ writePending' = TRUE /\ Lend("write") /\ worker' = "write"
           /\ woken' = woken \ {"worker"}
           /\ UNCHANGED <<err, cancelled, terminal, cancelPosted, destroys>>
  <2>1. woken' \subseteq Waiters
    BY <1>2, <1>5 DEF TypeOK
  <2>2. Ends
    BY <1>2, <1>5, <2>1, SignalEnds
  <2>3. "write" \in Dirs /\ "read" \in Dirs
    BY DEF Dirs
  <2>4. /\ held' \in [Dirs -> {"request", None}]
        /\ held'["write"] = IF native = "running" THEN "request" ELSE held["write"]
        /\ held'["read"] = held["read"]
    BY <1>2, <1>5, <2>3, Lends
  <2>5. NativeStep
    BY <1>1, <1>2, <1>5, <2>3, Posts
  <2>. QED BY <1>2, <1>4, <1>5, <2>2, <2>4, <2>5
<1>6. CASE /\ writePending' = TRUE /\ cancelLocked("write") /\ worker' = "left"
           /\ UNCHANGED held
  <2>1. Ends /\ Tells
    BY <1>2, <1>6, CancelEnds DEF Errors
  <2>2. NativeStep
    BY <1>1, <1>6, <2>1, TellsSteps
  <2>3. held \in [Dirs -> {"request", None}]
    BY <1>2 DEF TypeOK
  <2>. QED BY <1>2, <1>4, <1>6, <2>1, <2>2, <2>3
<1>. QED BY <1>3, <1>5, <1>6 DEF WorkerWrite, WorkerGoto

-----------------------------------------------------------------------------
(* The network thread: events.                                             *)

\* The type of the variables that an event changes.
LEMMA EventTypes ==
  ASSUME IInv, net' = net \/ net' \in
           [do : {"none", "OnStreamReady", "OnResponseHeadersReceived",
                  "OnReadCompleted", "OnWriteCompleted", "OnTerminal"},
            n : 0..MaxChunk, err : Errors],
         responded' \in BOOLEAN, eof' \in BOOLEAN,
         held' \in [Dirs -> {"request", None}],
         native' \in {"created", "running", "refused", "ended", "deleted"},
         UNCHANGED <<flags, readPending, writePending, pending, endVars, goVars,
                     cleanupVars>>
  PROVE  TypeOK' /\ Cleaning'
<1>1. TypeOK'
  BY DEF IInv, TypeOK, flags, endVars, goVars, cleanupVars
<1>2. Cleaning'
  BY DEF IInv, Cleaning, endVars, goVars, cleanupVars
<1>. QED BY <1>1, <1>2

\* A callback record has its type.
LEMMA Callbacks ==
  ASSUME NEW do \in {"OnStreamReady", "OnResponseHeadersReceived",
                     "OnReadCompleted", "OnWriteCompleted", "OnTerminal"},
         NEW n \in 0..MaxChunk, NEW e \in Errors
  PROVE  /\ Callback(do, n, e) \in
              [do : {"none", "OnStreamReady", "OnResponseHeadersReceived",
                     "OnReadCompleted", "OnWriteCompleted", "OnTerminal"},
               n : 0..MaxChunk, err : Errors]
         /\ Callback(do, n, e).do = do /\ Callback(do, n, e).n = n
         /\ Callback(do, n, e).err = e
  BY DEF Callback

\* An event that only calls back.
LEMMA NetReadyKeeps ==
  ASSUME IInv, NetReady
  PROVE  IInv' /\ NativeStep
<1>1. /\ net' = Callback("OnStreamReady", 0, "none")
      /\ UNCHANGED <<flags, readPending, writePending, pending, endVars, goVars,
                     cleanupVars, responded, native, held, eof>>
      /\ net = Idle
  BY DEF NetReady, Event
<1>2. 0 \in 0..MaxChunk /\ "none" \in Errors
  BY ConstantsAssumption DEF Errors
<1>3. /\ net' \in [do : {"none", "OnStreamReady", "OnResponseHeadersReceived",
                         "OnReadCompleted", "OnWriteCompleted", "OnTerminal"},
                   n : 0..MaxChunk, err : Errors]
      /\ net'.do = "OnStreamReady" /\ net.do = "none"
  BY <1>1, <1>2, Callbacks DEF Idle
<1>4. TypeOK' /\ Cleaning'
  BY <1>1, <1>3, EventTypes DEF IInv, TypeOK
<1>5. Life'
  BY <1>1, <1>3 DEF IInv, Life, flags, endVars, goVars
<1>6. Buffers'
  BY <1>1, <1>3 DEF IInv, Buffers, goVars
<1>7. Response'
  BY <1>1, <1>3 DEF IInv, Response, Failed, flags, endVars
<1>8. ReadFlow'
  BY <1>1 DEF IInv, ReadFlow, Failed, flags, endVars
<1>9. NativeStep
  BY <1>1 DEF NativeStep, Native!nativeVars, endVars
<1>. QED BY <1>4, <1>5, <1>6, <1>7, <1>8, <1>9 DEF IInv

LEMMA NetHeadersKeeps ==
  ASSUME IInv, NetHeaders
  PROVE  IInv' /\ NativeStep
<1>1. /\ \E e \in {"none", "headers"} :
            net' = Callback("OnResponseHeadersReceived", 0, e)
      /\ UNCHANGED <<flags, readPending, writePending, pending, endVars, goVars,
                     cleanupVars, native, held, eof>>
      /\ net = Idle /\ ~responded /\ responded' = TRUE
  BY DEF NetHeaders, Event
<1>2. 0 \in 0..MaxChunk /\ "none" \in Errors /\ "headers" \in Errors
  BY ConstantsAssumption DEF Errors
<1>3. /\ net' \in [do : {"none", "OnStreamReady", "OnResponseHeadersReceived",
                         "OnReadCompleted", "OnWriteCompleted", "OnTerminal"},
                   n : 0..MaxChunk, err : Errors]
      /\ net'.do = "OnResponseHeadersReceived" /\ net.do = "none"
  BY <1>1, <1>2, Callbacks DEF Idle
<1>4. TypeOK' /\ Cleaning'
  BY <1>1, <1>3, EventTypes DEF IInv, TypeOK
<1>5. Life'
  BY <1>1, <1>3 DEF IInv, Life, flags, endVars, goVars
<1>6. Buffers'
  BY <1>1, <1>3 DEF IInv, Buffers, goVars
<1>7. Response'
  BY <1>1, <1>3 DEF IInv, Response, Failed, flags, endVars
<1>8. ReadFlow'
  BY <1>1 DEF IInv, ReadFlow, Failed, flags, endVars
<1>9. NativeStep
  BY <1>1 DEF NativeStep, Native!nativeVars, endVars
<1>. QED BY <1>4, <1>5, <1>6, <1>7, <1>8, <1>9 DEF IInv

\* An operation of the native stream completes in a step of its own.
LEMMA Completes ==
  ASSUME NEW d \in Dirs, native = "running", held[d] # None,
         held' = [held EXCEPT ![d] = None],
         eof' = eof \/ (d = "read" /\ eof' = (eof \/ TRUE)),
         UNCHANGED <<native, cancelPosted, destroys>>
  PROVE  NativeStep
<1>1. Native!Complete(d)
  BY DEF Native!Complete
<1>. QED BY <1>1 DEF NativeStep, Native!Next, Native!Dirs, Dirs

LEMMA NetReadKeeps ==
  ASSUME IInv, NetRead
  PROVE  IInv' /\ NativeStep
<1>1. /\ native = "running" /\ held["read"] # None
      /\ held' = [held EXCEPT !["read"] = None]
      /\ net = Idle
      /\ UNCHANGED <<flags, readPending, writePending, pending, endVars, goVars,
                     cleanupVars, responded, native>>
  BY DEF NetRead, Event
<1>2. /\ eof \in BOOLEAN /\ eof' \in BOOLEAN
      /\ \/ eof' = TRUE
            /\ \E e \in {"EOF", "status"} : net' = Callback("OnReadCompleted", 0, e)
         \/ eof' = eof /\ ~eof
            /\ \E n \in 1..MaxChunk : net' = Callback("OnReadCompleted", n, "none")
  BY Flags DEF NetRead, Event, IInv
<1>3. /\ 0 \in 0..MaxChunk /\ 1..MaxChunk \subseteq 0..MaxChunk
      /\ {"none", "EOF", "status"} \subseteq Errors
  BY ConstantsAssumption DEF Errors
<1>4. /\ net' \in [do : {"none", "OnStreamReady", "OnResponseHeadersReceived",
                         "OnReadCompleted", "OnWriteCompleted", "OnTerminal"},
                   n : 0..MaxChunk, err : Errors]
      /\ net'.do = "OnReadCompleted" /\ net.do = "none"
      /\ net'.n = 0 => net'.err # "none"
      /\ eof' => net'.n = 0
  <2>1. net.do = "none"
    BY <1>1 DEF Idle
  <2>2. CASE \E e \in {"EOF", "status"} : net' = Callback("OnReadCompleted", 0, e)
    BY <1>3, <2>1, <2>2, Callbacks
  <2>3. CASE eof' = eof /\ ~eof
             /\ \E n \in 1..MaxChunk : net' = Callback("OnReadCompleted", n, "none")
    <3>1. PICK n \in 1..MaxChunk : net' = Callback("OnReadCompleted", n, "none")
      BY <2>3
    <3>2. n \in 0..MaxChunk /\ n # 0 /\ "none" \in Errors
      BY <1>3
    <3>3. /\ net' \in [do : {"none", "OnStreamReady", "OnResponseHeadersReceived",
                             "OnReadCompleted", "OnWriteCompleted", "OnTerminal"},
                       n : 0..MaxChunk, err : Errors]
          /\ net'.do = "OnReadCompleted" /\ net'.n = n
      BY <3>1, <3>2, Callbacks
    <3>4. ~eof'
      BY <2>3
    <3>. QED BY <2>1, <3>2, <3>3, <3>4
  <2>. QED BY <1>2, <2>2, <2>3
<1>5. /\ held' \in [Dirs -> {"request", None}]
      /\ held'["read"] = None /\ held'["write"] = held["write"]
  BY <1>1 DEF IInv, TypeOK, Dirs
<1>6. TypeOK' /\ Cleaning'
  BY <1>1, <1>2, <1>4, <1>5, EventTypes DEF IInv, TypeOK
<1>7. Life'
  BY <1>1, <1>4 DEF IInv, Life, flags, endVars, goVars
<1>8. Buffers'
  BY <1>1, <1>4, <1>5 DEF IInv, Buffers, goVars
<1>9. Response'
  BY <1>1, <1>4 DEF IInv, Response, Failed, flags, endVars
<1>10. ReadFlow'
  BY <1>1, <1>5 DEF IInv, ReadFlow, Failed, flags, endVars
<1>11. NativeStep
  <2>1. "read" \in Dirs /\ eof' \in {eof, eof \/ "read" = "read"}
    BY <1>2 DEF Dirs
  <2>2. Native!Complete("read")
    BY <1>1, <2>1 DEF Native!Complete, endVars
  <2>. QED BY <2>2 DEF NativeStep, Native!Next, Native!Dirs
<1>. QED BY <1>6, <1>7, <1>8, <1>9, <1>10, <1>11 DEF IInv

LEMMA NetWriteKeeps ==
  ASSUME IInv, NetWrite
  PROVE  IInv' /\ NativeStep
<1>1. /\ native = "running" /\ held["write"] # None
      /\ held' = [held EXCEPT !["write"] = None]
      /\ net = Idle /\ net' = Callback("OnWriteCompleted", 0, "none")
      /\ UNCHANGED <<flags, readPending, writePending, pending, endVars, goVars,
                     cleanupVars, responded, native, eof>>
  BY DEF NetWrite, Event
<1>2. 0 \in 0..MaxChunk /\ "none" \in Errors
  BY ConstantsAssumption DEF Errors
<1>3. /\ net' \in [do : {"none", "OnStreamReady", "OnResponseHeadersReceived",
                         "OnReadCompleted", "OnWriteCompleted", "OnTerminal"},
                   n : 0..MaxChunk, err : Errors]
      /\ net'.do = "OnWriteCompleted" /\ net.do = "none"
  BY <1>1, <1>2, Callbacks DEF Idle
<1>4. /\ held' \in [Dirs -> {"request", None}]
      /\ held'["write"] = None /\ held'["read"] = held["read"]
  BY <1>1 DEF IInv, TypeOK, Dirs
<1>5. TypeOK' /\ Cleaning'
  BY <1>1, <1>3, <1>4, EventTypes DEF IInv, TypeOK
<1>6. Life'
  BY <1>1, <1>3 DEF IInv, Life, flags, endVars, goVars
<1>7. Buffers'
  BY <1>1, <1>3, <1>4 DEF IInv, Buffers, goVars
<1>8. Response'
  BY <1>1, <1>3 DEF IInv, Response, Failed, flags, endVars
<1>9. ReadFlow'
  BY <1>1, <1>4 DEF IInv, ReadFlow, Failed, flags, endVars
<1>10. NativeStep
  <2>1. Native!Complete("write")
    BY <1>1 DEF Native!Complete, endVars
  <2>. QED BY <2>1 DEF NativeStep, Native!Next, Native!Dirs
<1>. QED BY <1>5, <1>6, <1>7, <1>8, <1>9, <1>10 DEF IInv

\* Every buffer is given back when the stream ends.
LEMMA NoneHeld ==
  ASSUME held' = [d \in Dirs |-> None]
  PROVE  /\ held' \in [Dirs -> {"request", None}]
         /\ held'["read"] = None /\ held'["write"] = None
  BY DEF Dirs

LEMMA NetEndKeeps ==
  ASSUME IInv, NEW e \in {"EOF", "status", "failed", "canceled"}, NetEnd(e)
  PROVE  IInv' /\ NativeStep
<1>1. /\ native = "running" /\ native' = "ended"
      /\ held' = [d \in Dirs |-> None]
      /\ net = Idle /\ net' = Callback("OnTerminal", 0, e)
      /\ UNCHANGED <<flags, readPending, writePending, pending, endVars, goVars,
                     cleanupVars, responded, eof>>
  BY DEF NetEnd, Event
<1>2. 0 \in 0..MaxChunk /\ e \in Errors
  BY ConstantsAssumption DEF Errors
<1>3. /\ net' \in [do : {"none", "OnStreamReady", "OnResponseHeadersReceived",
                         "OnReadCompleted", "OnWriteCompleted", "OnTerminal"},
                   n : 0..MaxChunk, err : Errors]
      /\ net'.do = "OnTerminal" /\ net.do = "none"
  BY <1>1, <1>2, Callbacks DEF Idle
<1>4. /\ held' \in [Dirs -> {"request", None}]
      /\ held'["read"] = None /\ held'["write"] = None
  BY <1>1, NoneHeld
<1>5. TypeOK' /\ Cleaning'
  BY <1>1, <1>3, <1>4, EventTypes DEF IInv, TypeOK
<1>6. Life'
  BY <1>1, <1>3 DEF IInv, Life, flags, endVars, goVars
<1>7. Buffers'
  BY <1>1, <1>3, <1>4 DEF IInv, Buffers, goVars
<1>8. Response'
  BY <1>1, <1>3 DEF IInv, Response, Failed, flags, endVars
<1>9. ReadFlow'
  BY <1>1, <1>4 DEF IInv, ReadFlow, Failed, flags, endVars
<1>10. NativeStep
  BY <1>1 DEF NativeStep, Native!Next, Native!End, Native!Dirs, Dirs, endVars
<1>. QED BY <1>5, <1>6, <1>7, <1>8, <1>9, <1>10 DEF IInv

LEMMA NetDeleteKeeps ==
  ASSUME IInv, NetDelete
  PROVE  IInv' /\ NativeStep
<1>1. /\ destroys > 0 /\ native # "deleted" /\ native' = "deleted"
      /\ held' = [d \in Dirs |-> None]
      /\ UNCHANGED <<flags, readPending, writePending, pending, endVars, goVars,
                     cleanupVars, netVars, eof>>
      /\ net = Idle
  BY DEF NetDelete
<1>2. /\ destroys = 1 /\ terminal /\ net.do = "none"
  BY <1>1 DEF IInv, Life, Idle
<1>3. /\ held' \in [Dirs -> {"request", None}]
      /\ held'["read"] = None /\ held'["write"] = None
  BY <1>1, NoneHeld
<1>4. TypeOK' /\ Cleaning'
  BY <1>1, <1>3, EventTypes DEF IInv, TypeOK, netVars
<1>5. Life'
  BY <1>1, <1>2 DEF IInv, Life, flags, endVars, goVars, netVars
<1>6. Buffers'
  BY <1>1, <1>2, <1>3 DEF IInv, Buffers, goVars, netVars
<1>7. Response'
  BY <1>1, <1>2 DEF IInv, Response, Failed, flags, endVars, netVars
<1>8. ReadFlow'
  BY <1>1, <1>3 DEF IInv, ReadFlow, Failed, flags, endVars
<1>9. NativeStep
  BY <1>1, <1>2 DEF NativeStep, Native!Next, Native!Delete, Native!Dirs, Dirs, endVars
<1>. QED BY <1>4, <1>5, <1>6, <1>7, <1>8, <1>9 DEF IInv

-----------------------------------------------------------------------------
(* The network thread: callbacks.                                          *)

\* What a callback keeps that does not ask for more.
LEMMA CalledKeeps ==
  ASSUME IInv, NEW do, Called(do), Ends, Tells,
         ready' \in BOOLEAN, haveHeaders' \in BOOLEAN,
         readPending' \in BOOLEAN, writePending' \in BOOLEAN,
         pending' \in 0..MaxChunk, UNCHANGED held
  PROVE  /\ TypeOK' /\ Life' /\ Cleaning' /\ NativeStep /\ net'.do = "none"
         /\ UNCHANGED <<framed, started, app, pc, worker, responded, native, eof>>
<1>1. /\ UNCHANGED <<framed, started, app, pc, worker, body, uploadClosed,
                     cleanup, responded, native, eof>>
      /\ net' = Idle /\ net'.do = "none"
  BY DEF Called, goVars, cleanupVars, Idle
<1>2. TypeOK'
  <2>1. held' \in [Dirs -> {"request", None}]
    BY DEF IInv, TypeOK
  <2>. QED BY <1>1, <2>1, Goroutines, SectionTypes
<1>3. Life'
  BY <1>1 DEF IInv, Life, Ends
<1>4. Cleaning'
  BY <1>1 DEF IInv, Cleaning, Ends
<1>5. NativeStep
  BY <1>1, TellsSteps
<1>. QED BY <1>1, <1>2, <1>3, <1>4, <1>5

LEMMA OnStreamReadyKeeps ==
  ASSUME IInv, OnStreamReady
  PROVE  IInv' /\ NativeStep
<1>1. /\ Called("OnStreamReady") /\ ready' = TRUE /\ net.do = "OnStreamReady"
      /\ UNCHANGED <<haveHeaders, readPending, writePending, pending, endVars, held>>
  BY DEF OnStreamReady, Called
<1>2. Ends /\ Tells
  BY <1>1, SameEnds DEF IInv
<1>3. pending \in 0..MaxChunk /\ TypeOK
  BY DEF IInv, TypeOK
<1>4. /\ TypeOK' /\ Life' /\ Cleaning' /\ NativeStep /\ net'.do = "none"
      /\ UNCHANGED <<framed, started, app, pc, worker, responded, native, eof>>
  BY <1>1, <1>2, <1>3, Flags, CalledKeeps
<1>5. Buffers'
  BY <1>1, <1>4 DEF IInv, Buffers
<1>6. Response'
  BY <1>1, <1>2, <1>4 DEF IInv, Response, Ends
<1>7. ReadFlow'
  BY <1>1, <1>2 DEF IInv, ReadFlow, Ends
<1>. QED BY <1>4, <1>5, <1>6, <1>7 DEF IInv

LEMMA OnWriteCompletedKeeps ==
  ASSUME IInv, OnWriteCompleted
  PROVE  IInv' /\ NativeStep
<1>1. /\ Called("OnWriteCompleted") /\ writePending' = FALSE
      /\ net.do = "OnWriteCompleted" /\ woken' = Waiters
      /\ UNCHANGED <<ready, haveHeaders, readPending, pending, held>>
      /\ UNCHANGED <<err, cancelled, terminal, cancelPosted, destroys>>
  BY DEF OnWriteCompleted, Called
<1>2. Ends /\ Tells
  BY <1>1, SignalEnds DEF IInv
<1>3. pending \in 0..MaxChunk /\ TypeOK
  BY DEF IInv, TypeOK
<1>4. /\ TypeOK' /\ Life' /\ Cleaning' /\ NativeStep /\ net'.do = "none"
      /\ UNCHANGED <<framed, started, app, pc, worker, responded, native, eof>>
  BY <1>1, <1>2, <1>3, Flags, CalledKeeps
<1>5. Buffers'
  BY <1>1, <1>4 DEF IInv, Buffers
<1>6. Response'
  BY <1>1, <1>2, <1>4 DEF IInv, Response, Ends
<1>7. ReadFlow'
  BY <1>1, <1>2 DEF IInv, ReadFlow, Ends
<1>. QED BY <1>4, <1>5, <1>6, <1>7 DEF IInv

LEMMA OnTerminalKeeps ==
  ASSUME IInv, OnTerminal
  PROVE  IInv' /\ NativeStep
<1>1. /\ Called("OnTerminal") /\ finishLocked(net.err) /\ net.do = "OnTerminal"
      /\ UNCHANGED <<ready, haveHeaders, readPending, writePending, pending, held>>
  BY DEF OnTerminal, Called
<1>2. native # "running" /\ net.err \in Errors
  BY <1>1 DEF IInv, Life, TypeOK
<1>3. Ends /\ Tells
  BY <1>1, <1>2, FinishEnds DEF IInv
<1>4. pending \in 0..MaxChunk /\ TypeOK
  BY DEF IInv, TypeOK
<1>5. /\ TypeOK' /\ Life' /\ Cleaning' /\ NativeStep /\ net'.do = "none"
      /\ UNCHANGED <<framed, started, app, pc, worker, responded, native, eof>>
  BY <1>1, <1>3, <1>4, Flags, CalledKeeps
<1>6. Buffers'
  BY <1>1, <1>5 DEF IInv, Buffers
<1>7. Response'
  BY <1>1, <1>3, <1>5 DEF IInv, Response, Ends
<1>8. ReadFlow'
  BY <1>1, <1>3 DEF IInv, ReadFlow, Ends
<1>. QED BY <1>5, <1>6, <1>7, <1>8 DEF IInv

LEMMA OnReadCompletedKeeps ==
  ASSUME IInv, OnReadCompleted
  PROVE  IInv' /\ NativeStep
<1>1. /\ Called("OnReadCompleted") /\ readPending' = FALSE
      /\ net.do = "OnReadCompleted"
      /\ UNCHANGED <<ready, haveHeaders, writePending, held>>
      /\ IF net.n = 0
         THEN cancelLocked(net.err) /\ UNCHANGED pending
         ELSE /\ pending' = net.n /\ woken' = Waiters
              /\ UNCHANGED <<err, cancelled, terminal, cancelPosted, destroys>>
  BY DEF OnReadCompleted, Called
<1>2. /\ net.err \in Errors /\ net.n \in 0..MaxChunk /\ TypeOK /\ Life
      /\ pending \in 0..MaxChunk
  BY DEF IInv, TypeOK
<1>3. /\ readPending /\ haveHeaders /\ held["read"] = None /\ pending = 0
  BY <1>1 DEF IInv, Buffers, Response, ReadFlow
<1>4. Ends /\ Tells /\ (net.n = 0 => Failed')
  <2>1. CASE net.n = 0
    <3>1. net.err # "none"
      BY <1>1, <2>1 DEF IInv, Response
    <3>. QED BY <1>1, <1>2, <2>1, <3>1, CancelEnds
  <2>2. CASE net.n # 0
    BY <1>1, <1>2, <2>2, SignalEnds
  <2>. QED BY <2>1, <2>2
<1>5. pending' \in 0..MaxChunk /\ (net.n # 0 => pending' > 0)
  <2>1. CASE net.n = 0
    BY <1>1, <1>2, <2>1
  <2>2. CASE net.n # 0
    BY <1>1, <1>2, <2>2, ConstantsAssumption
  <2>. QED BY <2>1, <2>2
<1>6. /\ TypeOK' /\ Life' /\ Cleaning' /\ NativeStep /\ net'.do = "none"
      /\ UNCHANGED <<framed, started, app, pc, worker, responded, native, eof>>
  BY <1>1, <1>2, <1>4, <1>5, Flags, CalledKeeps
<1>7. Buffers'
  BY <1>1, <1>3, <1>6 DEF IInv, Buffers
<1>8. Response'
  BY <1>1, <1>3, <1>4, <1>6 DEF IInv, Response, Ends
<1>9. ReadFlow'
  BY <1>1, <1>3, <1>4, <1>5 DEF ReadFlow
<1>. QED BY <1>6, <1>7, <1>8, <1>9 DEF IInv

LEMMA OnResponseHeadersReceivedKeeps ==
  ASSUME IInv, OnResponseHeadersReceived
  PROVE  IInv' /\ NativeStep
<1>1. /\ Called("OnResponseHeadersReceived") /\ net.do = "OnResponseHeadersReceived"
      /\ UNCHANGED <<ready, writePending, pending>>
      /\ UNCHANGED <<framed, started, app, pc, worker, body, uploadClosed,
                     cleanup, responded, native, eof>>
      /\ net' = Idle /\ net'.do = "none"
  BY DEF OnResponseHeadersReceived, Called, goVars, cleanupVars, Idle
<1>2. /\ net.err \in Errors /\ TypeOK /\ Life /\ pending \in 0..MaxChunk
  BY DEF IInv, TypeOK
<1>3. /\ responded /\ ~haveHeaders /\ pending = 0 /\ ~readPending
      /\ held["read"] = None
  BY <1>1 DEF IInv, Response, Buffers
<1>4. CASE /\ net.err # "none" /\ cancelLocked(net.err)
           /\ UNCHANGED <<haveHeaders, readPending, held>>
  <2>1. Ends /\ Tells
    BY <1>2, <1>4, CancelEnds
  <2>2. /\ TypeOK' /\ Life' /\ Cleaning' /\ NativeStep
    BY <1>1, <1>2, <1>4, <2>1, Flags, CalledKeeps
  <2>3. Buffers'
    BY <1>1, <1>4 DEF IInv, Buffers
  <2>4. Response'
    BY <1>1, <1>3, <1>4, <2>1 DEF IInv, Response, Ends
  <2>5. ReadFlow'
    BY <1>1, <1>3, <1>4 DEF ReadFlow
  <2>. QED BY <2>2, <2>3, <2>4, <2>5 DEF IInv
<1>5. CASE haveHeaders' = TRUE /\ startReadLocked(TRUE)
  <2>1. /\ Ends
        /\ held' \in [Dirs -> {"request", None}]
        /\ readPending' \in BOOLEAN
        /\ held'["write"] = held["write"]
        /\ readPending' \/ Failed'
        /\ \/ held'["read"] = held["read"]
           \/ held'["read"] = "request" /\ native = "running" /\ readPending'
        /\ \/ UNCHANGED held /\ Tells
           \/ /\ Lend("read") /\ ~readPending /\ ~Failed
              /\ UNCHANGED <<cancelPosted, destroys>>
    BY <1>2, <1>5, StartsRead
  <2>2. TypeOK'
    BY <1>1, <1>2, <1>5, <2>1, Flags, Goroutines, SectionTypes
  <2>3. Life'
    BY <1>1, <1>2, <2>1 DEF Life, Ends
  <2>4. Buffers'
    <3>1. /\ native # "running" => held'["read"] = None /\ held'["write"] = None
          /\ held'["read"] # None => readPending'
      BY <1>3, <2>1 DEF IInv, Buffers
    <3>. QED BY <1>1, <2>1, <3>1 DEF IInv, Buffers
  <2>5. Response'
    BY <1>1, <1>3, <1>5, <2>1 DEF IInv, Response, Ends
  <2>6. Cleaning'
    BY <1>1, <2>1 DEF IInv, Cleaning, Ends
  <2>7. ReadFlow'
    BY <1>1, <1>3, <2>1 DEF ReadFlow
  <2>8. NativeStep
    <3>1. CASE UNCHANGED held /\ Tells
      BY <1>1, <3>1, TellsSteps
    <3>2. CASE /\ Lend("read") /\ ~readPending /\ ~Failed
               /\ UNCHANGED <<cancelPosted, destroys>>
      <4>1. net.do # "OnReadCompleted"
        BY <1>1
      <4>. QED BY <1>1, <1>3, <3>2, <4>1, PostsRead
    <3>. QED BY <2>1, <3>1, <3>2
  <2>. QED BY <2>2, <2>3, <2>4, <2>5, <2>6, <2>7, <2>8 DEF IInv
<1>. QED BY <1>4, <1>5 DEF OnResponseHeadersReceived

-----------------------------------------------------------------------------
(* The theorems.                                                           *)

LEMMA InitIInv ==
  ASSUME Init
  PROVE  IInv
<1>1. 0 \in 0..MaxChunk /\ "none" \in Errors
  BY ConstantsAssumption DEF Errors
<1>2. /\ net \in [do : {"none", "OnStreamReady", "OnResponseHeadersReceived",
                        "OnReadCompleted", "OnWriteCompleted", "OnTerminal"},
                  n : 0..MaxChunk, err : Errors]
      /\ net.do = "none"
  BY <1>1 DEF Init, Idle
<1>3. /\ held \in [Dirs -> {"request", None}]
      /\ held["read"] = None /\ held["write"] = None
  BY DEF Init, Dirs
<1>4. TypeOK
  <2>1. /\ pc \in [Readers \cup Closers -> {"idle", "look", "wait", "decode",
                                             "reject", "join", "closed"}]
        /\ woken \subseteq Waiters /\ destroys \in 0..1
    BY DEF Init
  <2>2. {started, ready, haveHeaders, readPending, writePending, cancelled,
         terminal, uploadClosed, responded, cancelPosted, eof} = {FALSE}
        /\ framed \in BOOLEAN
    BY DEF Init
  <2>3. /\ err \in Errors /\ pending \in 0..MaxChunk /\ app = "new"
        /\ worker = "await" /\ body = "none" /\ cleanup = "await"
        /\ native = "created"
    BY <1>1 DEF Init
  <2>. QED BY <1>2, <1>3, <2>1, <2>2, <2>3 DEF TypeOK
<1>5. Life /\ Buffers /\ Response /\ Cleaning /\ ReadFlow
  BY <1>2, <1>3 DEF Init, Life, Buffers, Response, Cleaning, ReadFlow
<1>. QED BY <1>4, <1>5 DEF IInv

LEMMA StepIInv ==
  ASSUME IInv, [Next]_vars
  PROVE  IInv' /\ NativeStep
<1>1. CASE UNCHANGED vars
  <2>1. IInv'
    BY <1>1 DEF vars, flags, endVars, goVars, cleanupVars, netVars, IInv, TypeOK,
       Life, Buffers, Response, Cleaning, ReadFlow, Failed
  <2>2. NativeStep
    BY <1>1 DEF vars, endVars, NativeStep, Native!nativeVars
  <2>. QED BY <2>1, <2>2
<1>2. CASE start \/ StartReturns \/ cancel
  BY <1>2, startKeeps, StartReturnsKeeps, cancelKeeps
<1>3. ASSUME NEW p \in Closers, close(p) \/ CloseReturns(p)
      PROVE  IInv' /\ NativeStep
  BY <1>3, closeKeeps, StepKeeps DEF CloseReturns
<1>4. ASSUME NEW p \in Readers,
             \/ Read(p) \/ Look(p) \/ Wake(p) \/ ContextDone(p)
             \/ Decode(p) \/ Reject(p)
      PROVE  IInv' /\ NativeStep
  <2>1. CASE Look(p) \/ Reject(p)
    BY <2>1, LookKeeps, RejectKeeps
  <2>2. CASE Read(p) \/ Wake(p) \/ ContextDone(p) \/ Decode(p)
    BY <2>2, StepKeeps DEF Read, Wake, ContextDone, Decode
  <2>. QED BY <1>4, <2>1, <2>2
<1>5. CASE \/ WorkerStart \/ UploadRead \/ WorkerWrite \/ WorkerWoken
           \/ CleanupClose \/ CleanupFree
  BY <1>5, WorkerStartKeeps, UploadReadKeeps, WorkerWriteKeeps, WorkerWokenKeeps,
     CleanupKeeps
<1>6. CASE NetReady \/ NetHeaders \/ NetRead \/ NetWrite \/ NetDelete
  BY <1>6, NetReadyKeeps, NetHeadersKeeps, NetReadKeeps, NetWriteKeeps, NetDeleteKeeps
<1>7. ASSUME NEW e \in {"EOF", "status", "failed", "canceled"}, NetEnd(e)
      PROVE  IInv' /\ NativeStep
  BY <1>7, NetEndKeeps
<1>8. CASE OnCallback
  BY <1>8, OnStreamReadyKeeps, OnResponseHeadersReceivedKeeps, OnReadCompletedKeeps,
     OnWriteCompletedKeeps, OnTerminalKeeps DEF OnCallback
<1>. QED BY <1>1, <1>2, <1>3, <1>4, <1>5, <1>6, <1>7, <1>8 DEF Next

\* The inductive invariant: a stream that runs is started and not terminal, a
\* buffer is lent for the pending operation of its direction only, nothing is
\* read before the headers, and clean-up follows the end and the worker.
THEOREM Invariance == Spec => []IInv
<1>1. Init => IInv
  BY InitIInv
<1>2. IInv /\ [Next]_vars => IInv'
  BY StepIInv
<1>. QED BY <1>1, <1>2, PTL DEF Spec

\* Every variable stays within its type, and the stream is destroyed at most once.
THEOREM TypeCorrect == Spec => []TypeOK
<1>1. IInv => TypeOK
  BY DEF IInv
<1>. QED BY <1>1, Invariance, PTL

\* freeBuffers runs when neither the native side nor runUpload can touch the two
\* buffers again, and runUpload fills the write buffer only while it is its own.
THEOREM BuffersAreExclusive == Spec => []BuffersExclusive
<1>1. IInv => BuffersExclusive
  <2>1. SUFFICES ASSUME IInv PROVE BuffersExclusive
    OBVIOUS
  <2>2. ASSUME cleanup = "done"
        PROVE  held = [d \in Dirs |-> None] /\ worker = "left" /\ terminal
    <3>1. worker = "left" /\ terminal /\ held["read"] = None /\ held["write"] = None
      BY <2>1, <2>2 DEF IInv, Life, Buffers, Cleaning
    <3>2. held \in [Dirs -> {"request", None}]
      BY <2>1 DEF IInv, TypeOK
    <3>. QED BY <3>1, <3>2 DEF Dirs
  <2>3. ASSUME worker \in {"upload", "got"}
        PROVE  held["write"] = None
    BY <2>1, <2>3 DEF IInv, Buffers
  <2>. QED BY <2>2, <2>3 DEF BuffersExclusive
<1>. QED BY <1>1, Invariance, PTL

\* OnReadCompleted never overwrites bytes that wait for a reader, and as long as
\* the response flows bytes wait or a read is outstanding.
THEOREM ReadsFlow == Spec => []ReadFlow
<1>1. IInv => ReadFlow
  BY DEF IInv
<1>. QED BY <1>1, Invariance, PTL

\* The request is an implementation of NativeStream: whatever readers, closers,
\* the worker and the callbacks do, the native stream sees Start first, one
\* operation per direction, no read after the end, one Destroy and nothing after.
THEOREM ContractHolds == Spec => Contract
<1>1. Init => Native!Init
  BY DEF Init, Native!Init, Dirs, Native!Dirs
<1>2. IInv /\ [Next]_vars => [Native!Next]_(Native!nativeVars)
  BY StepIInv DEF NativeStep
<1>. QED BY <1>1, <1>2, Invariance, PTL DEF Spec, Contract, Native!Spec

=============================================================================
