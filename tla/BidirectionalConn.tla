-------------------------- MODULE BidirectionalConn --------------------------
(***************************************************************************)
(* bidirectional_conn.go: a native bidirectional stream presented as a     *)
(* net.Conn.  Application goroutines call Read and Write and block until   *)
(* the native network thread calls back; that thread in turn blocks inside *)
(* OnReadCompleted and OnWriteCompleted until a goroutine takes the        *)
(* completion from an unbuffered channel.  Close, deadlines, Start         *)
(* failures and terminal callbacks race with both.                         *)
(*                                                                         *)
(* A channel that is only ever closed is a Boolean.  A select statement    *)
(* with several ready cases is a choice among them.  A critical section of *)
(* c.access is one step, except that of terminate, whose channel closes    *)
(* are visible to goroutines that do not take the mutex.                   *)
(***************************************************************************)
EXTENDS Naturals

CONSTANTS Readers, Writers,     \* goroutines calling Read, Write
          None,
          ReadWaitHeaders,      \* the two flags of CreateConn
          WriteWaitHeaders

ASSUME ThreadsAssumption ==
    /\ Readers \cap Writers = {}
    /\ None \notin Readers \cup Writers
    /\ None \notin {"read", "write", "net", "app"}

ASSUME FlagsAssumption == /\ ReadWaitHeaders \in BOOLEAN
                          /\ WriteWaitHeaders \in BOOLEAN

Threads == Readers \cup Writers
Dirs == {"read", "write"}
Dir(t) == IF t \in Readers THEN "read" ELSE "write"

Net == "net"                    \* the engine's network thread
App == "app"                    \* the goroutine that calls Start
Terminators == {Net, App}
Errors == {"EOF", "NetError", "Canceled", "ErrInvalid"}

VARIABLES
    pc, late, result,           \* per call: control, captured deadline, outcome
    sem,                        \* readSemaphore, writeSemaphore hold a token
    expired,                    \* the current deadline channel is closed
    closed, done, opDone,       \* c.close, c.done, c.readDone and c.writeDone
    ready, handshake,           \* c.ready, c.handshake
    cancelled, err,             \* c.cancelled, c.err
    access,                     \* holder of c.access between steps
    hook, hookRuns,             \* c.onTerminate is set; times it ran
    tpc, terr,                  \* control and argument of terminate
    offer,                      \* direction whose completion select blocks Net
    native, held, cancelPosted, eof, destroys   \* see NativeStream

callVars == <<pc, late, result, sem>>
chanVars == <<closed, done, opDone, ready, handshake>>
hookVars == <<hook, hookRuns>>
termVars == <<tpc, terr>>
nativeVars == <<native, held, cancelPosted, eof, destroys>>
vars == <<callVars, expired, chanVars, cancelled, err, access,
          hookVars, termVars, offer, nativeVars>>

Init ==
    /\ pc = [t \in Threads |-> "idle"]
    /\ late = [t \in Threads |-> FALSE]
    /\ result = [t \in Threads |-> "none"]
    /\ sem = [d \in Dirs |-> TRUE]
    /\ expired = [d \in Dirs |-> FALSE]
    /\ closed = FALSE
    /\ done = FALSE
    /\ opDone = [d \in Dirs |-> FALSE]
    /\ ready = FALSE
    /\ handshake = FALSE
    /\ cancelled = FALSE
    /\ err = "none"
    /\ access = None
    /\ hook = FALSE
    /\ hookRuns = 0
    /\ tpc = [x \in Terminators |-> "none"]
    /\ terr = [x \in Terminators |-> "none"]
    /\ offer = None
    /\ native = "created"
    /\ held = [d \in Dirs |-> None]
    /\ cancelPosted = FALSE
    /\ eof = FALSE
    /\ destroys = 0

-----------------------------------------------------------------------------
(* Read and Write.  The two are the same program over the channels of one  *)
(* direction.                                                              *)

Goto(t, label) == pc' = [pc EXCEPT ![t] = label]

\* Evaluating readDeadline.Wait() captures the channel current at that time.
Capture(t) == late' = [late EXCEPT ![t] = expired[Dir(t)]]

\* return outcome, before the semaphore was taken
Refuse(t, outcome) ==
    /\ Goto(t, "idle")
    /\ result' = [result EXCEPT ![t] = outcome]
    /\ late' = [late EXCEPT ![t] = FALSE]

\* return outcome; the deferred send gives the semaphore back
Return(t, outcome) ==
    /\ Refuse(t, outcome)
    /\ sem' = [sem EXCEPT ![Dir(t)] = TRUE]

Gate(t) ==
    IF (IF t \in Readers THEN ReadWaitHeaders ELSE WriteWaitHeaders)
    THEN handshake ELSE ready

Call(t) ==
    /\ pc[t] = "idle"
    /\ Goto(t, "sem")
    /\ result' = [result EXCEPT ![t] = "none"]
    /\ UNCHANGED <<late, sem, expired, chanVars, cancelled, err,
                   access, hookVars, termVars, offer, nativeVars>>

\* select close, done, semaphore
Enter(t) ==
    /\ pc[t] = "sem"
    /\ \/ closed /\ Refuse(t, "ErrClosed") /\ UNCHANGED sem
       \/ done /\ Refuse(t, err) /\ UNCHANGED sem
       \/ /\ sem[Dir(t)]
          /\ sem' = [sem EXCEPT ![Dir(t)] = FALSE]
          /\ Goto(t, "gate")
          /\ Capture(t)
          /\ UNCHANGED result
    /\ UNCHANGED <<expired, chanVars, cancelled, err, access,
                   hookVars, termVars, offer, nativeVars>>

\* waitReady
WaitReady(t) ==
    /\ pc[t] = "gate"
    /\ \/ Gate(t) /\ Goto(t, "issue") /\ UNCHANGED <<late, result, sem>>
       \/ done /\ Return(t, err)
       \/ closed /\ Return(t, "ErrClosed")
       \/ late[t] /\ Return(t, "ErrDeadlineExceeded")
    /\ UNCHANGED <<expired, chanVars, cancelled, err, access,
                   hookVars, termVars, offer, nativeVars>>

\* Mutated: no second look at close and done under the mutex.
IssueUnchecked(t) ==
    /\ pc[t] = "issue"
    /\ access = None
    /\ held' = IF native = "running" THEN [held EXCEPT ![Dir(t)] = t] ELSE held
    /\ Goto(t, "wait")
    /\ Capture(t)
    /\ UNCHANGED <<result, sem, expired, chanVars, cancelled, err, access,
                   hookVars, termVars, offer, native, cancelPosted, eof,
                   destroys>>

\* Under c.access: look at close and done once more, then hand the buffer to
\* the native stream, which takes it only while it runs.
Issue(t) ==
    /\ pc[t] = "issue"
    /\ access = None
    /\ \/ closed /\ Return(t, "ErrClosed") /\ UNCHANGED held
       \/ done /\ Return(t, err) /\ UNCHANGED held
       \/ /\ ~closed /\ ~done
          /\ held' = IF native = "running"
                     THEN [held EXCEPT ![Dir(t)] = t] ELSE held
          /\ Goto(t, "wait")
          /\ Capture(t)
          /\ UNCHANGED <<result, sem>>
    /\ UNCHANGED <<expired, chanVars, cancelled, err, access,
                   hookVars, termVars, offer, native, cancelPosted, eof,
                   destroys>>

\* The select after the operation was posted, without the completion case,
\* which is Deliver.
Await(t) ==
    /\ pc[t] = "wait"
    /\ \/ late[t] /\ Goto(t, "expire")
       \/ done /\ Goto(t, "doneWait")
       \/ closed /\ Goto(t, "closeWait")
    /\ UNCHANGED <<late, result, sem, expired, chanVars, cancelled,
                   err, access, hookVars, termVars, offer, nativeVars>>

\* cancelLocked: Cancel has no effect on a stream that is not running.
cancelLocked ==
    /\ cancelled' = TRUE
    /\ cancelPosted' = (cancelPosted \/ (~cancelled /\ native = "running"))
    /\ UNCHANGED <<native, held, eof, destroys>>

\* Mutated: the deadline path forgets to cancel the stream.
ExpireWithoutCancel(t) ==
    /\ pc[t] = "expire"
    /\ access = None
    /\ Goto(t, "drain")
    /\ UNCHANGED <<late, result, sem, expired, chanVars, cancelled, err,
                   access, hookVars, termVars, offer, nativeVars>>

Expire(t) ==
    /\ pc[t] = "expire"
    /\ access = None
    /\ cancelLocked
    /\ Goto(t, "drain")
    /\ UNCHANGED <<late, result, sem, expired, chanVars, err, access,
                   hookVars, termVars, offer>>

\* Mutated: the deadline path returns without waiting for done.
DrainAtOnce(t) ==
    /\ pc[t] = "drain"
    /\ Return(t, "ErrDeadlineExceeded")
    /\ UNCHANGED <<expired, chanVars, cancelled, err, access, hookVars,
                   termVars, offer, nativeVars>>

\* The loop after an expired deadline leaves only when done is closed; its
\* other case is Deliver.
Drain(t) ==
    /\ pc[t] = "drain"
    /\ done
    /\ Return(t, "ErrDeadlineExceeded")
    /\ UNCHANGED <<expired, chanVars, cancelled, err, access,
                   hookVars, termVars, offer, nativeVars>>

\* Mutated: a closed connection is reported before the buffer is back.
SettleAtOnce(t) ==
    /\ pc[t] \in {"doneWait", "closeWait"}
    /\ Return(t, IF pc[t] = "doneWait" THEN err ELSE "ErrClosed")
    /\ UNCHANGED <<expired, chanVars, cancelled, err, access, hookVars,
                   termVars, offer, nativeVars>>

\* <-c.readDone, <-c.writeDone
Settle(t) ==
    /\ pc[t] \in {"doneWait", "closeWait"}
    /\ opDone[Dir(t)]
    /\ Return(t, IF pc[t] = "doneWait" THEN err ELSE "ErrClosed")
    /\ UNCHANGED <<expired, chanVars, cancelled, err, access,
                   hookVars, termVars, offer, nativeVars>>

Progress(t) ==
    \/ Enter(t) \/ WaitReady(t) \/ Issue(t) \/ Await(t)
    \/ Expire(t) \/ Drain(t) \/ Settle(t)

Op(t) == Call(t) \/ Progress(t)

-----------------------------------------------------------------------------
(* Deadlines: a channel, once captured, stays closed after SetDeadline has *)
(* installed a new one.                                                    *)

DeadlinePasses(d) ==
    /\ ~expired[d]
    /\ expired' = [expired EXCEPT ![d] = TRUE]
    /\ late' = [t \in Threads |->
                  late[t] \/ (Dir(t) = d /\ pc[t] \in {"gate", "wait"})]
    /\ UNCHANGED <<pc, result, sem, chanVars, cancelled, err, access,
                   hookVars, termVars, offer, nativeVars>>

SetDeadline(d) ==
    /\ expired[d]
    /\ expired' = [expired EXCEPT ![d] = FALSE]
    /\ UNCHANGED <<callVars, chanVars, cancelled, err, access,
                   hookVars, termVars, offer, nativeVars>>

-----------------------------------------------------------------------------
(* The remaining calls of the application.  WaitForHeaders changes nothing. *)

\* terminate(e) is called by process x
Terminate(x, e) ==
    /\ tpc' = [tpc EXCEPT ![x] = "enter"]
    /\ terr' = [terr EXCEPT ![x] = e]

Start ==
    /\ native = "created"
    /\ access = None
    /\ \/ native' = "running" /\ UNCHANGED termVars
       \/ native' = "refused" /\ Terminate(App, "ErrInvalid")
    /\ UNCHANGED <<callVars, expired, chanVars, cancelled, err,
                   access, hookVars, offer, held, cancelPosted, eof, destroys>>

\* Close; its early returns change nothing.
Close ==
    /\ access = None
    /\ ~closed /\ ~done
    /\ closed' = TRUE
    /\ cancelLocked
    /\ UNCHANGED <<callVars, expired, done, opDone, ready, handshake, err, access, hookVars, termVars, offer>>

\* Mutated: an ending connection is taken for an ended one.
setOnTerminateEarly ==
    /\ ~hook
    /\ access = None
    /\ hook' = TRUE
    /\ hookRuns' = IF cancelled THEN hookRuns + 1 ELSE hookRuns
    /\ UNCHANGED <<callVars, expired, chanVars, cancelled, err, access,
                   termVars, offer, nativeVars>>

\* The hook is installed once; on an ended connection it runs at once.
setOnTerminate ==
    /\ ~hook
    /\ access = None
    /\ hook' = TRUE
    /\ hookRuns' = IF done THEN hookRuns + 1 ELSE hookRuns
    /\ UNCHANGED <<callVars, expired, chanVars, cancelled, err,
                   access, termVars, offer, nativeVars>>

-----------------------------------------------------------------------------
(* terminate                                                               *)

\* Lock c.access, close readDone and writeDone.
TerminateEnter(x) ==
    /\ tpc[x] = "enter"
    /\ access = None
    /\ access' = x
    /\ opDone' = [d \in Dirs |-> TRUE]
    /\ cancelled' = TRUE
    /\ tpc' = [tpc EXCEPT ![x] = "once"]
    /\ UNCHANGED <<callVars, expired, closed, done, ready, handshake, err, hookVars, terr, offer, nativeVars>>

\* doneOnce and the unlock.  Destroy also drops the callback registration.
TerminateOnce(x) ==
    /\ tpc[x] = "once"
    /\ access' = None
    /\ done' = TRUE
    /\ err' = IF done THEN err ELSE terr[x]
    /\ destroys' = IF done THEN destroys ELSE destroys + 1
    /\ tpc' = [tpc EXCEPT ![x] = IF ~done /\ hook THEN "notify" ELSE "none"]
    /\ UNCHANGED <<callVars, expired, closed, opDone, ready, handshake,
                   cancelled, hookVars, terr, offer, native, held,
                   cancelPosted, eof>>

TerminateNotify(x) ==
    /\ tpc[x] = "notify"
    /\ hookRuns' = hookRuns + 1
    /\ tpc' = [tpc EXCEPT ![x] = "none"]
    /\ UNCHANGED <<callVars, expired, chanVars, cancelled, err,
                   access, hook, terr, offer, nativeVars>>

terminate(x) == TerminateEnter(x) \/ TerminateOnce(x) \/ TerminateNotify(x)

-----------------------------------------------------------------------------
(* The network thread.  It runs one callback at a time and none for a      *)
(* stream whose registration Destroy removed.                              *)

NetIdle == offer = None /\ tpc[Net] = "none"
Registered == destroys = 0

OnStreamReady ==
    /\ NetIdle /\ Registered
    /\ native = "running" /\ ~ready
    /\ ready' = TRUE
    /\ UNCHANGED <<callVars, expired, closed, done, opDone, handshake, cancelled, err, access, hookVars, termVars, offer,
                   nativeVars>>

OnResponseHeadersReceived ==
    /\ NetIdle /\ Registered
    /\ native = "running" /\ ready /\ ~handshake
    /\ handshake' = TRUE
    /\ UNCHANGED <<callVars, expired, closed, done, opDone, ready, cancelled, err, access, hookVars, termVars, offer,
                   nativeVars>>

\* The native side is through with a buffer: OnReadCompleted with data, or
\* OnWriteCompleted.  Response data follows the response headers.
OnCompleted(d) ==
    /\ NetIdle
    /\ native = "running" /\ held[d] # None
    /\ d = "read" => handshake
    /\ held' = [held EXCEPT ![d] = None]
    /\ offer' = IF Registered THEN d ELSE None
    /\ UNCHANGED <<callVars, expired, chanVars, cancelled, err,
                   access, hookVars, termVars, native, cancelPosted, eof,
                   destroys>>

\* OnReadCompleted with no bytes: the response has ended, the request need not
\* have, and the stream is still running.
OnReadEOF ==
    /\ NetIdle /\ Registered
    /\ native = "running" /\ held["read"] # None /\ handshake
    /\ held' = [held EXCEPT !["read"] = None]
    /\ eof' = TRUE
    /\ Terminate(Net, "EOF")
    /\ UNCHANGED <<callVars, expired, chanVars, cancelled, err,
                   access, hookVars, offer, native, cancelPosted, destroys>>

\* OnSucceeded, OnFailed, OnCanceled: the native side lets go of everything.
OnTerminal(e) ==
    /\ NetIdle
    /\ native = "running"
    /\ \/ e = "EOF" /\ eof
       \/ e = "NetError"
       \/ e = "Canceled" /\ cancelPosted
    /\ native' = "ended"
    /\ held' = [d \in Dirs |-> None]
    /\ IF Registered THEN Terminate(Net, e) ELSE UNCHANGED termVars
    /\ UNCHANGED <<callVars, expired, chanVars, cancelled, err,
                   access, hookVars, offer, cancelPosted, eof, destroys>>

\* The posted destruction runs.
Delete ==
    /\ NetIdle
    /\ destroys > 0 /\ native # "deleted"
    /\ native' = "deleted"
    /\ held' = [d \in Dirs |-> None]
    /\ UNCHANGED <<callVars, expired, chanVars, cancelled, err,
                   access, hookVars, termVars, offer, cancelPosted, eof,
                   destroys>>

\* The completion select of OnReadCompleted and OnWriteCompleted meets a
\* goroutine that receives, in its own select or in the drain loop.
Deliver(t) ==
    /\ offer = Dir(t)
    /\ \/ pc[t] = "wait" /\ Return(t, "data")
       \/ pc[t] = "drain" /\ UNCHANGED callVars
    /\ offer' = None
    /\ UNCHANGED <<expired, chanVars, cancelled, err, access,
                   hookVars, termVars, nativeVars>>

\* The same select finds close or done closed.
Abandon ==
    /\ offer # None
    /\ closed \/ done
    /\ opDone' = [opDone EXCEPT ![offer] = TRUE]
    /\ offer' = None
    /\ UNCHANGED <<callVars, expired, closed, done, ready, handshake, cancelled, err, access, hookVars, termVars, nativeVars>>

NetSelect == Abandon \/ \E t \in Threads : Deliver(t)

Callback ==
    \/ OnStreamReady \/ OnResponseHeadersReceived \/ OnReadEOF
    \/ \E d \in Dirs : OnCompleted(d)
    \/ \E e \in Errors : OnTerminal(e)

Next ==
    \/ \E t \in Threads : Op(t)
    \/ \E d \in Dirs : DeadlinePasses(d) \/ SetDeadline(d)
    \/ Start \/ Close \/ setOnTerminate
    \/ \E x \in Terminators : terminate(x)
    \/ Callback \/ NetSelect \/ Delete

Spec == Init /\ [][Next]_vars

\* Goroutines and the network thread run when they can.  At most one callback
\* follows a completed Cancel before OnCanceled, however often completions of
\* other operations occupy the network thread before: strong fairness.
\* Nothing else is promised: the peer may stay silent, and no call is ever
\* obliged to be made.
Fairness ==
    /\ \A t \in Threads : WF_vars(Progress(t))
    /\ \A x \in Terminators : WF_vars(terminate(x))
    /\ WF_vars(NetSelect)
    /\ SF_vars(OnTerminal("Canceled"))
    /\ WF_vars(Delete)

FairSpec == Spec /\ Fairness

-----------------------------------------------------------------------------
(* Properties.                                                             *)

PCs == {"idle", "sem", "gate", "issue", "wait", "expire", "drain",
        "doneWait", "closeWait"}
Results == Errors \cup {"none", "data", "ErrClosed", "ErrDeadlineExceeded"}

\* Every variable stays within its type.
TypeOK ==
    /\ pc \in [Threads -> PCs]
    /\ late \in [Threads -> BOOLEAN]
    /\ result \in [Threads -> Results]
    /\ sem \in [Dirs -> BOOLEAN]
    /\ expired \in [Dirs -> BOOLEAN]
    /\ closed \in BOOLEAN /\ done \in BOOLEAN
    /\ opDone \in [Dirs -> BOOLEAN]
    /\ ready \in BOOLEAN /\ handshake \in BOOLEAN
    /\ cancelled \in BOOLEAN
    /\ err \in Errors \cup {"none"}
    /\ access \in Terminators \cup {None}
    /\ hook \in BOOLEAN /\ hookRuns \in 0..1
    /\ tpc \in [Terminators -> {"none", "enter", "once", "notify"}]
    /\ terr \in [Terminators -> Errors \cup {"none"}]
    /\ offer \in Dirs \cup {None}
    /\ native \in {"created", "running", "refused", "ended", "deleted"}
    /\ held \in [Dirs -> Threads \cup {None}]
    /\ cancelPosted \in BOOLEAN /\ eof \in BOOLEAN
    /\ destroys \in 0..1

\* A goroutine whose call has posted its operation and not yet returned.
Posted(t) == pc[t] \in {"wait", "expire", "drain", "doneWait", "closeWait"}

\* A goroutine that is going to receive from c.read or c.write.
Receiving(t) == pc[t] \in {"wait", "expire", "drain"}

\* The native side never touches a buffer after the Read that lent it has
\* returned; for Write this holds until the response has ended.
BuffersOwned ==
    \A t \in Threads : held[Dir(t)] = t =>
        Posted(t) \/ (t \in Writers /\ eof)

\* What the duplex transport relies on for the same native stream, and what
\* io.Writer asks of Write: the slice is not used after Write has returned.
WriteBufferOwned ==
    \A t \in Writers : held["write"] = t => Posted(t)

\* While the network thread offers a completion on a connection neither closed
\* nor ended, the one goroutine past the semaphore is there to take it: the
\* completion cannot reach another call, and the thread cannot block for good.
OfferMeetsOwner ==
    (offer # None /\ ~closed /\ ~done) =>
        \E t \in Threads :
            /\ Dir(t) = offer /\ Receiving(t)
            /\ \A u \in Threads \ {t} :
                 Dir(u) = offer => pc[u] \in {"idle", "sem"}

\* The terminate hook, which lets the client shut its engine down, runs once
\* and only when the stream has been destroyed.
HookAfterDestroy == hookRuns > 0 => hook /\ done /\ destroys = 1

\* Whatever the goroutines, deadlines and callbacks do, the native stream is
\* used as NativeStream demands.
Native == INSTANCE NativeStream
Contract == Native!Spec

\* Nobody is left blocked: Close unblocks every call that is in progress or starts
\* later, a call whose deadline expired while its operation was outstanding
\* returns, the network thread, shared by all streams of the engine, leaves every
\* completion callback, and a cancelled stream is destroyed and its hook runs.
NothingBlocks ==
    /\ \A t \in Threads :
          /\ (closed /\ pc[t] # "idle") ~> (pc[t] = "idle")
          /\ (pc[t] = "expire") ~> (pc[t] = "idle")
    /\ (offer # None) ~> (offer = None)
    /\ cancelPosted ~> (destroys = 1 /\ (hook => hookRuns = 1))

-----------------------------------------------------------------------------
(* The inductive invariant behind the safety properties.                   *)

InCall(t) == pc[t] \notin {"idle", "sem"}

\* The semaphore of a direction admits one goroutine.
Exclusion ==
    /\ \A t, u \in Threads :
          InCall(t) /\ InCall(u) /\ Dir(t) = Dir(u) => t = u
    /\ \A t \in Threads : InCall(t) => ~sem[Dir(t)]

\* What a goroutine's control says about the channels.
Waits ==
    \A t \in Threads : /\ pc[t] = "doneWait" => done
                       /\ pc[t] = "closeWait" => closed

Terminating(x) == tpc[x] \in {"enter", "once"}

\* terminate runs in one process at a time, before done is closed, and holds
\* the mutex in its second half.
Termination ==
    /\ \A x \in Terminators :
          /\ Terminating(x) => ~done
          /\ tpc[x] = "notify" => done /\ hook /\ hookRuns = 0
          /\ access = x <=> tpc[x] = "once"
          /\ tpc[x] = "once" => cancelled /\ \A d \in Dirs : opDone[d]
    /\ tpc[App] # "none" => native \in {"refused", "deleted"}
    /\ tpc[Net] # "none" => native \in {"running", "ended"}
    /\ tpc[App] = "none" \/ tpc[Net] = "none"
    /\ Terminating(Net) /\ native = "running" => eof
    /\ eof => done \/ Terminating(Net)
    /\ offer # None => tpc[Net] = "none"
    /\ hookRuns > 0 => hook /\ done

\* done is closed exactly when the stream has been destroyed.
Ended ==
    /\ destroys = IF done THEN 1 ELSE 0
    /\ done => cancelled /\ \A d \in Dirs : opDone[d]
    /\ native = "created" => ~done /\ ~ready /\ ~eof /\ ~cancelPosted
    /\ native = "deleted" => done

\* Who lends the buffers, and when a closed readDone or writeDone vouches that
\* none is lent.
Lending ==
    /\ native # "running" => held = [d \in Dirs |-> None]
    /\ \A d \in Dirs : held[d] # None =>
          /\ Dir(held[d]) = d
          /\ \/ Posted(held[d])
             \/ d = "write" /\ eof /\ (done \/ tpc[Net] = "once")
    /\ \A x \in Terminators : Terminating(x) => held["read"] = None
    /\ opDone["read"] => held["read"] = None
    /\ opDone["write"] /\ held["write"] # None =>
          eof /\ (done \/ tpc[Net] = "once")
    /\ \A d \in Dirs : opDone[d] => closed \/ done \/ access # None
    /\ eof /\ ~closed /\ ~done => \E t \in Readers : Receiving(t)

\* A completion on offer has a receiver and leaves nothing lent.
Offering ==
    offer # None =>
        /\ held[offer] = None
        /\ ~closed /\ ~done =>
              \E t \in Threads : Dir(t) = offer /\ Receiving(t)

IInv == /\ TypeOK /\ Exclusion /\ Waits /\ Termination
        /\ Ended /\ Lending /\ Offering

=============================================================================
