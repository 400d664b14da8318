----------------------- MODULE BidirectionalConnProofs -----------------------
(***************************************************************************)
(* Safety of BidirectionalConn for any number of readers and writers.      *)
(* IInv is inductive: one lemma per action, with a step for every part of  *)
(* the invariant whose preservation needs another part.  BuffersOwned,     *)
(* OfferMeetsOwner and HookAfterDestroy follow from it, and so does the    *)
(* fact that every step is a step of NativeStream or leaves the native     *)
(* stream alone.                                                           *)
(***************************************************************************)
EXTENDS BidirectionalConn, TLAPS

USE ThreadsAssumption, FlagsAssumption
    DEF Threads, Dirs, Dir, Terminators, Net, App, callVars, chanVars,
        hookVars, termVars, nativeVars, Goto, Capture, Refuse, Return,
        cancelLocked, Terminate, NetIdle, Registered, InCall, Posted,
        Receiving, Terminating

\* A call that gives up before it took the semaphore leaves typed variables.
LEMMA RefuseTyped ==
  ASSUME TypeOK, NEW t \in Threads, NEW o \in Results, Refuse(t, o)
  PROVE  /\ pc' \in [Threads -> PCs] /\ late' \in [Threads -> BOOLEAN]
         /\ result' \in [Threads -> Results]
  BY DEF TypeOK, PCs

\* A call that returns leaves typed variables.
LEMMA ReturnTyped ==
  ASSUME TypeOK, NEW t \in Threads, NEW o \in Results, Return(t, o)
  PROVE  /\ pc' \in [Threads -> PCs] /\ late' \in [Threads -> BOOLEAN]
         /\ result' \in [Threads -> Results] /\ sem' \in [Dirs -> BOOLEAN]
  BY DEF TypeOK, PCs

\* Read or Write is called.  The invariant is kept.
LEMMA CallStep ==
  ASSUME IInv, NEW t \in Threads, Call(t)
  PROVE  IInv'
<1>1. Exclusion' /\ Waits' /\ Termination' /\ Ended' /\ Lending' /\
      Offering'
  BY DEF IInv, Call, Exclusion, Waits, Termination, Ended, Lending, Offering
<1>2. TypeOK'
  BY DEF IInv, Call, TypeOK, PCs, Results
<1>. QED BY <1>1, <1>2 DEF IInv

\* The first select of a call.  The invariant is kept.
LEMMA EnterStep ==
  ASSUME IInv, NEW t \in Threads, Enter(t)
  PROVE  IInv'
<1>b. /\ pc' \in [Threads -> PCs] /\ late' \in [Threads -> BOOLEAN]
      /\ result' \in [Threads -> Results] /\ sem' \in [Dirs -> BOOLEAN]
  <2>1. CASE closed /\ Refuse(t, "ErrClosed") /\ UNCHANGED sem
    BY <2>1, RefuseTyped DEF IInv, TypeOK, Results
  <2>2. CASE done /\ Refuse(t, err) /\ UNCHANGED sem
    BY <2>2, RefuseTyped DEF IInv, TypeOK, Results
  <2>3. CASE /\ sem' = [sem EXCEPT ![Dir(t)] = FALSE]
             /\ Goto(t, "gate") /\ Capture(t) /\ UNCHANGED result
    BY <2>3 DEF IInv, TypeOK, PCs
  <2>. QED BY <2>1, <2>2, <2>3 DEF Enter
<1>1. TypeOK'
  BY <1>b DEF IInv, TypeOK, Enter
<1>2. Termination' /\ Ended'
  BY DEF IInv, Enter, Termination, Ended
<1>3. Exclusion'
  BY DEF IInv, Enter, TypeOK, Exclusion
<1>4. Waits'
  BY DEF IInv, Enter, TypeOK, Waits
<1>5. Lending'
  BY DEF IInv, Enter, TypeOK, Lending
<1>6. Offering'
  BY DEF IInv, Enter, TypeOK, Offering
<1>. QED BY <1>1, <1>2, <1>3, <1>4, <1>5, <1>6 DEF IInv

\* waitReady.  The invariant is kept.
LEMMA WaitReadyStep ==
  ASSUME IInv, NEW t \in Threads, WaitReady(t)
  PROVE  IInv'
<1>b. /\ pc' \in [Threads -> PCs] /\ late' \in [Threads -> BOOLEAN]
      /\ result' \in [Threads -> Results] /\ sem' \in [Dirs -> BOOLEAN]
  <2>1. CASE Goto(t, "issue") /\ UNCHANGED <<late, result, sem>>
    BY <2>1 DEF IInv, TypeOK, PCs
  <2>2. CASE done /\ Return(t, err)
    BY <2>2, ReturnTyped DEF IInv, TypeOK, Results
  <2>3. CASE Return(t, "ErrClosed") \/ Return(t, "ErrDeadlineExceeded")
    BY <2>3, ReturnTyped DEF IInv, Results
  <2>. QED BY <2>1, <2>2, <2>3 DEF WaitReady
<1>1. TypeOK'
  BY <1>b DEF IInv, TypeOK, WaitReady
<1>2. Termination' /\ Ended'
  BY DEF IInv, WaitReady, Termination, Ended
<1>3. Exclusion'
  BY DEF IInv, WaitReady, TypeOK, Exclusion
<1>4. Waits'
  BY DEF IInv, WaitReady, TypeOK, Waits
<1>5. Lending'
  BY DEF IInv, WaitReady, TypeOK, Lending
<1>6. Offering'
  BY DEF IInv, WaitReady, TypeOK, Offering
<1>. QED BY <1>1, <1>2, <1>3, <1>4, <1>5, <1>6 DEF IInv

\* The operation is posted under the mutex.  The invariant is kept.
LEMMA IssueStep ==
  ASSUME IInv, NEW t \in Threads, Issue(t)
  PROVE  IInv'
<1>a. held' \in [Dirs -> Threads \cup {None}]
  BY DEF IInv, TypeOK, Issue
<1>b. /\ pc' \in [Threads -> PCs] /\ late' \in [Threads -> BOOLEAN]
      /\ result' \in [Threads -> Results] /\ sem' \in [Dirs -> BOOLEAN]
  <2>1. CASE closed /\ Return(t, "ErrClosed")
    BY <2>1, ReturnTyped DEF IInv, Results
  <2>2. CASE done /\ Return(t, err)
    BY <2>2, ReturnTyped DEF IInv, TypeOK, Results
  <2>3. CASE Goto(t, "wait") /\ Capture(t) /\ UNCHANGED <<result, sem>>
    BY <2>3 DEF IInv, TypeOK, PCs
  <2>. QED BY <2>1, <2>2, <2>3 DEF Issue
<1>1. TypeOK'
  BY <1>a, <1>b DEF IInv, TypeOK, Issue
<1>2. Termination' /\ Ended'
  BY DEF IInv, Issue, Termination, Ended
<1>3. Exclusion'
  BY DEF IInv, Issue, TypeOK, Exclusion
<1>4. Waits'
  BY DEF IInv, Issue, TypeOK, Waits
<1>5. Lending'
  BY DEF IInv, Issue, TypeOK, Exclusion, Waits, Termination, Ended, Lending,
         Offering
<1>6. Offering'
  BY DEF IInv, Issue, TypeOK, Exclusion, Offering
<1>. QED BY <1>1, <1>2, <1>3, <1>4, <1>5, <1>6 DEF IInv

\* The select after the post.  The invariant is kept.
LEMMA AwaitStep ==
  ASSUME IInv, NEW t \in Threads, Await(t)
  PROVE  IInv'
<1>1. Termination' /\ Ended'
  BY DEF IInv, Await, Termination, Ended
<1>2. TypeOK'
  BY DEF IInv, Await, TypeOK, PCs, Results
<1>3. Exclusion'
  BY DEF IInv, Await, TypeOK, Exclusion
<1>4. Waits'
  BY DEF IInv, Await, TypeOK, Waits
<1>5. Lending'
  BY DEF IInv, Await, TypeOK, Lending
<1>6. Offering'
  BY DEF IInv, Await, TypeOK, Offering
<1>. QED BY <1>1, <1>2, <1>3, <1>4, <1>5, <1>6 DEF IInv

\* The deadline path cancels.  The invariant is kept.
LEMMA ExpireStep ==
  ASSUME IInv, NEW t \in Threads, Expire(t)
  PROVE  IInv'
<1>1. Exclusion' /\ Waits' /\ Termination' /\ Lending' /\ Offering'
  BY DEF IInv, Expire, Exclusion, Waits, Termination, Lending, Offering
<1>2. TypeOK'
  BY DEF IInv, Expire, TypeOK, PCs, Results
<1>3. Ended'
  BY DEF IInv, Expire, TypeOK, Ended
<1>. QED BY <1>1, <1>2, <1>3 DEF IInv

\* The deadline path returns.  The invariant is kept.
LEMMA DrainStep ==
  ASSUME IInv, NEW t \in Threads, Drain(t)
  PROVE  IInv'
<1>1. Waits' /\ Termination' /\ Ended' /\ Offering'
  BY DEF IInv, Drain, Waits, Termination, Ended, Offering
<1>2. TypeOK'
  BY DEF IInv, Drain, TypeOK, PCs, Results
<1>3. Exclusion'
  BY DEF IInv, Drain, TypeOK, Exclusion
<1>4. Lending'
  BY DEF IInv, Drain, Ended, Lending
<1>. QED BY <1>1, <1>2, <1>3, <1>4 DEF IInv

\* A closed or ended call returns once its buffer is back.  The invariant is kept.
LEMMA SettleStep ==
  ASSUME IInv, NEW t \in Threads, Settle(t)
  PROVE  IInv'
<1>1. Waits' /\ Termination' /\ Ended' /\ Lending' /\ Offering'
  BY DEF IInv, Settle, Waits, Termination, Ended, Lending, Offering
<1>2. TypeOK'
  BY DEF IInv, Settle, TypeOK, PCs, Results
<1>3. Exclusion'
  BY DEF IInv, Settle, TypeOK, Exclusion
<1>. QED BY <1>1, <1>2, <1>3 DEF IInv

\* A deadline passes.  The invariant is kept.
LEMMA DeadlinePassesStep ==
  ASSUME IInv, NEW d \in Dirs, DeadlinePasses(d)
  PROVE  IInv'
<1>1. Exclusion' /\ Waits' /\ Termination' /\ Ended' /\ Lending' /\
      Offering'
  BY DEF IInv, DeadlinePasses, Exclusion, Waits, Termination, Ended,
         Lending, Offering
<1>2. TypeOK'
  BY DEF IInv, DeadlinePasses, TypeOK
<1>. QED BY <1>1, <1>2 DEF IInv

\* A deadline is replaced.  The invariant is kept.
LEMMA SetDeadlineStep ==
  ASSUME IInv, NEW d \in Dirs, SetDeadline(d)
  PROVE  IInv'
<1>1. Exclusion' /\ Waits' /\ Termination' /\ Ended' /\ Lending' /\
      Offering'
  BY DEF IInv, SetDeadline, Exclusion, Waits, Termination, Ended, Lending,
         Offering
<1>2. TypeOK'
  BY DEF IInv, SetDeadline, TypeOK
<1>. QED BY <1>1, <1>2 DEF IInv

\* Start, successful or refused.  The invariant is kept.
LEMMA StartStep ==
  ASSUME IInv, Start
  PROVE  IInv'
<1>1. Exclusion' /\ Waits' /\ Ended' /\ Lending' /\ Offering'
  BY DEF IInv, Start, Exclusion, Waits, Ended, Lending, Offering
<1>2. TypeOK'
  BY DEF IInv, Start, TypeOK, Errors
<1>3. Termination'
  BY DEF IInv, Start, TypeOK, Termination, Ended
<1>. QED BY <1>1, <1>2, <1>3 DEF IInv

\* Close.  The invariant is kept.
LEMMA CloseStep ==
  ASSUME IInv, Close
  PROVE  IInv'
<1>1. Exclusion' /\ Waits' /\ Termination' /\ Lending' /\ Offering'
  BY DEF IInv, Close, Exclusion, Waits, Termination, Lending, Offering
<1>2. TypeOK'
  BY DEF IInv, Close, TypeOK
<1>3. Ended'
  BY DEF IInv, Close, TypeOK, Ended
<1>. QED BY <1>1, <1>2, <1>3 DEF IInv

\* The terminate hook is installed.  The invariant is kept.
LEMMA setOnTerminateStep ==
  ASSUME IInv, setOnTerminate
  PROVE  IInv'
<1>1. Exclusion' /\ Waits' /\ Termination' /\ Ended' /\ Lending' /\
      Offering'
  BY DEF IInv, setOnTerminate, Exclusion, Waits, Termination, Ended,
         Lending, Offering
<1>2. TypeOK'
  BY DEF IInv, setOnTerminate, TypeOK, Termination
<1>. QED BY <1>1, <1>2 DEF IInv

\* terminate, up to doneOnce.  The invariant is kept.
LEMMA TerminateEnterStep ==
  ASSUME IInv, NEW x \in Terminators, TerminateEnter(x)
  PROVE  IInv'
<1>1. Exclusion' /\ Waits' /\ Ended' /\ Offering'
  BY DEF IInv, TerminateEnter, Exclusion, Waits, Ended, Offering
<1>2. TypeOK'
  BY DEF IInv, TerminateEnter, TypeOK
<1>3. Termination'
  BY DEF IInv, TerminateEnter, TypeOK, Termination
<1>4. Lending'
  BY DEF IInv, TerminateEnter, TypeOK, Termination, Lending
<1>. QED BY <1>1, <1>2, <1>3, <1>4 DEF IInv

\* terminate, doneOnce and unlock.  The invariant is kept.
LEMMA TerminateOnceStep ==
  ASSUME IInv, NEW x \in Terminators, TerminateOnce(x)
  PROVE  IInv'
<1>1. Exclusion' /\ Waits' /\ Lending' /\ Offering'
  BY DEF IInv, TerminateOnce, Exclusion, Waits, Lending, Offering
<1>2. TypeOK'
  BY DEF IInv, TerminateOnce, TypeOK, Ended
<1>3. Termination'
  BY DEF IInv, TerminateOnce, TypeOK, Termination
<1>4. Ended'
  BY DEF IInv, TerminateOnce, Termination, Ended
<1>. QED BY <1>1, <1>2, <1>3, <1>4 DEF IInv

\* terminate, the hook.  The invariant is kept.
LEMMA TerminateNotifyStep ==
  ASSUME IInv, NEW x \in Terminators, TerminateNotify(x)
  PROVE  IInv'
<1>1. Exclusion' /\ Waits' /\ Ended' /\ Lending' /\ Offering'
  BY DEF IInv, TerminateNotify, Exclusion, Waits, Ended, Lending, Offering
<1>2. TypeOK'
  BY DEF IInv, TerminateNotify, TypeOK, Termination
<1>3. Termination'
  BY DEF IInv, TerminateNotify, TypeOK, Termination
<1>. QED BY <1>1, <1>2, <1>3 DEF IInv

\* OnStreamReady.  The invariant is kept.
LEMMA OnStreamReadyStep ==
  ASSUME IInv, OnStreamReady
  PROVE  IInv'
<1>1. Exclusion' /\ Waits' /\ Termination' /\ Ended' /\ Lending' /\
      Offering'
  BY DEF IInv, OnStreamReady, Exclusion, Waits, Termination, Ended, Lending,
         Offering
<1>2. TypeOK'
  BY DEF IInv, OnStreamReady, TypeOK
<1>. QED BY <1>1, <1>2 DEF IInv

\* OnResponseHeadersReceived.  The invariant is kept.
LEMMA OnResponseHeadersReceivedStep ==
  ASSUME IInv, OnResponseHeadersReceived
  PROVE  IInv'
<1>1. Exclusion' /\ Waits' /\ Termination' /\ Ended' /\ Lending' /\
      Offering'
  BY DEF IInv, OnResponseHeadersReceived, Exclusion, Waits, Termination,
         Ended, Lending, Offering
<1>2. TypeOK'
  BY DEF IInv, OnResponseHeadersReceived, TypeOK
<1>. QED BY <1>1, <1>2 DEF IInv

\* The response ends.  The invariant is kept.
LEMMA OnReadEOFStep ==
  ASSUME IInv, OnReadEOF
  PROVE  IInv'
<1>1. Exclusion' /\ Waits' /\ Ended' /\ Offering'
  BY DEF IInv, OnReadEOF, Exclusion, Waits, Ended, Offering
<1>2. TypeOK'
  BY DEF IInv, OnReadEOF, TypeOK, Errors
<1>3. Termination'
  BY DEF IInv, OnReadEOF, TypeOK, Termination, Ended
<1>4. Lending'
  BY DEF IInv, OnReadEOF, TypeOK, Waits, Lending
<1>. QED BY <1>1, <1>2, <1>3, <1>4 DEF IInv

\* A buffer comes back.  The invariant is kept.
LEMMA OnCompletedStep ==
  ASSUME IInv, NEW d \in Dirs, OnCompleted(d)
  PROVE  IInv'
<1>1. Exclusion' /\ Waits' /\ Termination' /\ Ended' /\ Lending'
  BY DEF IInv, OnCompleted, Exclusion, Waits, Termination, Ended, Lending
<1>2. TypeOK'
  BY DEF IInv, OnCompleted, TypeOK
<1>3. Offering'
  BY DEF IInv, OnCompleted, TypeOK, Exclusion, Waits, Termination, Ended,
         Lending, Offering
<1>. QED BY <1>1, <1>2, <1>3 DEF IInv

\* A terminal callback.  The invariant is kept.
LEMMA OnTerminalStep ==
  ASSUME IInv, NEW e \in Errors, OnTerminal(e)
  PROVE  IInv'
<1>1. Exclusion' /\ Waits' /\ Ended' /\ Lending' /\ Offering'
  BY DEF IInv, OnTerminal, Exclusion, Waits, Ended, Lending, Offering
<1>2. TypeOK'
  BY DEF IInv, OnTerminal, TypeOK
<1>3. Termination'
  BY DEF IInv, OnTerminal, TypeOK, Termination, Ended
<1>. QED BY <1>1, <1>2, <1>3 DEF IInv

\* A completion is taken.  The invariant is kept.
LEMMA DeliverStep ==
  ASSUME IInv, NEW t \in Threads, Deliver(t)
  PROVE  IInv'
<1>b. /\ pc' \in [Threads -> PCs] /\ late' \in [Threads -> BOOLEAN]
      /\ result' \in [Threads -> Results] /\ sem' \in [Dirs -> BOOLEAN]
  <2>1. CASE Return(t, "data")
    BY <2>1, ReturnTyped DEF IInv, Results
  <2>2. CASE UNCHANGED callVars
    BY <2>2 DEF IInv, TypeOK
  <2>. QED BY <2>1, <2>2 DEF Deliver
<1>1. TypeOK'
  BY <1>b DEF IInv, TypeOK, Deliver
<1>2. Termination' /\ Ended' /\ Offering'
  BY DEF IInv, Deliver, Termination, Ended, Offering
<1>3. Exclusion'
  BY DEF IInv, Deliver, TypeOK, Exclusion
<1>4. Waits'
  BY DEF IInv, Deliver, TypeOK, Waits
<1>5. Lending'
  BY DEF IInv, Deliver, TypeOK, Exclusion, Waits, Termination, Ended,
         Lending, Offering
<1>. QED BY <1>1, <1>2, <1>3, <1>4, <1>5 DEF IInv

\* A completion is dropped.  The invariant is kept.
LEMMA AbandonStep ==
  ASSUME IInv, Abandon
  PROVE  IInv'
<1>1. Exclusion' /\ Waits' /\ Termination' /\ Ended' /\ Offering'
  BY DEF IInv, Abandon, Exclusion, Waits, Termination, Ended, Offering
<1>2. TypeOK'
  BY DEF IInv, Abandon, TypeOK
<1>3. Lending'
  BY DEF IInv, Abandon, Lending, Offering
<1>. QED BY <1>1, <1>2, <1>3 DEF IInv

\* The posted destruction runs.  The invariant is kept.
LEMMA DeleteStep ==
  ASSUME IInv, Delete
  PROVE  IInv'
<1>1. Exclusion' /\ Waits' /\ Termination' /\ Ended' /\ Lending' /\
      Offering'
  BY DEF IInv, Delete, Exclusion, Waits, Termination, Ended, Lending,
         Offering
<1>2. TypeOK'
  BY DEF IInv, Delete, TypeOK
<1>. QED BY <1>1, <1>2 DEF IInv

-----------------------------------------------------------------------------

\* A fresh connection satisfies the invariant.
LEMMA IInvInit == Init => IInv
<1>. SUFFICES ASSUME Init PROVE IInv
  OBVIOUS
<1>1. TypeOK
  <2>1. /\ pc \in [Threads -> PCs] /\ late \in [Threads -> BOOLEAN]
        /\ result \in [Threads -> Results]
    BY DEF Init, PCs, Results
  <2>2. /\ tpc \in [Terminators -> {"none", "enter", "once", "notify"}]
        /\ terr \in [Terminators -> Errors \cup {"none"}]
        /\ held \in [Dirs -> Threads \cup {None}]
    BY DEF Init
  <2>3. /\ sem \in [Dirs -> BOOLEAN] /\ expired \in [Dirs -> BOOLEAN]
        /\ opDone \in [Dirs -> BOOLEAN]
    BY DEF Init
  <2>4. /\ access \in Terminators \cup {None} /\ offer \in Dirs \cup {None}
        /\ err \in Errors \cup {"none"} /\ hookRuns \in 0..1
        /\ destroys \in 0..1
        /\ native \in {"created", "running", "refused", "ended", "deleted"}
    BY DEF Init
  <2>5. {closed, done, ready, handshake, cancelled, hook, cancelPosted, eof}
           \subseteq BOOLEAN
    BY DEF Init
  <2>. QED BY <2>1, <2>2, <2>3, <2>4, <2>5 DEF TypeOK
<1>2. Exclusion /\ Waits /\ Offering
  BY DEF Init, Exclusion, Waits, Offering
<1>3. Termination /\ Ended /\ Lending
  BY DEF Init, Termination, Ended, Lending
<1>. QED BY <1>1, <1>2, <1>3 DEF IInv

\* Every step keeps the invariant.
LEMMA IInvStep == IInv /\ [Next]_vars => IInv'
<1>. SUFFICES ASSUME IInv, [Next]_vars PROVE IInv'
  OBVIOUS
<1>1. ASSUME NEW t \in Threads, Op(t) PROVE IInv'
  BY <1>1, CallStep, EnterStep, WaitReadyStep, IssueStep, AwaitStep,
     ExpireStep, DrainStep, SettleStep DEF Op, Progress
<1>2. ASSUME NEW d \in Dirs, DeadlinePasses(d) \/ SetDeadline(d) PROVE IInv'
  BY <1>2, DeadlinePassesStep, SetDeadlineStep
<1>3. CASE Start \/ Close \/ setOnTerminate
  BY <1>3, StartStep, CloseStep, setOnTerminateStep
<1>4. ASSUME NEW x \in Terminators, terminate(x) PROVE IInv'
  BY <1>4, TerminateEnterStep, TerminateOnceStep, TerminateNotifyStep
     DEF terminate
<1>5. CASE Callback
  BY <1>5, OnStreamReadyStep, OnResponseHeadersReceivedStep, OnReadEOFStep,
     OnCompletedStep, OnTerminalStep DEF Callback
<1>6. CASE NetSelect \/ Delete
  BY <1>6, AbandonStep, DeliverStep, DeleteStep DEF NetSelect
<1>7. CASE UNCHANGED vars
  BY <1>7 DEF vars, IInv, TypeOK, Exclusion, Waits, Termination, Ended,
              Lending, Offering
<1>. QED BY <1>1, <1>2, <1>3, <1>4, <1>5, <1>6, <1>7 DEF Next

\* The inductive invariant holds throughout.
THEOREM Invariance == Spec => []IInv
  BY IInvInit, IInvStep, PTL DEF Spec

\* Type correctness of the connection, its callers and the native stream.
THEOREM TypeCorrect == Spec => []TypeOK
<1>1. IInv => TypeOK
  BY DEF IInv
<1>. QED BY <1>1, Invariance, PTL

\* A Read returns only when the native side no longer holds its buffer, and so
\* does a Write unless the response ended while it was outstanding.
THEOREM BufferOwnership == Spec => []BuffersOwned
<1>1. IInv => BuffersOwned
  BY DEF IInv, TypeOK, Lending, BuffersOwned
<1>. QED BY <1>1, Invariance, PTL

\* A completion offered on a live connection meets the goroutine that waits for
\* it and no other.
THEOREM CompletionMeetsOwner == Spec => []OfferMeetsOwner
<1>1. IInv => OfferMeetsOwner
  BY DEF IInv, TypeOK, Offering, Exclusion, OfferMeetsOwner
<1>. QED BY <1>1, Invariance, PTL

\* The terminate hook runs after the stream's destruction.
THEOREM HookOrder == Spec => []HookAfterDestroy
<1>1. IInv => HookAfterDestroy
  BY DEF IInv, Termination, Ended, HookAfterDestroy
<1>. QED BY <1>1, Invariance, PTL

-----------------------------------------------------------------------------

\* The native stream begins as NativeStream says.
LEMMA ContractInit == Init => Native!Init
  BY DEF Init, Native!Init, Native!Dirs

\* Every step of the connection is a permitted use of the native stream, a step
\* of the native side, or does not concern it.
LEMMA ContractStep ==
  IInv /\ [Next]_vars => [Native!Next]_(Native!nativeVars)
<1>. SUFFICES ASSUME IInv, [Next]_vars
              PROVE  Native!Next \/ UNCHANGED Native!nativeVars
  OBVIOUS
<1>. USE DEF Native!Next, Native!nativeVars, Native!Dirs
<1>1. ASSUME NEW t \in Threads, Issue(t)
      PROVE  Native!Next \/ UNCHANGED Native!nativeVars
  <2>1. CASE held' = held
    BY <1>1, <2>1 DEF Issue
  <2>2. CASE held' # held
    <3>1. /\ native = "running" /\ ~closed /\ ~done /\ access = None
          /\ held' = [held EXCEPT ![Dir(t)] = t]
      BY <1>1, <2>2 DEF Issue
    <3>2. destroys = 0
      BY <3>1 DEF IInv, Ended
    <3>3. held[Dir(t)] = None
      BY <1>1, <3>1 DEF IInv, TypeOK, Lending, Exclusion, Termination, Issue
    <3>4. Dir(t) = "read" => ~eof
      BY <1>1, <3>1 DEF IInv, Lending, Exclusion, Issue
    <3>5. Native!Post(Dir(t), t)
      BY <1>1, <3>1, <3>2, <3>3, <3>4 DEF Issue, Native!Post
    <3>. QED BY <3>5
  <2>. QED BY <2>1, <2>2
<1>2. ASSUME NEW t \in Threads, Expire(t)
      PROVE  Native!Next \/ UNCHANGED Native!nativeVars
  BY <1>2 DEF Expire, IInv, TypeOK, Ended, Native!Cancel
<1>3. CASE Close
  BY <1>3 DEF Close, IInv, TypeOK, Ended, Native!Cancel
<1>4. CASE Start
  BY <1>4 DEF Start, IInv, Ended, Native!Start
<1>5. ASSUME NEW x \in Terminators, TerminateOnce(x)
      PROVE  Native!Next \/ UNCHANGED Native!nativeVars
  BY <1>5 DEF TerminateOnce, IInv, TypeOK, Termination, Ended, Native!Destroy
<1>6. CASE Callback
  <2>1. ASSUME NEW d \in Dirs, OnCompleted(d) PROVE Native!Complete(d)
    BY <2>1 DEF OnCompleted, IInv, TypeOK, Native!Complete
  <2>2. ASSUME OnReadEOF PROVE Native!Complete("read")
    BY <2>2 DEF OnReadEOF, IInv, TypeOK, Native!Complete
  <2>3. ASSUME NEW e \in Errors, OnTerminal(e) PROVE Native!End
    BY <2>3 DEF OnTerminal, Native!End, Native!Dirs
  <2>4. CASE OnStreamReady \/ OnResponseHeadersReceived
    BY <2>4 DEF OnStreamReady, OnResponseHeadersReceived
  <2>. QED BY <1>6, <2>1, <2>2, <2>3, <2>4 DEF Callback
<1>7. CASE Delete
  BY <1>7 DEF Delete, IInv, TypeOK, Native!Delete, Native!Dirs
<1>8. ASSUME NEW t \in Threads,
             Call(t) \/ Enter(t) \/ WaitReady(t) \/ Await(t) \/ Drain(t)
               \/ Settle(t)
      PROVE  UNCHANGED Native!nativeVars
  BY <1>8 DEF Call, Enter, WaitReady, Await, Drain, Settle
<1>9. ASSUME NEW d \in Dirs, DeadlinePasses(d) \/ SetDeadline(d)
      PROVE  UNCHANGED Native!nativeVars
  BY <1>9 DEF DeadlinePasses, SetDeadline
<1>10. CASE setOnTerminate
  BY <1>10 DEF setOnTerminate
<1>11. ASSUME NEW x \in Terminators, TerminateEnter(x) \/ TerminateNotify(x)
       PROVE  UNCHANGED Native!nativeVars
  BY <1>11 DEF TerminateEnter, TerminateNotify
<1>12. CASE NetSelect
  BY <1>12 DEF NetSelect, Abandon, Deliver
<1>13. CASE UNCHANGED vars
  BY <1>13 DEF vars
<1>. QED
  BY <1>1, <1>2, <1>3, <1>4, <1>5, <1>6, <1>7, <1>8, <1>9, <1>10, <1>11,
     <1>12, <1>13 DEF Next, Op, Progress, terminate

\* The connection uses the native stream as NativeStream demands: the detailed
\* specification implements the abstract one.
THEOREM ContractHolds == Spec => Contract
<1>1. Init /\ [][Next]_vars /\ []IInv => Native!Spec
  BY ContractInit, ContractStep, PTL DEF Native!Spec
<1>. QED BY <1>1, Invariance, PTL DEF Spec, Contract

=============================================================================
