-------------------------- MODULE TransportProofs --------------------------
(***************************************************************************)
(* What MCTransport composes, for any submitters, readers, stops and       *)
(* sizes.  First the serial executor: an invariant, and each of its steps  *)
(* as one of the abstract queue SerialQueue.  Then the upload provider:    *)
(* every body has one owner at any time, which is why none is closed twice *)
(* or forgotten.  StreamingRequestProofs has the request itself.  Last the *)
(* sum of the three, of which each step is a step of one.                  *)
(***************************************************************************)
EXTENDS StreamingRequestProofs, MCTransport, SequenceTheorems

-----------------------------------------------------------------------------
(* The executor.                                                           *)

\* The invariant holds at first.
LEMMA ExecutorInitIInv ==
  ASSUME Executor!BoundAssumption, Executor!Init
  PROVE  Executor!IInv
  <1>1. Executor!TypeOK
    <2>1. executorQueue \in Seq(Executor!Loops) /\ Len(executorQueue) = 0
      BY EmptySeq DEF Executor!Init
    <2>2. submitted = 0 /\ begun = 0 /\ 0 \in 0..MaxSubmitted
      BY DEF Executor!BoundAssumption, Executor!Init
    <2>3. launch \in [Submitters -> 0..MaxSubmitted]
      BY <2>2 DEF Executor!Init
    <2>4. /\ loop \in [Executor!Loops -> {"none", "take", "call"}]
          /\ running \in BOOLEAN
      BY DEF Executor!Init
    <2> QED
      BY <2>1, <2>2, <2>3, <2>4 DEF Executor!TypeOK
  <1>2. /\ Executor!Active = {}
        /\ Executor!Launching = {}
        /\ ~Executor!Calling
        /\ ~running
    BY DEF Executor!Init, Executor!Active, Executor!Launching, Executor!Calling
  <1>3. Executor!RunningMeansLoop
    BY <1>2 DEF Executor!RunningMeansLoop
  <1>4. \A i \in 1..Len(executorQueue) : executorQueue[i] = begun + i
    BY EmptySeq DEF Executor!Init
  <1> QED
    BY <1>1, <1>2, <1>3, <1>4 DEF Executor!IInv

\* A submit, by whomever, keeps the queue in order.
LEMMA ExecutorQueueGrows ==
  ASSUME Executor!BoundAssumption, Executor!IInv, submitted < MaxSubmitted,
         submitted' = submitted + 1, executorQueue' = Append(executorQueue, submitted'),
         UNCHANGED begun
  PROVE  /\ executorQueue' \in Seq(Executor!Loops)
         /\ submitted' \in 0..MaxSubmitted /\ begun' \in 0..MaxSubmitted
         /\ Len(executorQueue') = submitted' - begun'
         /\ \A i \in 1..Len(executorQueue') : executorQueue'[i] = begun' + i
  <1>1. executorQueue \in Seq(Executor!Loops) /\ submitted' \in Executor!Loops
    BY DEF Executor!BoundAssumption, Executor!IInv, Executor!TypeOK,
           Executor!Loops
  <1>2. /\ executorQueue' \in Seq(Executor!Loops) /\ Len(executorQueue') = Len(executorQueue) + 1
        /\ \A i \in 1..Len(executorQueue) : executorQueue'[i] = executorQueue[i]
        /\ executorQueue'[Len(executorQueue) + 1] = submitted'
    BY <1>1, AppendProperties
  <1>3. Len(executorQueue) \in Nat
    BY <1>1, LenProperties
  <1>4. /\ submitted \in Int /\ begun \in 0..MaxSubmitted
        /\ Len(executorQueue) = submitted - begun
    BY DEF Executor!BoundAssumption, Executor!IInv, Executor!TypeOK
  <1>5. \A i \in 1..Len(executorQueue') : executorQueue'[i] = begun' + i
    <2> SUFFICES ASSUME NEW i \in 1..Len(executorQueue') PROVE executorQueue'[i] = begun + i
      OBVIOUS
    <2>1. CASE i \in 1..Len(executorQueue)
      BY <1>2, <2>1 DEF Executor!IInv
    <2>2. CASE i = Len(executorQueue) + 1
      BY <1>2, <1>3, <1>4, <2>2
    <2> QED
      BY <1>2, <1>3, <2>1, <2>2
  <1> QED
    BY <1>1, <1>2, <1>3, <1>4, <1>5 DEF Executor!Loops

\* Taking the head keeps the queue in order.
LEMMA ExecutorQueueShrinks ==
  ASSUME Executor!BoundAssumption, Executor!IInv, executorQueue # <<>>,
         begun' = Head(executorQueue), executorQueue' = Tail(executorQueue), UNCHANGED submitted
  PROVE  /\ executorQueue' \in Seq(Executor!Loops)
         /\ begun' = begun + 1
         /\ submitted' \in 0..MaxSubmitted /\ begun' \in 0..MaxSubmitted
         /\ Len(executorQueue') = submitted' - begun'
         /\ \A i \in 1..Len(executorQueue') : executorQueue'[i] = begun' + i
  <1>1. /\ executorQueue \in Seq(Executor!Loops)
        /\ Len(executorQueue) \in Nat
        /\ Len(executorQueue) # 0
    BY LenProperties, EmptySeq DEF Executor!IInv, Executor!TypeOK
  <1>2. Head(executorQueue) = executorQueue[1] /\ executorQueue[1] = begun + 1
    BY <1>1 DEF Executor!IInv
  <1>3. /\ executorQueue' \in Seq(Executor!Loops) /\ Len(executorQueue') = Len(executorQueue) - 1
        /\ \A i \in 1..Len(executorQueue') :
                executorQueue'[i] = executorQueue[i + 1]
    BY <1>1, HeadTailProperties
  <1>4. begun + 1 \in Executor!Loops
    BY <1>1, <1>2 DEF Executor!IInv, Executor!TypeOK
  <1>5. \A i \in 1..Len(executorQueue') : executorQueue'[i] = begun' + i
    BY <1>1, <1>2, <1>3 DEF Executor!BoundAssumption, Executor!IInv,
                            Executor!TypeOK
  <1> QED
    BY <1>1, <1>2, <1>3, <1>4, <1>5 DEF Executor!BoundAssumption, Executor!IInv,
                                        Executor!TypeOK, Executor!Loops

\* Every step preserves the invariant.
LEMMA ExecutorStepIInv ==
  ASSUME Executor!BoundAssumption, Executor!IInv, [Executor!Next]_(Executor!vars)
  PROVE  Executor!IInv'
  <1> USE DEF Executor!BoundAssumption
  <1>1. ASSUME NEW s \in Submitters, Executor!submit(s) PROVE Executor!IInv'
    <2>1. /\ executorQueue' \in Seq(Executor!Loops)
          /\ submitted' \in 0..MaxSubmitted /\ begun' \in 0..MaxSubmitted
          /\ Len(executorQueue') = submitted' - begun'
          /\ \A i \in 1..Len(executorQueue') : executorQueue'[i] = begun' + i
      BY <1>1, ExecutorQueueGrows DEF Executor!submit
    <2>2. /\ launch' \in [Submitters -> 0..MaxSubmitted] /\ running' \in BOOLEAN
          /\ loop' \in [Executor!Loops -> {"none", "take", "call"}]
      BY <1>1, <2>1 DEF Executor!submit, Executor!IInv, Executor!TypeOK
    <2>3. Executor!RunningMeansLoop'
      <3>1. CASE running
        BY <1>1, <3>1 DEF Executor!submit, Executor!IInv,
                          Executor!RunningMeansLoop, Executor!Active,
                          Executor!Launching
      <3>2. CASE ~running
        <4>1. /\ Executor!Active' = {}
              /\ Executor!Active = {}
              /\ Executor!Launching = {}
          BY <1>1, <3>2 DEF Executor!submit, Executor!IInv,
                            Executor!RunningMeansLoop, Executor!Active
        <4>2. Executor!Launching' = {s}
          BY <1>1, <3>2, <4>1 DEF Executor!submit, Executor!IInv,
                                  Executor!TypeOK, Executor!Launching
        <4> QED
          BY <1>1, <4>1, <4>2 DEF Executor!submit, Executor!RunningMeansLoop
      <3> QED
        BY <3>1, <3>2
    <2>4. Executor!Calling' = Executor!Calling
      BY <1>1 DEF Executor!submit, Executor!Calling
    <2> QED
      BY <1>1, <2>1, <2>2, <2>3, <2>4 DEF Executor!submit, Executor!IInv,
                                          Executor!TypeOK
  <1>2. ASSUME NEW s \in Submitters, Executor!Launch(s) PROVE Executor!IInv'
    <2>1. launch[s] \in Executor!Loops
      BY <1>2 DEF Executor!Launch, Executor!IInv, Executor!TypeOK,
                  Executor!Loops
    <2>2. /\ Executor!Launching = {s} /\ Executor!Active = {}
      BY <1>2 DEF Executor!Launch, Executor!IInv, Executor!RunningMeansLoop,
                  Executor!Launching
    <2>3. /\ Executor!Launching' = {} /\ Executor!Active' = {launch[s]}
      BY <1>2, <2>1, <2>2 DEF Executor!Launch, Executor!IInv, Executor!TypeOK,
                              Executor!Launching, Executor!Active
    <2>4. Executor!TypeOK'
      BY <1>2, <2>1 DEF Executor!Launch, Executor!IInv, Executor!TypeOK
    <2>5. Executor!RunningMeansLoop'
      BY <1>2, <2>2, <2>3 DEF Executor!Launch, Executor!IInv,
                              Executor!RunningMeansLoop
    <2>6. Executor!Calling' => Executor!Calling
      BY <1>2, <2>1 DEF Executor!Launch, Executor!Calling, Executor!IInv,
                        Executor!TypeOK
    <2> QED
      BY <1>2, <2>4, <2>5, <2>6 DEF Executor!Launch, Executor!IInv
  <1>3. ASSUME NEW l \in Executor!Loops, Executor!Take(l) PROVE Executor!IInv'
    <2>1. /\ executorQueue' \in Seq(Executor!Loops) /\ begun' = begun + 1
          /\ submitted' \in 0..MaxSubmitted /\ begun' \in 0..MaxSubmitted
          /\ Len(executorQueue') = submitted' - begun'
          /\ \A i \in 1..Len(executorQueue') : executorQueue'[i] = begun' + i
      BY <1>3, ExecutorQueueShrinks DEF Executor!Take
    <2>2. /\ loop' \in [Executor!Loops -> {"none", "take", "call"}]
          /\ Executor!Active' = Executor!Active
      BY <1>3 DEF Executor!Take, Executor!IInv, Executor!TypeOK, Executor!Active
    <2>3. Executor!RunningMeansLoop'
      BY <1>3, <2>2 DEF Executor!Take, Executor!IInv, Executor!RunningMeansLoop,
                        Executor!Launching
    <2> QED
      BY <1>3, <2>1, <2>2, <2>3 DEF Executor!Take, Executor!IInv,
                                    Executor!TypeOK
  <1>4. ASSUME NEW l \in Executor!Loops, Executor!Finish(l) PROVE Executor!IInv'
    <2>1. /\ loop' \in [Executor!Loops -> {"none", "take", "call"}]
          /\ Executor!Active' = Executor!Active
      BY <1>4 DEF Executor!Finish, Executor!IInv, Executor!TypeOK,
                  Executor!Active
    <2>2. Executor!Calling
      BY <1>4 DEF Executor!Finish, Executor!Calling
    <2> QED
      BY <1>4, <2>1, <2>2 DEF Executor!Finish, Executor!IInv, Executor!TypeOK,
                              Executor!RunningMeansLoop, Executor!Launching
  <1>5. ASSUME NEW l \in Executor!Loops, Executor!Stop(l) PROVE Executor!IInv'
    <2>1. loop' \in [Executor!Loops -> {"none", "take", "call"}]
      BY <1>5 DEF Executor!Stop, Executor!IInv, Executor!TypeOK
    <2>2. Executor!Active = {l} /\ Executor!Launching = {}
      BY <1>5 DEF Executor!Stop, Executor!IInv, Executor!RunningMeansLoop,
                  Executor!Active
    <2>3. Executor!Active' = {} /\ Executor!Launching' = {}
      BY <1>5, <2>2 DEF Executor!Stop, Executor!IInv, Executor!TypeOK,
                        Executor!Active, Executor!Launching
    <2>4. Executor!Calling' => Executor!Calling
      BY <1>5 DEF Executor!Stop, Executor!IInv, Executor!TypeOK,
                  Executor!Calling
    <2> QED
      BY <1>5, <2>1, <2>3, <2>4 DEF Executor!Stop, Executor!IInv,
                                    Executor!TypeOK, Executor!RunningMeansLoop
  <1>6. ASSUME NEW l \in Executor!Loops, Executor!SubmitWithin(l)
        PROVE  Executor!IInv'
    <2>1. /\ executorQueue' \in Seq(Executor!Loops)
          /\ submitted' \in 0..MaxSubmitted /\ begun' \in 0..MaxSubmitted
          /\ Len(executorQueue') = submitted' - begun'
          /\ \A i \in 1..Len(executorQueue') : executorQueue'[i] = begun' + i
      BY <1>6, ExecutorQueueGrows DEF Executor!SubmitWithin
    <2> QED
      BY <1>6, <2>1 DEF Executor!SubmitWithin, Executor!IInv, Executor!TypeOK,
                        Executor!RunningMeansLoop, Executor!Active,
                        Executor!Launching, Executor!Calling
  <1>7. ASSUME UNCHANGED Executor!vars PROVE Executor!IInv'
    BY <1>7 DEF Executor!vars, Executor!IInv, Executor!TypeOK,
                Executor!RunningMeansLoop, Executor!Active, Executor!Launching,
                Executor!Calling
  <1> QED
    BY <1>1, <1>2, <1>3, <1>4, <1>5, <1>6, <1>7 DEF Executor!Next,
           Executor!Drain

\* Every step of the executor is a step of the abstract queue, or none.
LEMMA ExecutorStepSerial ==
  ASSUME Executor!BoundAssumption, Executor!IInv, [Executor!Next]_(Executor!vars)
  PROVE  [Executor!Serial!Next]_(Executor!Serial!vars)
  <1> USE DEF Executor!BoundAssumption
  <1>1. ASSUME NEW s \in Submitters, Executor!submit(s)
        PROVE  [Executor!Serial!Next]_(Executor!Serial!vars)
    BY <1>1 DEF Executor!submit, Executor!Calling, Executor!Serial!Next,
                Executor!Serial!Submit, Executor!Serial!vars
  <1>2. ASSUME NEW s \in Submitters, Executor!Launch(s)
        PROVE  [Executor!Serial!Next]_(Executor!Serial!vars)
    <2>1. launch[s] \in Executor!Loops /\ Executor!Active = {}
      BY <1>2 DEF Executor!Launch, Executor!IInv, Executor!TypeOK,
                  Executor!RunningMeansLoop, Executor!Launching, Executor!Loops
    <2>2. Executor!Calling' = Executor!Calling
      BY <1>2, <2>1 DEF Executor!Launch, Executor!IInv, Executor!TypeOK,
                        Executor!Active, Executor!Calling
    <2> QED
      BY <1>2, <2>2 DEF Executor!Launch, Executor!Serial!vars
  <1>3. ASSUME NEW l \in Executor!Loops, Executor!Take(l)
        PROVE  [Executor!Serial!Next]_(Executor!Serial!vars)
    <2>1. begun' = begun + 1 /\ begun < submitted /\ UNCHANGED submitted
      <3>1. begun' = begun + 1 /\ begun' \in 0..MaxSubmitted
            /\ Len(executorQueue') = submitted' - begun' /\ executorQueue' \in Seq(Executor!Loops)
        BY <1>3, ExecutorQueueShrinks DEF Executor!Take
      <3>2. Len(executorQueue') \in Nat
        BY <3>1, LenProperties
      <3> QED
        BY <1>3, <3>1, <3>2 DEF Executor!Take, Executor!IInv, Executor!TypeOK
    <2>2. ~Executor!Calling /\ Executor!Calling'
      <3>1. Executor!Active = {l}
        BY <1>3 DEF Executor!Take, Executor!IInv, Executor!RunningMeansLoop,
                    Executor!Active
      <3>2. loop'[l] = "call"
        BY <1>3 DEF Executor!Take, Executor!IInv, Executor!TypeOK
      <3> QED
        BY <1>3, <3>1, <3>2 DEF Executor!Take, Executor!Active, Executor!Calling
    <2> QED
      BY <2>1, <2>2 DEF Executor!Serial!Next, Executor!Serial!Begin,
                        Executor!IInv, Executor!TypeOK
  <1>4. ASSUME NEW l \in Executor!Loops, Executor!Finish(l)
        PROVE  [Executor!Serial!Next]_(Executor!Serial!vars)
    <2>1. Executor!Active = {l} /\ Executor!Calling
      BY <1>4 DEF Executor!Finish, Executor!IInv, Executor!RunningMeansLoop,
                  Executor!Active, Executor!Calling
    <2>2. ~Executor!Calling'
      BY <1>4, <2>1 DEF Executor!Finish, Executor!IInv, Executor!TypeOK,
                        Executor!Active, Executor!Calling
    <2> QED
      BY <1>4, <2>1, <2>2 DEF Executor!Finish, Executor!Serial!Next,
                              Executor!Serial!Finish, Executor!IInv,
                              Executor!TypeOK
  <1>5. ASSUME NEW l \in Executor!Loops, Executor!Stop(l)
        PROVE  [Executor!Serial!Next]_(Executor!Serial!vars)
    <2>1. Executor!Calling' = Executor!Calling
      BY <1>5 DEF Executor!Stop, Executor!IInv, Executor!TypeOK,
                  Executor!Calling
    <2> QED
      BY <1>5, <2>1 DEF Executor!Stop, Executor!Serial!vars
  <1>6. ASSUME NEW l \in Executor!Loops, Executor!SubmitWithin(l)
        PROVE  [Executor!Serial!Next]_(Executor!Serial!vars)
    BY <1>6 DEF Executor!SubmitWithin, Executor!Calling, Executor!Serial!Next,
                Executor!Serial!Submit, Executor!Serial!vars
  <1>7. ASSUME UNCHANGED Executor!vars
        PROVE  [Executor!Serial!Next]_(Executor!Serial!vars)
    BY <1>7 DEF Executor!vars, Executor!Calling, Executor!Serial!vars
  <1> QED
    BY <1>1, <1>2, <1>3, <1>4, <1>5, <1>6, <1>7 DEF Executor!Next,
           Executor!Drain

-----------------------------------------------------------------------------
(* The upload provider: one lemma per action.                              *)

USE DEF Upload!ConstantsAssumption, Upload!Bodies, Upload!NoBody,
        Upload!Known, Upload!Owners,
        Upload!Reported, Upload!EndsWith, Upload!CloseBody,
        Upload!providerVars, Upload!bodyVars, Upload!uploadVars,
        Upload!stopVars

\* The smaller of two numbers is one of them.
LEMMA UploadSmallerBound ==
  ASSUME NEW a \in Int, NEW b \in Int
  PROVE  Upload!Smaller(a, b) \in Int /\ Upload!Smaller(a, b) <= a /\ Upload!Smaller(a, b) <= b
  BY DEF Upload!Smaller

\* A body that was not closed is closed once.
LEMMA ClosedOnce ==
  ASSUME closes \in [Upload!Bodies -> 0..1],
         NEW b \in Upload!Bodies, closes[b] = 0, Upload!CloseBody(b)
  PROVE  closes' \in [Upload!Bodies -> 0..1]
  OBVIOUS

\* The native side asks for bytes.
LEMMA UploadAskReadKeeps ==
  ASSUME Upload!ConstantsAssumption, Upload!IInv, Upload!AskRead
  PROVE  Upload!IInv'
<1>1. Upload!TypeOK'
  BY DEF Upload!IInv, Upload!AskRead, Upload!TypeOK
<1>2. Upload!Bookkeeping'
  BY DEF Upload!IInv, Upload!AskRead, Upload!TypeOK, Upload!Bookkeeping
<1>3. Upload!Ownership'
  BY DEF Upload!IInv, Upload!AskRead, Upload!TypeOK, Upload!Bookkeeping,
         Upload!Ownership, Upload!Owns
<1>4. Upload!CountsOneBody'
  BY DEF Upload!IInv, Upload!AskRead, Upload!TypeOK, Upload!Bookkeeping,
         Upload!CountsOneBody
<1>. QED BY <1>1, <1>2, <1>3, <1>4 DEF Upload!IInv

\* The read takes the body.
LEMMA UploadReadStartKeeps ==
  ASSUME Upload!ConstantsAssumption, Upload!IInv, Upload!ReadStart
  PROVE  Upload!IInv'
<1>2. Upload!Bookkeeping'
  <2>1. reader # Upload!NoBody => reader \in 1..opened
    BY DEF Upload!IInv, Upload!TypeOK, Upload!Ownership, Upload!Owns
  <2>. QED BY <2>1 DEF Upload!IInv, Upload!ReadStart, Upload!TypeOK,
                       Upload!Bookkeeping, Upload!CountsOneBody
<1>1. Upload!TypeOK'
  BY SMTT(20) DEF Upload!IInv, Upload!ReadStart, Upload!TypeOK
<1>3. Upload!Ownership'
  <2>1. ASSUME NEW o \in Upload!Owners, NEW b \in Upload!Bodies
        PROVE  Upload!Owns(o, b)' <=> Upload!Owns(o, b)
    BY DEF Upload!ReadStart, Upload!Owns
  <2>2. UNCHANGED <<opened, closes>>
    BY DEF Upload!ReadStart
  <2>. HIDE DEF Upload!Owns, Upload!Owners, Upload!Bodies
  <2>. QED BY <2>1, <2>2 DEF Upload!IInv, Upload!Ownership
<1>4. Upload!CountsOneBody'
  BY DEF Upload!IInv, Upload!ReadStart, Upload!TypeOK, Upload!Bookkeeping,
         Upload!CountsOneBody
<1>. QED BY <1>1, <1>2, <1>3, <1>4 DEF Upload!IInv

\* The body yields bytes or its end.
LEMMA UploadBodyReadKeeps ==
  ASSUME Upload!ConstantsAssumption, Upload!IInv, Upload!BodyRead
  PROVE  Upload!IInv'
<1>n. PICK n \in 0..Upload!Smaller(Upload!Limit, BodySize - position[local]) :
          /\ position' = [position EXCEPT ![local] = @ + n]
          /\ readLen' = readLen + n
          /\ \/ n > 0 /\ Upload!Reported("bytes", n)
             \/ position'[local] = BodySize /\ Upload!Reported(Upload!EOFKind(n), n)
             \/ n = 0 /\ attempts + 1 = MaxAttempts /\ Upload!Reported("error", 0)
             \/ /\ n = 0 /\ attempts + 1 < MaxAttempts
                /\ attempts' = attempts + 1
                /\ uploadPc' = "readStart" /\ local' = Upload!NoBody
                /\ UNCHANGED report
  BY DEF Upload!BodyRead
<1>b. /\ local \in 1..opened /\ readLen = position[local]
      /\ reader # Upload!NoBody => local = reader
      /\ local \in Upload!Bodies /\ position[local] \in 0..BodySize
      /\ uploadPc = "bodyRead"
  <2>1. uploadPc = "bodyRead"
    BY DEF Upload!BodyRead
  <2>2. /\ local \in 1..opened /\ readLen = position[local]
        /\ reader # Upload!NoBody => local = reader
    BY <2>1 DEF Upload!IInv, Upload!Bookkeeping
  <2>3. opened \in Upload!Bodies /\ position \in [Upload!Bodies -> 0..BodySize]
    BY DEF Upload!IInv, Upload!TypeOK
  <2>. QED BY <2>1, <2>2, <2>3
<1>d. length \in Int /\ readLen \in Nat /\ (Upload!Known => readLen <= length)
  BY <1>b DEF Upload!IInv, Upload!TypeOK
<1>c. Upload!Limit \in Int /\ Upload!Limit <= room /\ (Upload!Known => Upload!Limit <= length - readLen)
  <2>1. CASE Upload!Known
    <3>1. room \in Int /\ length - readLen \in Int
      BY <1>d
    <3>. QED BY <2>1, <3>1, UploadSmallerBound DEF Upload!Limit
  <2>2. CASE ~Upload!Known
    BY <2>2 DEF Upload!Limit
  <2>. QED BY <2>1, <2>2
<1>a. /\ n \in Nat /\ n <= room
      /\ position[local] + n \in 0..BodySize
      /\ Upload!Known => readLen + n \in 0..length
  <2>1. /\ BodySize - position[local] \in Int
        /\ n \in 0..Upload!Smaller(Upload!Limit, BodySize - position[local])
    BY <1>b
  <2>2. n \in Nat /\ n <= Upload!Limit /\ n <= BodySize - position[local]
    <3>1. Upload!Smaller(Upload!Limit, BodySize - position[local]) \in Int
      BY <1>c, <2>1, UploadSmallerBound
    <3>2. /\ Upload!Smaller(Upload!Limit, BodySize - position[local]) <= Upload!Limit
          /\ Upload!Smaller(Upload!Limit, BodySize - position[local]) <= BodySize - position[local]
      BY <1>c, <2>1, UploadSmallerBound
    <3>. QED BY <1>c, <2>1, <3>1, <3>2
  <2>. QED BY <1>b, <1>c, <1>d, <2>2
<1>1. Upload!TypeOK'
  <2>1. position' \in [Upload!Bodies -> 0..BodySize]
    BY <1>n, <1>a, <1>b DEF Upload!IInv, Upload!TypeOK
  <2>2. readLen' \in 0..(IF Upload!Known THEN length ELSE BodySize)
    BY <1>n, <1>a, <1>b
  <2>3. /\ uploadPc' \in {"idle", "readStart"} /\ local' = Upload!NoBody
        /\ attempts' \in 0..(MaxAttempts - 1)
        /\ report' \in [kind : {"none", "bytes", "final", "error", "rewound"},
                        n : 0..room]
    <3>1. Upload!EOFKind(n) \in {"final", "bytes", "error"}
      BY DEF Upload!EOFKind
    <3>. QED BY SMTT(20), <1>n, <1>a, <3>1 DEF Upload!IInv, Upload!TypeOK
  <2>. QED BY <2>1, <2>2, <2>3 DEF Upload!IInv, Upload!BodyRead, Upload!TypeOK
<1>e. uploadPc' \in {"idle", "readStart"}
  BY <1>n
<1>2. Upload!Bookkeeping'
  <2>1. \A b \in Upload!Bodies : b > opened => position'[b] = 0
    BY <1>n, <1>b DEF Upload!IInv, Upload!TypeOK, Upload!Bookkeeping
  <2>. QED BY <1>b, <1>e, <2>1 DEF Upload!IInv, Upload!BodyRead,
                                   Upload!Bookkeeping
<1>3. Upload!Ownership'
  <2>1. \A o \in Upload!Owners, b \in Upload!Bodies :
          Upload!Owns(o, b)' <=> Upload!Owns(o, b)
    BY <1>b, <1>e DEF Upload!BodyRead, Upload!Owns
  <2>. QED BY <2>1 DEF Upload!IInv, Upload!BodyRead, Upload!Ownership
<1>4. Upload!CountsOneBody'
  <2>1. reader' # Upload!NoBody => readLen' = position'[reader']
    BY <1>n, <1>a, <1>b DEF Upload!IInv, Upload!BodyRead, Upload!TypeOK
  <2>2. Upload!Known => report'.kind # "final"
    BY <1>n DEF Upload!IInv, Upload!BodyRead, Upload!CountsOneBody,
                Upload!EOFKind
  <2>. QED BY <1>n, <1>a, <1>b, <2>1, <2>2 DEF Upload!BodyRead,
                  Upload!CountsOneBody
<1>. QED BY <1>1, <1>2, <1>3, <1>4 DEF Upload!IInv

\* The body fails.
LEMMA UploadBodyFailsKeeps ==
  ASSUME Upload!ConstantsAssumption, Upload!IInv, Upload!BodyFails
  PROVE  Upload!IInv'
<1>1. Upload!TypeOK'
  BY DEF Upload!IInv, Upload!BodyFails, Upload!TypeOK
<1>2. Upload!Bookkeeping'
  BY DEF Upload!IInv, Upload!BodyFails, Upload!TypeOK, Upload!Bookkeeping
<1>3. Upload!Ownership'
  BY SMTT(20) DEF Upload!IInv, Upload!BodyFails, Upload!TypeOK,
                  Upload!Bookkeeping, Upload!Ownership, Upload!Owns
<1>4. Upload!CountsOneBody'
  BY DEF Upload!IInv, Upload!BodyFails, Upload!TypeOK, Upload!Bookkeeping,
         Upload!CountsOneBody
<1>. QED BY <1>1, <1>2, <1>3, <1>4 DEF Upload!IInv

\* The native side asks for a rewind.
LEMMA UploadAskRewindKeeps ==
  ASSUME Upload!ConstantsAssumption, Upload!IInv, Upload!AskRewind
  PROVE  Upload!IInv'
<1>1. Upload!TypeOK'
  BY DEF Upload!IInv, Upload!AskRewind, Upload!TypeOK
<1>2. Upload!Bookkeeping'
  BY DEF Upload!IInv, Upload!AskRewind, Upload!TypeOK, Upload!Bookkeeping
<1>3. Upload!Ownership'
  BY DEF Upload!IInv, Upload!AskRewind, Upload!TypeOK, Upload!Bookkeeping,
         Upload!Ownership, Upload!Owns
<1>4. Upload!CountsOneBody'
  BY DEF Upload!IInv, Upload!AskRewind, Upload!TypeOK, Upload!Bookkeeping,
         Upload!CountsOneBody
<1>. QED BY <1>1, <1>2, <1>3, <1>4 DEF Upload!IInv

\* The rewind takes the body away.
LEMMA UploadRewindTakeKeeps ==
  ASSUME Upload!ConstantsAssumption, Upload!IInv, Upload!RewindTake
  PROVE  Upload!IInv'
<1>1. Upload!TypeOK'
  BY SMTT(20) DEF Upload!IInv, Upload!RewindTake, Upload!TypeOK
<1>2. Upload!Bookkeeping'
  BY DEF Upload!IInv, Upload!RewindTake, Upload!TypeOK, Upload!Bookkeeping
<1>3. Upload!Ownership'
  BY SMTT(20) DEF Upload!IInv, Upload!RewindTake, Upload!TypeOK,
                  Upload!Bookkeeping, Upload!Ownership, Upload!Owns
<1>4. Upload!CountsOneBody'
  BY DEF Upload!IInv, Upload!RewindTake, Upload!TypeOK, Upload!Bookkeeping,
         Upload!CountsOneBody
<1>. QED BY <1>1, <1>2, <1>3, <1>4 DEF Upload!IInv

\* The rewind closes it.
LEMMA UploadRewindCloseKeeps ==
  ASSUME Upload!ConstantsAssumption, Upload!IInv, Upload!RewindClose
  PROVE  Upload!IInv'
<1>a. local # Upload!NoBody => closes[local] = 0
  BY DEF Upload!IInv, Upload!RewindClose, Upload!TypeOK, Upload!Ownership,
         Upload!Owns
<1>1. Upload!TypeOK'
  <2>1. closes' \in [Upload!Bodies -> 0..1]
    BY SMTT(20), <1>a DEF Upload!IInv, Upload!RewindClose, Upload!TypeOK
  <2>. QED BY <2>1 DEF Upload!IInv, Upload!RewindClose, Upload!TypeOK
<1>2. Upload!Bookkeeping'
  BY SMTT(20) DEF Upload!IInv, Upload!RewindClose, Upload!TypeOK,
                  Upload!Bookkeeping, Upload!Ownership, Upload!Owns
<1>3. Upload!Ownership'
  BY <1>a DEF Upload!IInv, Upload!RewindClose, Upload!TypeOK,
              Upload!Bookkeeping, Upload!Ownership, Upload!Owns
<1>4. Upload!CountsOneBody'
  BY <1>a DEF Upload!IInv, Upload!RewindClose, Upload!TypeOK,
              Upload!Bookkeeping, Upload!CountsOneBody
<1>. QED BY <1>1, <1>2, <1>3, <1>4 DEF Upload!IInv

\* The rewind opens another one.
LEMMA UploadGetBodyKeeps ==
  ASSUME Upload!ConstantsAssumption, Upload!IInv, Upload!GetBody
  PROVE  Upload!IInv'
<1>1. Upload!TypeOK'
  BY SMTT(20) DEF Upload!IInv, Upload!GetBody, Upload!TypeOK
<1>2. Upload!Bookkeeping'
  BY SMTT(20) DEF Upload!IInv, Upload!GetBody, Upload!TypeOK, Upload!Bookkeeping
<1>3. Upload!Ownership'
  BY SMTT(20) DEF Upload!IInv, Upload!GetBody, Upload!TypeOK,
                  Upload!Bookkeeping, Upload!Ownership, Upload!Owns
<1>4. Upload!CountsOneBody'
  BY DEF Upload!IInv, Upload!GetBody, Upload!TypeOK, Upload!Bookkeeping,
         Upload!CountsOneBody
<1>. QED BY <1>1, <1>2, <1>3, <1>4 DEF Upload!IInv

\* The rewind installs it, unless stopped.
LEMMA UploadRewindSetKeeps ==
  ASSUME Upload!ConstantsAssumption, Upload!IInv, Upload!RewindSet
  PROVE  Upload!IInv'
<1>a. local \in Upload!Bodies /\ closes[local] = 0 /\ position[local] = 0
  BY DEF Upload!IInv, Upload!RewindSet, Upload!TypeOK, Upload!Bookkeeping,
         Upload!Ownership, Upload!Owns
<1>1. Upload!TypeOK'
  <2>1. CASE closed
    <3>1. closes' \in [Upload!Bodies -> 0..1]
      <4>1. closes \in [Upload!Bodies -> 0..1] /\ Upload!CloseBody(local)
        BY <2>1 DEF Upload!IInv, Upload!TypeOK, Upload!RewindSet
      <4>. QED BY <1>a, <4>1, ClosedOnce
    <3>. QED BY <2>1, <3>1 DEF Upload!IInv, Upload!RewindSet, Upload!TypeOK
  <2>2. CASE ~closed
    <3>1. readLen' \in 0..(IF Upload!Known THEN length ELSE BodySize)
      BY <2>2 DEF Upload!IInv, Upload!RewindSet, Upload!TypeOK
    <3>2. report' \in [kind : {"none", "bytes", "final", "error", "rewound"},
                        n : 0..room]
      BY <2>2 DEF Upload!RewindSet
    <3>. QED BY <1>a, <2>2, <3>1, <3>2 DEF Upload!IInv, Upload!RewindSet,
                                           Upload!TypeOK
  <2>. QED BY <2>1, <2>2
<1>3. Upload!Ownership'
  <2>1. CASE closed
    BY <1>a, <2>1 DEF Upload!IInv, Upload!RewindSet, Upload!TypeOK,
                      Upload!Bookkeeping, Upload!Ownership, Upload!Owns
  <2>2. CASE ~closed
    BY <1>a, <2>2 DEF Upload!IInv, Upload!RewindSet, Upload!TypeOK,
                      Upload!Bookkeeping, Upload!Ownership, Upload!Owns
  <2>. QED BY <2>1, <2>2
<1>2. Upload!Bookkeeping'
  BY <1>a DEF Upload!IInv, Upload!RewindSet, Upload!TypeOK, Upload!Bookkeeping
<1>4. Upload!CountsOneBody'
  BY <1>a DEF Upload!IInv, Upload!RewindSet, Upload!TypeOK, Upload!Bookkeeping,
              Upload!CountsOneBody
<1>. QED BY <1>1, <1>2, <1>3, <1>4 DEF Upload!IInv

\* A stop takes the body away.
LEMMA UploadstopKeeps ==
  ASSUME Upload!ConstantsAssumption, Upload!IInv, NEW s \in Stoppers,
         Upload!stop(s)
  PROVE  Upload!IInv'
<1>1. Upload!TypeOK'
  BY DEF Upload!IInv, Upload!stop, Upload!TypeOK
<1>2. Upload!Bookkeeping'
  BY DEF Upload!IInv, Upload!stop, Upload!TypeOK, Upload!Bookkeeping
<1>3. Upload!Ownership'
  <2>. SUFFICES ASSUME NEW b \in Upload!Bodies
                PROVE  /\ (\E o \in Upload!Owners : Upload!Owns(o, b)')
                            <=> b <= opened /\ closes[b] = 0
                       /\ \A o, x \in Upload!Owners :
                               Upload!Owns(o, b)' /\ Upload!Owns(x, b)' => o = x
    BY DEF Upload!stop, Upload!Ownership
  <2>1. ~Upload!Owns("provider", b)' /\ (Upload!Owns("rewind", b)' <=> Upload!Owns("rewind", b))
    BY DEF Upload!stop, Upload!Owns
  <2>2. Upload!Owns(s, b)' <=> Upload!Owns("provider", b)
    BY DEF Upload!IInv, Upload!stop, Upload!TypeOK, Upload!Owns
  <2>3. ASSUME NEW x \in Stoppers \ {s}
        PROVE  Upload!Owns(x, b)' <=> Upload!Owns(x, b)
    BY <2>3 DEF Upload!IInv, Upload!stop, Upload!TypeOK, Upload!Owns
  <2>4. ~Upload!Owns(s, b)
    BY DEF Upload!stop, Upload!Owns
  <2>. QED BY <2>1, <2>2, <2>3, <2>4 DEF Upload!IInv, Upload!Ownership
<1>4. Upload!CountsOneBody'
  BY DEF Upload!IInv, Upload!stop, Upload!TypeOK, Upload!CountsOneBody
<1>. QED BY <1>1, <1>2, <1>3, <1>4 DEF Upload!IInv

\* The stop closes it.
LEMMA UploadStopCloseKeeps ==
  ASSUME Upload!ConstantsAssumption, Upload!IInv, NEW s \in Stoppers,
         Upload!StopClose(s)
  PROVE  Upload!IInv'
<1>a. taken[s] # Upload!NoBody =>
        /\ taken[s] \in Upload!Bodies /\ taken[s] <= opened /\ closes[taken[s]] = 0
  <2>1. ASSUME taken[s] # Upload!NoBody
        PROVE  taken[s] \in Upload!Bodies /\ Upload!Owns(s, taken[s])
    BY <2>1 DEF Upload!IInv, Upload!StopClose, Upload!TypeOK, Upload!Owns
  <2>2. s \in Upload!Owners
    OBVIOUS
  <2>. HIDE DEF Upload!Owns, Upload!Owners
  <2>. QED BY <2>1, <2>2 DEF Upload!IInv, Upload!Ownership
<1>1. Upload!TypeOK'
  <2>1. closes' \in [Upload!Bodies -> 0..1]
    <3>1. closes \in [Upload!Bodies -> 0..1]
      BY DEF Upload!IInv, Upload!TypeOK
    <3>2. CASE taken[s] = Upload!NoBody
      BY <3>1, <3>2 DEF Upload!StopClose
    <3>3. CASE taken[s] # Upload!NoBody
      <4>1. Upload!CloseBody(taken[s])
        BY <3>3 DEF Upload!StopClose
      <4>. QED BY <1>a, <3>1, <3>3, <4>1, ClosedOnce
    <3>. QED BY <3>2, <3>3
  <2>. QED BY <2>1 DEF Upload!IInv, Upload!StopClose, Upload!TypeOK
<1>2. Upload!Bookkeeping'
  BY <1>a DEF Upload!IInv, Upload!StopClose, Upload!TypeOK, Upload!Bookkeeping
<1>3. Upload!Ownership'
  <2>. SUFFICES ASSUME NEW b \in Upload!Bodies
                PROVE  /\ (\E o \in Upload!Owners : Upload!Owns(o, b)')
                            <=> b <= opened /\ closes'[b] = 0
                       /\ \A o, x \in Upload!Owners :
                               Upload!Owns(o, b)' /\ Upload!Owns(x, b)' => o = x
    BY DEF Upload!StopClose, Upload!Ownership
  <2>1. ASSUME NEW x \in Upload!Owners \ {s}
        PROVE  Upload!Owns(x, b)' <=> Upload!Owns(x, b)
    BY <2>1 DEF Upload!IInv, Upload!StopClose, Upload!TypeOK, Upload!Owns
  <2>2. ~Upload!Owns(s, b)' /\ (Upload!Owns(s, b) <=> taken[s] = b)
    BY DEF Upload!IInv, Upload!StopClose, Upload!TypeOK, Upload!Owns
  <2>3. closes'[b] = IF b = taken[s] THEN 1 ELSE closes[b]
    BY SMTT(20), <1>a DEF Upload!IInv, Upload!StopClose, Upload!TypeOK
  <2>4. opened' = opened /\ (b = taken[s] => b <= opened /\ closes[b] = 0)
    BY <1>a DEF Upload!StopClose
  <2>5. CASE b = taken[s]
    <3>1. \A x \in Upload!Owners : ~Upload!Owns(x, b)'
      BY <2>1, <2>2, <2>5 DEF Upload!IInv, Upload!Ownership
    <3>. QED BY <2>3, <2>5, <3>1
  <2>6. CASE b # taken[s]
    BY <2>1, <2>2, <2>3, <2>4, <2>6 DEF Upload!IInv, Upload!Ownership
  <2>. QED BY <2>5, <2>6
<1>4. Upload!CountsOneBody'
  BY DEF Upload!IInv, Upload!StopClose, Upload!TypeOK, Upload!CountsOneBody
<1>. QED BY <1>1, <1>2, <1>3, <1>4 DEF Upload!IInv

-----------------------------------------------------------------------------

\* The initial state satisfies the invariant.
LEMMA UploadInitIInv ==
  ASSUME Upload!ConstantsAssumption, Upload!Init
  PROVE  Upload!IInv
<1>1. Upload!TypeOK
  <2>1. readLen \in 0..(IF Upload!Known THEN length ELSE BodySize)
    BY DEF Upload!Init
  <2>2. report \in [kind : {"none", "bytes", "final", "error", "rewound"},
                   n : 0..room]
    BY DEF Upload!Init
  <2>3. closed \in BOOLEAN
    BY DEF Upload!Init
  <2>. QED BY <2>1, <2>2, <2>3 DEF Upload!Init, Upload!TypeOK
<1>2. Upload!Bookkeeping /\ Upload!Ownership /\ Upload!CountsOneBody
  BY DEF Upload!Init, Upload!Bookkeeping, Upload!Ownership, Upload!Owns,
         Upload!CountsOneBody
<1>. QED BY <1>1, <1>2 DEF Upload!IInv

\* Every step keeps it.
LEMMA UploadStepIInv ==
  ASSUME Upload!ConstantsAssumption, Upload!IInv, [Upload!Next]_(Upload!vars)
  PROVE  Upload!IInv'
<1>1. ASSUME Upload!Upload PROVE Upload!IInv'
  BY <1>1, UploadReadStartKeeps, UploadBodyReadKeeps, UploadBodyFailsKeeps,
     UploadRewindTakeKeeps,
     UploadRewindCloseKeeps, UploadGetBodyKeeps, UploadRewindSetKeeps DEF Upload!Upload
<1>2. ASSUME NEW s \in Stoppers, Upload!stop(s) \/ Upload!StopClose(s)
      PROVE  Upload!IInv'
  BY <1>2, UploadstopKeeps, UploadStopCloseKeeps
<1>3. CASE UNCHANGED Upload!vars
  BY <1>3 DEF Upload!vars, Upload!IInv, Upload!TypeOK, Upload!Bookkeeping,
              Upload!Ownership, Upload!Owns, Upload!CountsOneBody
<1>. QED BY <1>1, <1>2, <1>3, UploadAskReadKeeps, UploadAskRewindKeeps
            DEF Upload!Next

\* Each open body has one owner, a stop leaves none open, and the native side gets
\* the bytes of one body, from its start.
LEMMA UploadOneBody == ASSUME Upload!ConstantsAssumption, Upload!IInv PROVE Upload!OneBody
<1>1. Upload!OneOwner
  <2>. SUFFICES ASSUME closed, uploadPc = "idle",
                       \A s \in Stoppers : stopper[s] # "close", NEW b \in 1..opened
                PROVE  closes[b] = 1
    BY DEF Upload!IInv, Upload!OneOwner, Upload!StoppedMeansClosed
  <2>1. b \in Upload!Bodies /\ closes[b] \in 0..1
    <3>1. opened \in Upload!Bodies /\ closes \in [Upload!Bodies -> 0..1]
      BY DEF Upload!IInv, Upload!TypeOK
    <3>. QED BY <3>1
  <2>3. reader = Upload!NoBody
    BY DEF Upload!IInv, Upload!Bookkeeping
  <2>2. \A o \in Upload!Owners : ~Upload!Owns(o, b)
    BY <2>1, <2>3 DEF Upload!Owns
  <2>. QED BY <2>1, <2>2 DEF Upload!IInv, Upload!Ownership
<1>. QED BY <1>1 DEF Upload!IInv, Upload!OneBody

-----------------------------------------------------------------------------
(* The sum.                                                                *)

SumIInv == Executor!IInv /\ IInv /\ Upload!IInv

\* A step of the sum is a step of each part, or leaves the part alone.
LEMMA SumSteps ==
  ASSUME [SumNext]_all
  PROVE  /\ [Executor!Next]_(Executor!vars)
         /\ [Next]_vars
         /\ [Upload!Next]_(Upload!vars)
<1>1. UNCHANGED executorVars <=> UNCHANGED Executor!vars
  BY DEF executorVars, Executor!vars
<1>2. UNCHANGED uploadVars <=> UNCHANGED Upload!vars
  BY DEF uploadVars, Upload!vars, Upload!providerVars, Upload!bodyVars,
         Upload!uploadVars, Upload!stopVars
<1>3. UNCHANGED all => UNCHANGED <<vars, executorVars, uploadVars>>
  BY DEF all
<1>. QED BY <1>1, <1>2, <1>3 DEF SumNext

\* The three invariants hold together.
THEOREM SumInvariance == SumSpec => []SumIInv
<1>1. SumInit => SumIInv
  BY PartsAssumption, ExecutorInitIInv, InitIInv, UploadInitIInv DEF SumInit,
         SumIInv
<1>2. SumIInv /\ [SumNext]_all => SumIInv'
  BY PartsAssumption, SumSteps, ExecutorStepIInv, StepIInv, UploadStepIInv
     DEF SumIInv
<1>. QED BY <1>1, <1>2, PTL DEF SumSpec

\* Every variable of the executor, the request and the upload stays within its type.
THEOREM TypesCorrect == SumSpec => []TypesOK
<1>1. SumIInv => TypesOK
  BY DEF SumIInv, IInv, Executor!IInv, Upload!IInv, TypesOK
<1>. QED BY <1>1, SumInvariance, PTL

\* However many goroutines submit, at most one loop drains the queue, and none is
\* missing while running is set.
THEOREM OneRunner == SumSpec => []RunningMeansLoop
<1>1. SumIInv => RunningMeansLoop
  BY DEF SumIInv, Executor!IInv, RunningMeansLoop
<1>. QED BY <1>1, SumInvariance, PTL

\* Every body of an upload has one owner who closes it, and the native side gets
\* the bytes of one body from its start.
THEOREM OneBodyAtATime == SumSpec => []OneBody
<1>1. SumIInv => OneBody
  BY PartsAssumption, UploadOneBody DEF SumIInv, OneBody
<1>. QED BY <1>1, SumInvariance, PTL

\* The safety part of SerialSpec: the executor runs functions one at a time, in
\* the order in which they were submitted, each at most once.
THEOREM SerialOrder == SumSpec => Executor!Serial!Order
<1>1. SumInit => Executor!Serial!Init
  BY DEF SumInit, Executor!Init, Executor!Serial!Init, Executor!Calling
<1>2. SumIInv /\ [SumNext]_all => [Executor!Serial!Next]_(Executor!Serial!vars)
  BY PartsAssumption, SumSteps, ExecutorStepSerial DEF SumIInv
<1>. QED BY <1>1, <1>2, SumInvariance, PTL DEF SumSpec, Executor!Serial!Order

=============================================================================
