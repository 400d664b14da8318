-------------------------- MODULE NaiveClientProofs --------------------------
(***************************************************************************)
(* Safety of NaiveClient for any number of goroutines and engines.  IInv   *)
(* is inductive: one lemma per action.  EngineAlive and CloseMeansGone     *)
(* follow from it; NoLateAdd from it and from what each step does to the   *)
(* wait groups.                                                            *)
(***************************************************************************)
EXTENDS NaiveClient, FiniteSetTheorems, TLAPS

USE GoroutinesAssumption, BoundsAssumption
    DEF Goroutines, Engines, lifeVars, engineVars, connVars, countVars, Goto,
        Return, Step, release, Live, At, OneAt, StartOwner, CloseOwner,
        LastOwner, OpenOwner, Owner, StartLabels, DialLabels, KickLabels,
        CloseLabels, OperationLabels, NoOperations, NoConnections, AllLive,
        NoneLive

\* What the wait groups count.
Operating == {p \in Goroutines : pc[p] \in OperationLabels}
Connected == {p \in Dialers : conn[p] # "none"}

\* Cardinalities of finite sets that lose or gain an element.
LEMMA Counting ==
  ASSUME NEW S, IsFiniteSet(S), NEW x
  PROVE  /\ Cardinality(S) \in Nat
         /\ x \notin S => Cardinality(S \cup {x}) = Cardinality(S) + 1
         /\ x \in S => /\ Cardinality(S) > 0
                       /\ Cardinality(S \ {x}) = Cardinality(S) - 1
<1>1. Cardinality(S) \in Nat
  BY FS_CardinalityType
<1>2. x \in S => Cardinality(S) # 0
  BY FS_EmptySet
<1>3. x \notin S => Cardinality(S \cup {x}) = Cardinality(S) + 1
  BY FS_AddElement
<1>4. x \in S => Cardinality(S \ {x}) = Cardinality(S) - 1
  BY FS_RemoveElement
<1>. QED BY <1>1, <1>2, <1>3, <1>4

\* What is counted is finite, and its counter positive while there is any.
LEMMA Counts ==
  ASSUME Counted
  PROVE  /\ IsFiniteSet(Operating) /\ activeOperations = Cardinality(Operating)
         /\ IsFiniteSet(Connected) /\ activeConnections = Cardinality(Connected)
         /\ \A p \in Operating : activeOperations > 0
         /\ \A p \in Connected : activeConnections > 0
<1>1. IsFiniteSet(Operating)
  BY FS_Subset DEF Operating
<1>2. IsFiniteSet(Connected)
  <2>1. IsFiniteSet(Dialers)
    BY FS_Subset
  <2>. QED BY <2>1, FS_Subset DEF Connected
<1>3. /\ activeOperations = Cardinality(Operating)
      /\ activeConnections = Cardinality(Connected)
  BY DEF Counted, Operating, Connected
<1>. QED BY <1>1, <1>2, <1>3, Counting

\* Where nothing that is counted has changed, the counters are right as they are.
LEMMA Recounted ==
  ASSUME Counted, Operating' = Operating, Connected' = Connected,
         UNCHANGED countVars
  PROVE  Counted'
  BY DEF Counted, Operating, Connected

-----------------------------------------------------------------------------

\* Start is called.
LEMMA StartKeeps ==
  ASSUME IInv, NEW p \in Starters, Start(p)
  PROVE  IInv'
<1>1. TypeOK'
  BY DEF IInv, Start, TypeOK
<1>2. (Phase /\ Unique /\ Progress /\ Roles)'
  BY DEF IInv, Start, TypeOK, Phase, Unique, Progress, Roles
<1>3. Quiet'
  BY DEF IInv, Start, TypeOK, Phase, Quiet
<1>4. EnginesOf'
  <2>1. state = "Created" => Live = 1..0
    BY DEF IInv, EnginesOf
  <2>2. Live' = Live
    BY DEF Start
  <2>3. At({"startEngine"})' => state = "Created" \/ At({"startEngine"})
    BY DEF IInv, Start, TypeOK
  <2>4. (AllLive => Live = Engines)' /\ (NoneLive => Live = {})'
    BY <2>1, <2>2 DEF IInv, Start, TypeOK, Phase, EnginesOf
  <2>5. 0 \in 0..(EngineCount - 1)
    OBVIOUS
  <2>. QED BY <2>1, <2>2, <2>3, <2>4, <2>5 DEF IInv, EnginesOf
<1>5. Operating' = Operating /\ Connected' = Connected
  BY DEF IInv, Start, TypeOK, Operating, Connected
<1>. QED BY <1>1, <1>2, <1>3, <1>4, <1>5, Recounted DEF IInv, Start

\* One turn of the loop over startEngine.
LEMMA StartEngineKeeps ==
  ASSUME IInv, NEW p \in Starters, StartEngine(p)
  PROVE  IInv'
<1>n. PICK n \in 0..(EngineCount - 1) : Live = 1..n
  BY DEF IInv, StartEngine, EnginesOf
<1>c. Cardinality(Live) = n
  <2>1. Cardinality(1..n) = n
    BY FS_Interval
  <2>. QED BY <1>n, <2>1
<1>1. TypeOK'
  BY <1>n, <1>c DEF IInv, StartEngine, TypeOK
<1>2. (Phase /\ Unique /\ Progress /\ Roles)'
  BY DEF IInv, StartEngine, TypeOK, Phase, Unique, Progress, Roles
<1>3. Quiet'
  BY DEF IInv, StartEngine, TypeOK, Phase, Quiet
<1>4. EnginesOf'
  <2>1. CASE engine' = [engine EXCEPT ![n + 1] = "live"]
             /\ Goto(p, IF n + 1 = EngineCount THEN "run" ELSE "startEngine")
    <3>1. Live' = 1..(n + 1)
      BY <1>n, <2>1 DEF IInv, TypeOK
    <3>2. CASE n + 1 = EngineCount
      BY <3>1, <3>2, <2>1 DEF IInv, StartEngine, TypeOK, Phase, Unique, EnginesOf
    <3>3. CASE n + 1 # EngineCount /\ n + 1 \in 0..(EngineCount - 1)
      BY <3>1, <3>3, <2>1 DEF IInv, StartEngine, TypeOK, Phase, Unique, EnginesOf
    <3>. QED BY <3>2, <3>3, <1>n
  <2>2. CASE engine' = engine /\ Goto(p, "startFailed")
    BY <2>2 DEF IInv, StartEngine, TypeOK, Phase, Unique, EnginesOf
  <2>. QED BY <1>c, <2>1, <2>2 DEF StartEngine
<1>5. Operating' = Operating /\ Connected' = Connected
  BY DEF IInv, StartEngine, TypeOK, Operating, Connected
<1>. QED BY <1>1, <1>2, <1>3, <1>4, <1>5, Recounted DEF IInv, StartEngine

\* The state becomes Running.
LEMMA StartRunKeeps ==
  ASSUME IInv, NEW p \in Starters, StartRun(p)
  PROVE  IInv'
<1>1. (TypeOK /\ Phase /\ Unique)'
  BY DEF IInv, StartRun, TypeOK, Phase, Unique
<1>2. (Progress /\ Roles)'
  BY DEF IInv, StartRun, TypeOK, Progress, Roles
<1>3. (Quiet /\ EnginesOf)'
  BY DEF IInv, StartRun, TypeOK, Phase, Unique, Quiet, EnginesOf
<1>4. Operating' = Operating /\ Connected' = Connected
  BY DEF IInv, StartRun, TypeOK, Operating, Connected
<1>. QED BY <1>1, <1>2, <1>3, <1>4, Recounted DEF IInv, StartRun

\* c.started is closed.
LEMMA StartOpenKeeps ==
  ASSUME IInv, NEW p \in Starters, StartOpen(p)
  PROVE  IInv'
<1>1. TypeOK'
  BY DEF IInv, StartOpen, TypeOK, Phase
<1>2. (Phase /\ Unique /\ Progress /\ Roles)'
  BY DEF IInv, StartOpen, TypeOK, Phase, Unique, Progress, Roles
<1>3. (Quiet /\ EnginesOf)'
  BY DEF IInv, StartOpen, TypeOK, Phase, Unique, Quiet, EnginesOf
<1>4. Operating' = Operating /\ Connected' = Connected
  BY DEF IInv, StartOpen, TypeOK, Operating, Connected
<1>. QED BY <1>1, <1>2, <1>3, <1>4, Recounted DEF IInv, StartOpen

\* A failed Start cancels the proxies.
LEMMA StartCancelKeeps ==
  ASSUME IInv, NEW p \in Starters, StartCancel(p)
  PROVE  IInv'
<1>1. (TypeOK /\ Phase /\ Unique)'
  BY DEF IInv, StartCancel, TypeOK, Phase, Unique
<1>2. (Progress /\ Roles)'
  BY DEF IInv, StartCancel, TypeOK, Progress, Roles
<1>3. (Quiet /\ EnginesOf)'
  BY DEF IInv, StartCancel, TypeOK, Phase, Unique, Quiet, EnginesOf
<1>4. Operating' = Operating /\ Connected' = Connected
  BY DEF IInv, StartCancel, TypeOK, Operating, Connected
<1>. QED BY <1>1, <1>2, <1>3, <1>4, Recounted DEF IInv, StartCancel

\* A failed Start destroys an engine, or has none left.
LEMMA StartDestroyKeeps ==
  ASSUME IInv, NEW p \in Starters, StartDestroy(p)
  PROVE  IInv'
<1>1. (TypeOK /\ Phase /\ Unique)'
  BY DEF IInv, StartDestroy, TypeOK, Phase, Unique
<1>2. (Progress /\ Roles)'
  BY DEF IInv, StartDestroy, TypeOK, Progress, Roles
<1>3. (Quiet /\ EnginesOf)'
  BY DEF IInv, StartDestroy, TypeOK, Phase, Unique, Quiet, EnginesOf
<1>4. Operating' = Operating /\ Connected' = Connected
  BY DEF IInv, StartDestroy, TypeOK, Operating, Connected
<1>. QED BY <1>1, <1>2, <1>3, <1>4, Recounted DEF IInv, StartDestroy

\* A failed Start has waited for the workers.
LEMMA StartWorkersKeeps ==
  ASSUME IInv, NEW p \in Starters, StartWorkers(p)
  PROVE  IInv'
<1>1. (TypeOK /\ Phase /\ Unique)'
  BY DEF IInv, StartWorkers, TypeOK, Phase, Unique
<1>2. (Progress /\ Roles)'
  BY DEF IInv, StartWorkers, TypeOK, Progress, Roles
<1>3. (Quiet /\ EnginesOf)'
  BY DEF IInv, StartWorkers, TypeOK, Phase, Unique, Quiet, EnginesOf
<1>4. Operating' = Operating /\ Connected' = Connected
  BY DEF IInv, StartWorkers, TypeOK, Operating, Connected
<1>. QED BY <1>1, <1>2, <1>3, <1>4, Recounted DEF IInv, StartWorkers

\* A failed Start closes both channels.
LEMMA StartChannelsKeeps ==
  ASSUME IInv, NEW p \in Starters, StartChannels(p)
  PROVE  IInv'
<1>1. TypeOK'
  BY DEF IInv, StartChannels, TypeOK, Phase
<1>2. (Phase /\ Unique /\ Progress /\ Roles)'
  BY DEF IInv, StartChannels, TypeOK, Phase, Unique, Progress, Roles
<1>3. (Quiet /\ EnginesOf)'
  BY DEF IInv, StartChannels, TypeOK, Phase, Unique, Quiet, EnginesOf
<1>4. Operating' = Operating /\ Connected' = Connected
  BY DEF IInv, StartChannels, TypeOK, Operating, Connected
<1>. QED BY <1>1, <1>2, <1>3, <1>4, Recounted DEF IInv, StartChannels

\* DialEarly is called.
LEMMA DialKeeps ==
  ASSUME IInv, NEW p \in Dialers, Dial(p)
  PROVE  IInv'
<1>1. (TypeOK /\ Phase /\ Unique)'
  BY DEF IInv, Dial, TypeOK, Phase, Unique
<1>2. (Progress /\ Roles)'
  BY DEF IInv, Dial, TypeOK, Progress, Roles
<1>3. (Quiet /\ EnginesOf)'
  BY DEF IInv, Dial, TypeOK, Phase, Unique, Quiet, EnginesOf
<1>4. Operating' = Operating /\ Connected' = Connected
  BY DEF IInv, Dial, TypeOK, Operating, Connected
<1>. QED BY <1>1, <1>2, <1>3, <1>4, Recounted DEF IInv, Dial

\* A dial stops waiting for the start.
LEMMA DialWaitKeeps ==
  ASSUME IInv, NEW p \in Dialers, DialWait(p)
  PROVE  IInv'
<1>1. (TypeOK /\ Phase /\ Unique)'
  BY DEF IInv, DialWait, TypeOK, Phase, Unique
<1>2. (Progress /\ Roles)'
  BY DEF IInv, DialWait, TypeOK, Progress, Roles
<1>3. (Quiet /\ EnginesOf)'
  BY DEF IInv, DialWait, TypeOK, Phase, Unique, Quiet, EnginesOf
<1>4. Operating' = Operating /\ Connected' = Connected
  BY DEF IInv, DialWait, TypeOK, Operating, Connected
<1>. QED BY <1>1, <1>2, <1>3, <1>4, Recounted DEF IInv, DialWait

\* A context ends the wait of a dial.
LEMMA DialContextDoneKeeps ==
  ASSUME IInv, NEW p \in Dialers, DialContextDone(p)
  PROVE  IInv'
<1>1. (TypeOK /\ Phase /\ Unique)'
  BY DEF IInv, DialContextDone, TypeOK, Phase, Unique
<1>2. (Progress /\ Roles)'
  BY DEF IInv, DialContextDone, TypeOK, Progress, Roles
<1>3. (Quiet /\ EnginesOf)'
  BY DEF IInv, DialContextDone, TypeOK, Phase, Unique, Quiet, EnginesOf
<1>4. Operating' = Operating /\ Connected' = Connected
  BY DEF IInv, DialContextDone, TypeOK, Operating, Connected
<1>. QED BY <1>1, <1>2, <1>3, <1>4, Recounted DEF IInv, DialContextDone

\* A dial is admitted, or refused.
LEMMA AdmitKeeps ==
  ASSUME IInv, NEW p \in Dialers, Admit(p)
  PROVE  IInv'
<1>1. TypeOK'
  BY DEF IInv, Admit, TypeOK
<1>2. (Phase /\ Unique /\ Progress /\ Roles)'
  BY SMTT(20) DEF IInv, Admit, TypeOK, Phase, Unique, Progress, Roles
<1>3. (Quiet /\ EnginesOf)'
  BY SMTT(20) DEF IInv, Admit, TypeOK, Phase, Unique, Quiet, EnginesOf
<1>4. Counted'
  <2>1. CASE Return(p) /\ UNCHANGED <<conn, countVars>>
    <3>1. Operating' = Operating /\ Connected' = Connected
      BY <2>1 DEF IInv, Admit, TypeOK, Operating, Connected
    <3>. QED BY <2>1, <3>1, Recounted DEF IInv
  <2>2. CASE /\ Goto(p, "create")
             /\ conn' = [conn EXCEPT ![p] = "reserved"]
             /\ activeOperations' = activeOperations + 1
             /\ activeConnections' = activeConnections + 1
    <3>1. Operating' = Operating \cup {p} /\ p \notin Operating
      BY <2>2 DEF IInv, Admit, TypeOK, Operating
    <3>2. Connected' = Connected \cup {p} /\ p \notin Connected
      BY <2>2 DEF IInv, Admit, TypeOK, Progress, Connected
    <3>. QED BY <2>2, <3>1, <3>2, Counts, Counting
         DEF IInv, Counted, Operating, Connected
  <2>. QED BY <2>1, <2>2 DEF Admit
<1>. QED BY <1>1, <1>2, <1>3, <1>4 DEF IInv

\* A dial creates its stream.
LEMMA CreateConnKeeps ==
  ASSUME IInv, NEW p \in Dialers, CreateConn(p)
  PROVE  IInv'
<1>1. TypeOK'
  BY DEF IInv, CreateConn, TypeOK
<1>2. (Phase /\ Unique /\ Progress /\ Roles)'
  BY DEF IInv, CreateConn, TypeOK, Phase, Unique, Progress, Roles
<1>3. (Quiet /\ EnginesOf)'
  BY DEF IInv, CreateConn, TypeOK, Phase, Unique, Quiet, EnginesOf
<1>4. Operating' = Operating
  BY DEF IInv, CreateConn, TypeOK, Operating
<1>5. Connected' = Connected
  BY DEF IInv, CreateConn, TypeOK, Progress, Connected
<1>. QED BY <1>1, <1>2, <1>3, <1>4, <1>5, Recounted DEF IInv, CreateConn

\* A dial installs the terminate hook.
LEMMA SetHookKeeps ==
  ASSUME IInv, NEW p \in Dialers, SetHook(p)
  PROVE  IInv'
<1>1. TypeOK'
  BY DEF IInv, SetHook, TypeOK
<1>2. (Phase /\ Unique /\ Progress /\ Roles)'
  BY DEF IInv, SetHook, TypeOK, Phase, Unique, Progress, Roles
<1>3. (Quiet /\ EnginesOf)'
  BY DEF IInv, SetHook, TypeOK, Phase, Unique, Quiet, EnginesOf
<1>4. Operating' = Operating
  BY DEF IInv, SetHook, TypeOK, Operating
<1>5. Connected' = Connected
  BY DEF IInv, SetHook, TypeOK, Progress, Connected
<1>. QED BY <1>1, <1>2, <1>3, <1>4, <1>5, Recounted DEF IInv, SetHook

\* A dial starts its stream.
LEMMA ConnStartKeeps ==
  ASSUME IInv, NEW p \in Dialers, ConnStart(p)
  PROVE  IInv'
<1>1. TypeOK'
  BY DEF IInv, ConnStart, TypeOK
<1>2. (Phase /\ Unique)'
  BY DEF IInv, ConnStart, TypeOK, Phase, Unique
<1>3. (Progress /\ Roles)'
  BY DEF IInv, ConnStart, TypeOK, Progress, Roles
<1>4. (Quiet /\ EnginesOf)'
  BY DEF IInv, ConnStart, TypeOK, Quiet, EnginesOf
<1>5. Operating' = Operating
  BY DEF IInv, ConnStart, TypeOK, Operating
<1>6. Connected' = Connected
  BY DEF IInv, ConnStart, TypeOK, Progress, Connected
<1>. QED BY <1>1, <1>2, <1>3, <1>4, <1>5, <1>6, Recounted DEF IInv, ConnStart

\* The hook of a stream that was refused.
LEMMA DialReleaseKeeps ==
  ASSUME IInv, NEW p \in Dialers, DialRelease(p)
  PROVE  IInv'
<1>a. Operating' = Operating
  BY DEF IInv, DialRelease, TypeOK, Progress, Operating
<1>b. Connected' = Connected \ {p} /\ p \in Connected
  BY DEF IInv, DialRelease, TypeOK, Progress, Connected
<1>c. activeConnections > 0
  BY <1>a, <1>b, Counts DEF IInv
<1>1. TypeOK'
  BY <1>c DEF IInv, DialRelease, TypeOK
<1>2. (Phase /\ Unique /\ Progress /\ Roles)'
  BY DEF IInv, DialRelease, TypeOK, Phase, Unique, Progress, Roles
<1>3. (Quiet /\ EnginesOf)'
  BY <1>c DEF IInv, DialRelease, TypeOK, Phase, Unique, Quiet, EnginesOf
<1>4. Counted'
  <2>1. /\ activeConnections' = activeConnections - 1
        /\ UNCHANGED activeOperations
    BY DEF DialRelease
  <2>2. /\ IsFiniteSet(Connected) /\ activeConnections = Cardinality(Connected)
        /\ activeOperations = Cardinality(Operating)
    BY Counts DEF IInv
  <2>3. Cardinality(Connected') = Cardinality(Connected) - 1
    BY <1>b, <2>2, Counting
  <2>4. /\ activeOperations' = Cardinality(Operating')
        /\ activeConnections' = Cardinality(Connected')
    BY <1>a, <2>1, <2>2, <2>3
  <2>. QED BY <2>4 DEF Counted, Operating, Connected
<1>. QED BY <1>1, <1>2, <1>3, <1>4 DEF IInv

\* A dial returns.
LEMMA DialDoneKeeps ==
  ASSUME IInv, NEW p \in Dialers, DialDone(p)
  PROVE  IInv'
<1>a. Operating' = Operating \ {p} /\ p \in Operating
  BY DEF IInv, DialDone, TypeOK, Progress, Operating
<1>b. Connected' = Connected
  BY DEF IInv, DialDone, TypeOK, Progress, Connected
<1>c. activeOperations > 0
  BY <1>a, <1>b, Counts DEF IInv
<1>1. TypeOK'
  BY <1>c DEF IInv, DialDone, TypeOK
<1>2. (Phase /\ Unique /\ Progress /\ Roles)'
  BY DEF IInv, DialDone, TypeOK, Phase, Unique, Progress, Roles
<1>3. (Quiet /\ EnginesOf)'
  BY <1>c DEF IInv, DialDone, TypeOK, Phase, Unique, Quiet, EnginesOf
<1>4. Counted'
  BY <1>a, <1>b, Counts, Counting DEF IInv, DialDone, Counted, Operating, Connected
<1>. QED BY <1>1, <1>2, <1>3, <1>4 DEF IInv

\* CloseAllConnections is called.
LEMMA CloseAllConnectionsKeeps ==
  ASSUME IInv, NEW p \in Kickers, CloseAllConnections(p)
  PROVE  IInv'
<1>1. TypeOK'
  BY DEF IInv, CloseAllConnections, TypeOK
<1>2. (Phase /\ Unique /\ Progress /\ Roles)'
  BY DEF IInv, CloseAllConnections, TypeOK, Phase, Unique, Progress, Roles
<1>3. (Quiet /\ EnginesOf)'
  BY SMTT(20) DEF IInv, CloseAllConnections, TypeOK, Phase, Unique, Quiet, EnginesOf
<1>4. Connected' = Connected
  BY DEF CloseAllConnections, Connected
<1>5. CASE state = "Running"
  <2>1. Operating' = Operating \cup {p} /\ p \notin Operating
    BY <1>5 DEF IInv, CloseAllConnections, TypeOK, Operating
  <2>2. Counted'
    BY <1>4, <1>5, <2>1, Counts, Counting
       DEF IInv, CloseAllConnections, Counted, Operating, Connected
  <2>. QED BY <1>1, <1>2, <1>3, <2>2 DEF IInv
<1>6. CASE state # "Running"
  <2>1. Operating' = Operating
    BY <1>6 DEF IInv, CloseAllConnections, TypeOK, Operating
  <2>. QED BY <1>1, <1>2, <1>3, <1>4, <1>6, <2>1, Recounted
       DEF IInv, CloseAllConnections
<1>. QED BY <1>5, <1>6

\* It closes the sockets of the engines.
LEMMA KickKeeps ==
  ASSUME IInv, NEW p \in Kickers, Kick(p)
  PROVE  IInv'
<1>1. (TypeOK /\ Phase /\ Unique)'
  BY DEF IInv, Kick, TypeOK, Phase, Unique
<1>2. (Progress /\ Roles)'
  BY DEF IInv, Kick, TypeOK, Progress, Roles
<1>3. (Quiet /\ EnginesOf)'
  <2>1. /\ pc[p] = "kick"
        /\ \A q \in Goroutines : pc'[q] = IF q = p THEN "kickDone" ELSE pc[q]
    BY DEF IInv, Kick, TypeOK
  <2>2. UNCHANGED <<state, engine, activeOperations, activeConnections, proxyWaitGroup>>
    BY DEF Kick
  <2>. QED BY <2>1, <2>2 DEF IInv, Quiet, EnginesOf
<1>4. Operating' = Operating /\ Connected' = Connected
  BY DEF IInv, Kick, TypeOK, Operating, Connected
<1>. QED BY <1>1, <1>2, <1>3, <1>4, Recounted DEF IInv, Kick

\* It returns.
LEMMA KickDoneKeeps ==
  ASSUME IInv, NEW p \in Kickers, KickDone(p)
  PROVE  IInv'
<1>a. Operating' = Operating \ {p} /\ p \in Operating
  BY DEF IInv, KickDone, TypeOK, Progress, Operating
<1>b. Connected' = Connected
  BY DEF IInv, KickDone, TypeOK, Progress, Connected
<1>c. activeOperations > 0
  BY <1>a, <1>b, Counts DEF IInv
<1>1. TypeOK'
  BY <1>c DEF IInv, KickDone, TypeOK
<1>2. (Phase /\ Unique /\ Progress /\ Roles)'
  BY DEF IInv, KickDone, TypeOK, Phase, Unique, Progress, Roles
<1>3. (Quiet /\ EnginesOf)'
  BY <1>c DEF IInv, KickDone, TypeOK, Phase, Unique, Quiet, EnginesOf
<1>4. Counted'
  BY <1>a, <1>b, Counts, Counting DEF IInv, KickDone, Counted, Operating, Connected
<1>. QED BY <1>1, <1>2, <1>3, <1>4 DEF IInv

\* Close is called.
LEMMA CloseKeeps ==
  ASSUME IInv, NEW p \in Closers, Close(p)
  PROVE  IInv'
<1>1. (TypeOK /\ Phase /\ Unique)'
  BY DEF IInv, Close, TypeOK, Phase, Unique
<1>2. (Progress /\ Roles)'
  BY DEF IInv, Close, TypeOK, Progress, Roles
<1>3. (Quiet /\ EnginesOf)'
  BY SMTT(20) DEF IInv, Close, TypeOK, Phase, Unique, Quiet, EnginesOf
<1>4. Operating' = Operating /\ Connected' = Connected
  BY DEF IInv, Close, TypeOK, Operating, Connected
<1>. QED BY <1>1, <1>2, <1>3, <1>4, Recounted DEF IInv, Close

\* Close loads the state.
LEMMA CloseLoopKeeps ==
  ASSUME IInv, NEW p \in Closers, CloseLoop(p)
  PROVE  IInv'
<1>1. (TypeOK /\ Phase /\ Unique)'
  BY SMTT(20) DEF IInv, CloseLoop, TypeOK, Phase, Unique
<1>2. (Progress /\ Roles)'
  BY DEF IInv, CloseLoop, TypeOK, Progress, Roles
<1>3. (Quiet /\ EnginesOf)'
  BY DEF IInv, CloseLoop, TypeOK, Phase, Unique, Quiet, EnginesOf
<1>4. Operating' = Operating /\ Connected' = Connected
  BY DEF IInv, CloseLoop, TypeOK, Operating, Connected
<1>. QED BY <1>1, <1>2, <1>3, <1>4, Recounted DEF IInv, CloseLoop

\* Close of a client that was not started.
LEMMA CloseCreatedKeeps ==
  ASSUME IInv, NEW p \in Closers, CloseCreated(p)
  PROVE  IInv'
<1>1. (TypeOK /\ Phase /\ Unique)'
  BY DEF IInv, CloseCreated, TypeOK, Phase, Unique
<1>2. (Progress /\ Roles)'
  BY DEF IInv, CloseCreated, TypeOK, Progress, Roles
<1>3. (Quiet /\ EnginesOf)'
  BY DEF IInv, CloseCreated, TypeOK, Phase, Unique, Quiet, EnginesOf
<1>4. Operating' = Operating /\ Connected' = Connected
  BY DEF IInv, CloseCreated, TypeOK, Operating, Connected
<1>. QED BY <1>1, <1>2, <1>3, <1>4, Recounted DEF IInv, CloseCreated

\* It closes both channels.
LEMMA CloseChannelsKeeps ==
  ASSUME IInv, NEW p \in Closers, CloseChannels(p)
  PROVE  IInv'
<1>1. TypeOK'
  BY DEF IInv, CloseChannels, TypeOK, Phase
<1>2. (Phase /\ Unique /\ Progress /\ Roles)'
  BY DEF IInv, CloseChannels, TypeOK, Phase, Unique, Progress, Roles
<1>3. (Quiet /\ EnginesOf)'
  BY DEF IInv, CloseChannels, TypeOK, Phase, Unique, Quiet, EnginesOf
<1>4. Operating' = Operating /\ Connected' = Connected
  BY DEF IInv, CloseChannels, TypeOK, Operating, Connected
<1>. QED BY <1>1, <1>2, <1>3, <1>4, Recounted DEF IInv, CloseChannels

\* Close has waited for the start.
LEMMA CloseStartingKeeps ==
  ASSUME IInv, NEW p \in Closers, CloseStarting(p)
  PROVE  IInv'
<1>1. (TypeOK /\ Phase /\ Unique)'
  BY DEF IInv, CloseStarting, TypeOK, Phase, Unique
<1>2. (Progress /\ Roles)'
  BY DEF IInv, CloseStarting, TypeOK, Progress, Roles
<1>3. (Quiet /\ EnginesOf)'
  BY DEF IInv, CloseStarting, TypeOK, Phase, Unique, Quiet, EnginesOf
<1>4. Operating' = Operating /\ Connected' = Connected
  BY DEF IInv, CloseStarting, TypeOK, Operating, Connected
<1>. QED BY <1>1, <1>2, <1>3, <1>4, Recounted DEF IInv, CloseStarting

\* Close of a running client.
LEMMA CloseRunningKeeps ==
  ASSUME IInv, NEW p \in Closers, CloseRunning(p)
  PROVE  IInv'
<1>1. (TypeOK /\ Phase /\ Unique)'
  BY DEF IInv, CloseRunning, TypeOK, Phase, Unique
<1>2. (Progress /\ Roles)'
  BY DEF IInv, CloseRunning, TypeOK, Progress, Roles
<1>3. (Quiet /\ EnginesOf)'
  BY DEF IInv, CloseRunning, TypeOK, Phase, Unique, Quiet, EnginesOf
<1>4. Operating' = Operating /\ Connected' = Connected
  BY DEF IInv, CloseRunning, TypeOK, Operating, Connected
<1>. QED BY <1>1, <1>2, <1>3, <1>4, Recounted DEF IInv, CloseRunning

\* Close has waited for another one.
LEMMA CloseClosingKeeps ==
  ASSUME IInv, NEW p \in Closers, CloseClosing(p)
  PROVE  IInv'
<1>1. (TypeOK /\ Phase /\ Unique)'
  BY DEF IInv, CloseClosing, TypeOK, Phase, Unique
<1>2. (Progress /\ Roles)'
  BY DEF IInv, CloseClosing, TypeOK, Progress, Roles
<1>3. (Quiet /\ EnginesOf)'
  BY DEF IInv, CloseClosing, TypeOK, Phase, Unique, Quiet, EnginesOf
<1>4. Operating' = Operating /\ Connected' = Connected
  BY DEF IInv, CloseClosing, TypeOK, Operating, Connected
<1>. QED BY <1>1, <1>2, <1>3, <1>4, Recounted DEF IInv, CloseClosing

\* doClose cancels the proxies.
LEMMA CancelProxyKeeps ==
  ASSUME IInv, NEW p \in Closers, CancelProxy(p)
  PROVE  IInv'
<1>1. (TypeOK /\ Phase /\ Unique)'
  BY DEF IInv, CancelProxy, TypeOK, Phase, Unique
<1>2. (Progress /\ Roles)'
  BY DEF IInv, CancelProxy, TypeOK, Progress, Roles
<1>3. (Quiet /\ EnginesOf)'
  BY DEF IInv, CancelProxy, TypeOK, Phase, Unique, Quiet, EnginesOf
<1>4. Operating' = Operating /\ Connected' = Connected
  BY DEF IInv, CancelProxy, TypeOK, Operating, Connected
<1>. QED BY <1>1, <1>2, <1>3, <1>4, Recounted DEF IInv, CancelProxy

\* doClose has waited for the operations.
LEMMA WaitOperationsKeeps ==
  ASSUME IInv, NEW p \in Closers, WaitOperations(p)
  PROVE  IInv'
<1>1. (TypeOK /\ Phase /\ Unique)'
  BY DEF IInv, WaitOperations, TypeOK, Phase, Unique
<1>2. (Progress /\ Roles)'
  BY DEF IInv, WaitOperations, TypeOK, Progress, Roles
<1>3. (Quiet /\ EnginesOf)'
  BY DEF IInv, WaitOperations, TypeOK, Phase, Unique, Quiet, EnginesOf
<1>4. Operating' = Operating /\ Connected' = Connected
  BY DEF IInv, WaitOperations, TypeOK, Operating, Connected
<1>. QED BY <1>1, <1>2, <1>3, <1>4, Recounted DEF IInv, WaitOperations

\* doClose closes the sockets.
LEMMA CloseSocketsKeeps ==
  ASSUME IInv, NEW p \in Closers, CloseSockets(p)
  PROVE  IInv'
<1>1. (TypeOK /\ Phase /\ Unique)'
  BY DEF IInv, CloseSockets, TypeOK, Phase, Unique
<1>2. (Progress /\ Roles)'
  BY DEF IInv, CloseSockets, TypeOK, Progress, Roles
<1>3. (Quiet /\ EnginesOf)'
  BY DEF IInv, CloseSockets, TypeOK, Phase, Unique, Quiet, EnginesOf
<1>4. Operating' = Operating /\ Connected' = Connected
  BY DEF IInv, CloseSockets, TypeOK, Operating, Connected
<1>. QED BY <1>1, <1>2, <1>3, <1>4, Recounted DEF IInv, CloseSockets

\* doClose has waited for the connections.
LEMMA WaitConnectionsKeeps ==
  ASSUME IInv, NEW p \in Closers, WaitConnections(p)
  PROVE  IInv'
<1>1. (TypeOK /\ Phase /\ Unique)'
  BY DEF IInv, WaitConnections, TypeOK, Phase, Unique
<1>2. (Progress /\ Roles)'
  BY DEF IInv, WaitConnections, TypeOK, Progress, Roles
<1>3. (Quiet /\ EnginesOf)'
  BY DEF IInv, WaitConnections, TypeOK, Phase, Unique, Quiet, EnginesOf
<1>4. Operating' = Operating /\ Connected' = Connected
  BY DEF IInv, WaitConnections, TypeOK, Operating, Connected
<1>. QED BY <1>1, <1>2, <1>3, <1>4, Recounted DEF IInv, WaitConnections

\* doClose destroys an engine, or has none left.
LEMMA ShutdownKeeps ==
  ASSUME IInv, NEW p \in Closers, Shutdown(p)
  PROVE  IInv'
<1>1. TypeOK'
  BY DEF IInv, Shutdown, TypeOK
<1>2. (Phase /\ Unique)'
  BY DEF IInv, Shutdown, TypeOK, Phase, Unique
<1>3. (Progress /\ Roles)'
  BY DEF IInv, Shutdown, TypeOK, Progress, Roles
<1>4. (Quiet /\ EnginesOf)'
  BY DEF IInv, Shutdown, TypeOK, Phase, Unique, Quiet, EnginesOf
<1>5. Operating' = Operating /\ Connected' = Connected
  BY DEF IInv, Shutdown, TypeOK, Operating, Connected
<1>. QED BY <1>1, <1>2, <1>3, <1>4, <1>5, Recounted DEF IInv, Shutdown

\* doClose has waited for the workers.
LEMMA WaitWorkersKeeps ==
  ASSUME IInv, NEW p \in Closers, WaitWorkers(p)
  PROVE  IInv'
<1>1. (TypeOK /\ Phase /\ Unique)'
  BY DEF IInv, WaitWorkers, TypeOK, Phase, Unique
<1>2. (Progress /\ Roles)'
  BY DEF IInv, WaitWorkers, TypeOK, Progress, Roles
<1>3. (Quiet /\ EnginesOf)'
  BY DEF IInv, WaitWorkers, TypeOK, Phase, Unique, Quiet, EnginesOf
<1>4. Operating' = Operating /\ Connected' = Connected
  BY DEF IInv, WaitWorkers, TypeOK, Operating, Connected
<1>. QED BY <1>1, <1>2, <1>3, <1>4, Recounted DEF IInv, WaitWorkers

\* doClose returns.
LEMMA CloseDoneKeeps ==
  ASSUME IInv, NEW p \in Closers, CloseDone(p)
  PROVE  IInv'
<1>1. TypeOK'
  BY DEF IInv, CloseDone, TypeOK, Phase
<1>2. (Phase /\ Unique /\ Progress /\ Roles)'
  BY DEF IInv, CloseDone, TypeOK, Phase, Unique, Progress, Roles
<1>3. (Quiet /\ EnginesOf)'
  BY DEF IInv, CloseDone, TypeOK, Phase, Unique, Quiet, EnginesOf
<1>4. Operating' = Operating /\ Connected' = Connected
  BY DEF IInv, CloseDone, TypeOK, Operating, Connected
<1>. QED BY <1>1, <1>2, <1>3, <1>4, Recounted DEF IInv, CloseDone

\* A stream ends.
LEMMA ConnTerminalKeeps ==
  ASSUME IInv, NEW p \in Dialers, ConnTerminal(p)
  PROVE  IInv'
<1>1. (TypeOK /\ Phase /\ Unique)'
  BY DEF IInv, ConnTerminal, TypeOK, Phase, Unique
<1>2. (Progress /\ Roles)'
  BY DEF IInv, ConnTerminal, TypeOK, Progress, Roles
<1>3. (Quiet /\ EnginesOf)'
  BY DEF IInv, ConnTerminal, Quiet, EnginesOf
<1>4. Operating' = Operating /\ Connected' = Connected
  BY DEF IInv, ConnTerminal, TypeOK, Operating, Connected
<1>. QED BY <1>1, <1>2, <1>3, <1>4, Recounted DEF IInv, ConnTerminal

\* The hook of a stream that has ended.
LEMMA ConnReleaseKeeps ==
  ASSUME IInv, NEW p \in Dialers, ConnRelease(p)
  PROVE  IInv'
<1>a. Operating' = Operating
  BY DEF IInv, ConnRelease, TypeOK, Progress, Operating
<1>b. Connected' = Connected \ {p} /\ p \in Connected
  BY DEF IInv, ConnRelease, TypeOK, Progress, Connected
<1>c. activeConnections > 0
  BY <1>a, <1>b, Counts DEF IInv
<1>1. TypeOK'
  BY <1>c DEF IInv, ConnRelease, TypeOK
<1>2. (Phase /\ Unique /\ Progress /\ Roles)'
  BY DEF IInv, ConnRelease, TypeOK, Phase, Unique, Progress, Roles
<1>3. (Quiet /\ EnginesOf)'
  BY <1>c DEF IInv, ConnRelease, TypeOK, Phase, Unique, Quiet, EnginesOf
<1>4. Counted'
  BY <1>a, <1>b, Counts, Counting DEF IInv, ConnRelease, Counted, Operating, Connected
<1>. QED BY <1>1, <1>2, <1>3, <1>4 DEF IInv

\* A worker starts.
LEMMA DialerCallbackKeeps ==
  ASSUME IInv, DialerCallback
  PROVE  IInv'
<1>1. (TypeOK /\ Phase /\ Unique)'
  BY DEF IInv, DialerCallback, TypeOK, Phase, Unique
<1>2. (Progress /\ Roles)'
  BY DEF IInv, DialerCallback, TypeOK, Progress, Roles
<1>3. (Quiet /\ EnginesOf)'
  BY DEF IInv, DialerCallback, TypeOK, Phase, Unique, Quiet, EnginesOf
<1>4. Operating' = Operating /\ Connected' = Connected
  BY DEF IInv, DialerCallback, TypeOK, Operating, Connected
<1>. QED BY <1>1, <1>2, <1>3, <1>4, Recounted DEF IInv, DialerCallback

\* A worker ends.
LEMMA WorkerDoneKeeps ==
  ASSUME IInv, WorkerDone
  PROVE  IInv'
<1>1. (TypeOK /\ Phase /\ Unique)'
  BY DEF IInv, WorkerDone, TypeOK, Phase, Unique
<1>2. (Progress /\ Roles)'
  BY DEF IInv, WorkerDone, TypeOK, Progress, Roles
<1>3. (Quiet /\ EnginesOf)'
  BY SMTT(20) DEF IInv, WorkerDone, TypeOK, Phase, Unique, Quiet, EnginesOf
<1>4. Operating' = Operating /\ Connected' = Connected
  BY DEF IInv, WorkerDone, TypeOK, Operating, Connected
<1>. QED BY <1>1, <1>2, <1>3, <1>4, Recounted DEF IInv, WorkerDone

-----------------------------------------------------------------------------

\* The initial state satisfies the invariant.
LEMMA InitIInv == Init => IInv
<1>. SUFFICES ASSUME Init PROVE IInv
  OBVIOUS
<1>1. TypeOK /\ Phase /\ Unique /\ Progress /\ Roles
  <2>1. TypeOK
    <3>1. 1 \in Engines
      OBVIOUS
    <3>2. pc \in [Goroutines -> {"idle"} \cup StartLabels \cup DialLabels
                                  \cup KickLabels \cup CloseLabels]
      BY DEF Init
    <3>3. via \in [Dialers -> Engines]
      BY <3>1 DEF Init
    <3>4. /\ engine \in [Engines -> {"none", "live", "destroyed"}]
          /\ conn \in [Dialers -> {"none", "reserved", "created", "hooked",
                                   "running", "destroyed"}]
      BY DEF Init
    <3>5. /\ state \in {"Created", "Starting", "Running", "Closing", "Closed"}
          /\ returned \subseteq Closers /\ kicked \subseteq Dialers
          /\ started \in 0..1 /\ closed \in 0..1
          /\ activeOperations \in Nat /\ activeConnections \in Nat
          /\ proxyWaitGroup \in Nat
      BY DEF Init
    <3>6. proxyCancelled \in BOOLEAN
      BY DEF Init
    <3>. QED BY <3>2, <3>3, <3>4, <3>5, <3>6 DEF TypeOK
  <2>2. Phase /\ Unique /\ Progress /\ Roles
    BY DEF Init, Phase, Unique, Progress, Roles
  <2>. QED BY <2>1, <2>2
<1>2. Quiet /\ EnginesOf
  BY DEF Init, Quiet, EnginesOf
<1>3. {p \in Goroutines : pc[p] \in OperationLabels} = {}
      /\ {p \in Dialers : conn[p] # "none"} = {}
  BY DEF Init
<1>4. Counted
  BY <1>3, FS_EmptySet DEF Init, Counted
<1>. QED BY <1>1, <1>2, <1>4 DEF IInv

\* Every step keeps it.
LEMMA StepIInv == IInv /\ [Next]_vars => IInv'
<1>. SUFFICES ASSUME IInv, [Next]_vars PROVE IInv'
  OBVIOUS
<1>1. ASSUME NEW p \in Starters, Start(p) \/ StartStep(p) PROVE IInv'
  BY <1>1, StartKeeps, StartEngineKeeps, StartRunKeeps, StartOpenKeeps,
     StartCancelKeeps, StartDestroyKeeps, StartWorkersKeeps, StartChannelsKeeps
     DEF StartStep
<1>2. ASSUME NEW p \in Dialers,
             \/ Dial(p) \/ DialStep(p) \/ DialContextDone(p)
             \/ ConnTerminal(p) \/ ConnRelease(p)
      PROVE IInv'
  BY <1>2, DialKeeps, DialWaitKeeps, DialContextDoneKeeps, AdmitKeeps,
     CreateConnKeeps, SetHookKeeps, ConnStartKeeps, DialReleaseKeeps,
     DialDoneKeeps, ConnTerminalKeeps, ConnReleaseKeeps
     DEF DialStep
<1>3. ASSUME NEW p \in Kickers, CloseAllConnections(p) \/ KickStep(p)
      PROVE IInv'
  BY <1>3, CloseAllConnectionsKeeps, KickKeeps, KickDoneKeeps DEF KickStep
<1>4. ASSUME NEW p \in Closers, Close(p) \/ CloseStep(p) PROVE IInv'
  BY <1>4, CloseKeeps, CloseLoopKeeps, CloseCreatedKeeps, CloseChannelsKeeps,
     CloseStartingKeeps, CloseRunningKeeps, CloseClosingKeeps, CancelProxyKeeps,
     WaitOperationsKeeps, CloseSocketsKeeps, WaitConnectionsKeeps,
     ShutdownKeeps, WaitWorkersKeeps, CloseDoneKeeps
     DEF CloseStep, doClose
<1>5. CASE UNCHANGED vars
  BY <1>5 DEF vars, IInv, TypeOK, Phase, Unique, Progress, Roles, Counted, Quiet, EnginesOf
<1>. QED BY <1>1, <1>2, <1>3, <1>4, <1>5, DialerCallbackKeeps, WorkerDoneKeeps
     DEF Next

THEOREM Invariance == Spec => []IInv
  BY InitIInv, StepIInv, PTL DEF Spec

\* Every variable stays within its type, whatever the number of goroutines and
\* engines: no wait group goes negative, no channel is closed twice.
THEOREM TypeCorrect == Spec => []TypeOK
<1>1. IInv => TypeOK
  BY DEF IInv
<1>. QED BY <1>1, Invariance, PTL

\* No engine is used before it runs or after it was destroyed.
THEOREM EnginesAlive == Spec => []EngineAlive
<1>1. IInv => EngineAlive
  <2>. SUFFICES ASSUME IInv PROVE EngineAlive
    OBVIOUS
  <2>1. At({"closeSockets"}) => Live = Engines
    BY DEF IInv, EnginesOf, Phase, Unique
  <2>2. At(OperationLabels) => AllLive
    <3>1. At(OperationLabels) => activeOperations # 0
      BY Counts DEF IInv, Operating
    <3>2. At({"shutdown", "waitWorkers"}) => NoOperations
      BY DEF NoOperations
    <3>. QED BY <3>1, <3>2 DEF IInv, TypeOK, Quiet
  <2>3. ASSUME NEW p \in Dialers, conn[p] # "none" PROVE AllLive
    BY <2>3, Counts DEF IInv, TypeOK, Connected, Quiet
  <2>4. AllLive => Live = Engines /\ \A i \in Engines : engine[i] = "live"
    BY DEF IInv, EnginesOf
  <2>5. ASSUME NEW p \in Dialers, conn[p] \in {"created", "hooked", "running"}
        PROVE  engine[via[p]] = "live"
    BY <2>3, <2>4, <2>5 DEF IInv, TypeOK
  <2>. QED BY <2>1, <2>2, <2>4, <2>5 DEF EngineAlive
<1>. QED BY <1>1, Invariance, PTL

\* When any call of Close has returned nothing of the client is left, and the
\* wait groups never count what is not there.
THEOREM CloseIsFinal == Spec => []CloseMeansGone
<1>1. IInv => CloseMeansGone
  BY DEF IInv, Phase, Counted, Quiet, EnginesOf, CloseMeansGone
<1>. QED BY <1>1, Invariance, PTL

\* No wait group is added to once the shutdown has waited for it.
THEOREM NoneAddedLate == Spec => NoLateAdd
<1>1. IInv /\ [Next]_vars => [AddsNoneLate]_vars
  <2>. SUFFICES ASSUME IInv, Next PROVE AddsNoneLate
    OBVIOUS
  <2>1. \/ UNCHANGED countVars
        \/ /\ activeOperations' = activeOperations - 1
           /\ activeConnections' = activeConnections
        \/ /\ activeOperations' = activeOperations
           /\ activeConnections' = activeConnections - 1
        \/ state = "Running"
    BY DEF Next, StartStep, DialStep, KickStep, CloseStep, doClose, Start,
       StartEngine, StartRun, StartOpen, StartCancel, StartDestroy,
       StartWorkers, StartChannels, Dial, DialWait, DialContextDone, Admit,
       CreateConn, SetHook, ConnStart, DialRelease, DialDone, ConnTerminal,
       ConnRelease, CloseAllConnections, Kick, KickDone, Close, CloseLoop,
       CloseCreated, CloseChannels, CloseStarting, CloseRunning, CloseClosing,
       CancelProxy, WaitOperations, CloseSockets, WaitConnections, Shutdown,
       WaitWorkers, CloseDone, DialerCallback, WorkerDone
  <2>2. \/ UNCHANGED proxyWaitGroup
        \/ proxyWaitGroup' = proxyWaitGroup - 1
        \/ Live # {}
    BY DEF Next, StartStep, DialStep, KickStep, CloseStep, doClose, Start,
       StartEngine, StartRun, StartOpen, StartCancel, StartDestroy,
       StartWorkers, StartChannels, Dial, DialWait, DialContextDone, Admit,
       CreateConn, SetHook, ConnStart, DialRelease, DialDone, ConnTerminal,
       ConnRelease, CloseAllConnections, Kick, KickDone, Close, CloseLoop,
       CloseCreated, CloseChannels, CloseStarting, CloseRunning, CloseClosing,
       CancelProxy, WaitOperations, CloseSockets, WaitConnections, Shutdown,
       WaitWorkers, CloseDone, DialerCallback, WorkerDone
  <2>3. At({"closeSockets", "waitConnections", "shutdown", "waitWorkers",
            "closeDone"}) => state # "Running"
    BY DEF IInv, Phase
  <2>4. At({"waitWorkers", "closeDone", "startWorkers", "startChannels"})
          => Live = {}
    BY DEF IInv, Phase, EnginesOf
  <2>. QED BY <2>1, <2>2, <2>3, <2>4 DEF IInv, TypeOK, AddsNoneLate
<1>. QED BY <1>1, Invariance, PTL DEF Spec, NoLateAdd

=============================================================================
