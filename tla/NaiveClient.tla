----------------------------- MODULE NaiveClient -----------------------------
(***************************************************************************)
(* naive_client.go: the life of a NaiveClient.  Start, DialEarly,          *)
(* CloseAllConnections and Close are called by goroutines at any time; the *)
(* engines' network threads end connections and, through the socket        *)
(* dialers, start proxy workers.  Three wait groups order the shutdown:    *)
(* operations, connections, and, once the engines are gone, workers.       *)
(*                                                                         *)
(* A section of c.lifecycleMu is one step.  Each dialing goroutine has one *)
(* connection at a time; the connection itself is BidirectionalConn, here  *)
(* reduced to when its stream exists and when its terminate hook runs.     *)
(***************************************************************************)
EXTENDS Integers, FiniteSets

CONSTANTS Starters, Dialers, Closers, Kickers,   \* goroutines, by what they call
          EngineCount,                           \* engines that Start creates
          MaxWorkers                             \* bound on proxy workers

\* A goroutine may make several kinds of calls; the calls of Close, whose return
\* is recorded, are told apart from the others by who makes them.
ASSUME GoroutinesAssumption ==
    /\ Closers \cap (Starters \cup Dialers \cup Kickers) = {}
    /\ IsFiniteSet(Starters \cup Dialers \cup Closers \cup Kickers)

ASSUME BoundsAssumption == EngineCount \in Nat \ {0} /\ MaxWorkers \in Nat

Goroutines == Starters \cup Dialers \cup Closers \cup Kickers
Engines == 1..EngineCount

VARIABLES
    state,              \* c.state
    pc,                 \* control of each goroutine
    returned,           \* goroutines whose call of Close has returned
    started, closed,    \* how often c.started and c.closed were closed
    engine,             \* life of each native engine
    conn, via,          \* a dialer's connection and the engine it runs on
    activeOperations, activeConnections, proxyWaitGroup,
    proxyCancelled,     \* proxyCancel was called
    kicked              \* dialers whose sockets CloseAllConnections has closed

lifeVars == <<state, started, closed>>
engineVars == <<engine, proxyCancelled, proxyWaitGroup>>
connVars == <<conn, via, kicked>>
countVars == <<activeOperations, activeConnections>>
vars == <<lifeVars, pc, returned, engineVars, connVars, countVars>>

Init ==
    /\ state = "Created"
    /\ pc = [p \in Goroutines |-> "idle"]
    /\ returned = {}
    /\ started = 0 /\ closed = 0
    /\ engine = [i \in Engines |-> "none"]
    /\ conn = [p \in Dialers |-> "none"]
    /\ via = [p \in Dialers |-> 1]
    /\ activeOperations = 0 /\ activeConnections = 0 /\ proxyWaitGroup = 0
    /\ proxyCancelled = FALSE
    /\ kicked = {}

Goto(p, label) ==
    /\ pc' = [pc EXCEPT ![p] = label]
    /\ UNCHANGED returned

Return(p) ==
    /\ pc' = [pc EXCEPT ![p] = "idle"]
    /\ returned' = returned \cup ({p} \cap Closers)

\* A goroutine p at label from takes a step to label to.
Step(p, from, to) == pc[p] = from /\ Goto(p, to)

Live == {i \in Engines : engine[i] = "live"}

-----------------------------------------------------------------------------
(* Start                                                                   *)

Start(p) ==
    /\ pc[p] = "idle"
    /\ IF state = "Created"
       THEN state' = "Starting" /\ Goto(p, "startEngine")
       ELSE state' = state /\ Return(p)
    /\ UNCHANGED <<started, closed, engineVars, connVars, countVars>>

\* One turn of the loop over startEngine, which destroys what it cannot start.
StartEngine(p) ==
    /\ pc[p] = "startEngine"
    /\ LET i == Cardinality(Live) + 1 IN
       \/ /\ engine' = [engine EXCEPT ![i] = "live"]
          /\ Goto(p, IF i = EngineCount THEN "run" ELSE "startEngine")
       \/ engine' = engine /\ Goto(p, "startFailed")
    /\ UNCHANGED <<lifeVars, proxyCancelled, proxyWaitGroup, connVars, countVars>>

\* state.Store(Running), then close(c.started)
StartRun(p) ==
    /\ Step(p, "run", "open")
    /\ state' = "Running"
    /\ UNCHANGED <<started, closed, engineVars, connVars, countVars>>

StartOpen(p) ==
    /\ pc[p] = "open" /\ Return(p)
    /\ started' = started + 1
    /\ UNCHANGED <<state, closed, engineVars, connVars, countVars>>

\* The deferred clean-up of a failed Start.
StartCancel(p) ==
    /\ Step(p, "startFailed", "startDestroy")
    /\ proxyCancelled' = TRUE
    /\ UNCHANGED <<lifeVars, engine, proxyWaitGroup, connVars, countVars>>

StartDestroy(p) ==
    /\ pc[p] = "startDestroy"
    /\ \/ \E i \in Live : /\ engine' = [engine EXCEPT ![i] = "destroyed"]
                          /\ Goto(p, "startDestroy")
       \/ Live = {} /\ engine' = engine /\ Goto(p, "startWorkers")
    /\ UNCHANGED <<lifeVars, proxyCancelled, proxyWaitGroup, connVars, countVars>>

StartWorkers(p) ==
    /\ Step(p, "startWorkers", "startChannels")
    /\ proxyWaitGroup = 0
    /\ state' = "Closed"
    /\ UNCHANGED <<started, closed, engineVars, connVars, countVars>>

StartChannels(p) ==
    /\ pc[p] = "startChannels" /\ Return(p)
    /\ started' = started + 1
    /\ closed' = closed + 1
    /\ UNCHANGED <<state, engineVars, connVars, countVars>>

StartStep(p) ==
    \/ StartEngine(p) \/ StartRun(p) \/ StartOpen(p) \/ StartCancel(p)
    \/ StartDestroy(p) \/ StartWorkers(p) \/ StartChannels(p)

-----------------------------------------------------------------------------
(* DialEarly                                                               *)

Dial(p) ==
    /\ pc[p] = "idle" /\ conn[p] = "none"
    /\ \/ state = "Running" /\ Goto(p, "admit")
       \/ state \in {"Closing", "Closed"} /\ Return(p)
       \/ state \in {"Created", "Starting"} /\ Goto(p, "dialWait")
    /\ UNCHANGED <<lifeVars, engineVars, connVars, countVars>>

\* Either context may end the wait, at any time.
DialWait(p) ==
    /\ pc[p] = "dialWait"
    /\ \/ started > 0 /\ state = "Running" /\ Goto(p, "admit")
       \/ started > 0 /\ state # "Running" /\ Return(p)
    /\ UNCHANGED <<lifeVars, engineVars, connVars, countVars>>

DialContextDone(p) ==
    /\ pc[p] = "dialWait" /\ Return(p)
    /\ UNCHANGED <<lifeVars, engineVars, connVars, countVars>>

\* Mutated: the state is not looked at again under lifecycleMu.
AdmitUnchecked(p) ==
    /\ pc[p] = "admit"
    /\ Goto(p, "create")
    /\ conn' = [conn EXCEPT ![p] = "reserved"]
    /\ activeOperations' = activeOperations + 1
    /\ activeConnections' = activeConnections + 1
    /\ UNCHANGED <<via, kicked, lifeVars, engineVars>>

\* Mutated: the connection is not counted.
AdmitUncounted(p) ==
    /\ pc[p] = "admit"
    /\ \/ Return(p) /\ UNCHANGED <<connVars, countVars>>
       \/ /\ state = "Running"
          /\ Goto(p, "create")
          /\ conn' = [conn EXCEPT ![p] = "reserved"]
          /\ activeOperations' = activeOperations + 1
          /\ UNCHANGED <<via, kicked, activeConnections>>
    /\ UNCHANGED <<lifeVars, engineVars>>

\* Under lifecycleMu: refuse, or reserve an operation and a connection.
Admit(p) ==
    /\ pc[p] = "admit"
    /\ \/ Return(p) /\ UNCHANGED <<connVars, countVars>>
       \/ /\ state = "Running"
          /\ Goto(p, "create")
          /\ conn' = [conn EXCEPT ![p] = "reserved"]
          /\ activeOperations' = activeOperations + 1
          /\ activeConnections' = activeConnections + 1
          /\ UNCHANGED <<via, kicked>>
    /\ UNCHANGED <<lifeVars, engineVars>>

CreateConn(p) ==
    /\ Step(p, "create", "hook")
    /\ conn' = [conn EXCEPT ![p] = "created"]
    /\ \E i \in Engines : via' = [via EXCEPT ![p] = i]
    /\ UNCHANGED <<lifeVars, engineVars, kicked, countVars>>

SetHook(p) ==
    /\ Step(p, "hook", "connStart")
    /\ conn' = [conn EXCEPT ![p] = "hooked"]
    /\ UNCHANGED <<lifeVars, engineVars, via, kicked, countVars>>

\* A refused start destroys the stream; its hook runs in this goroutine.
ConnStart(p) ==
    /\ pc[p] = "connStart"
    /\ \/ conn' = [conn EXCEPT ![p] = "running"] /\ Goto(p, "dialOk")
       \/ conn' = [conn EXCEPT ![p] = "destroyed"] /\ Goto(p, "dialRelease")
    /\ UNCHANGED <<lifeVars, engineVars, via, kicked, countVars>>

\* trackedNaiveConn.release
release(p) ==
    /\ conn[p] = "destroyed"
    /\ conn' = [conn EXCEPT ![p] = "none"]
    /\ kicked' = kicked \ {p}
    /\ activeConnections' = activeConnections - 1

DialRelease(p) ==
    /\ Step(p, "dialRelease", "dialFailed")
    /\ release(p)
    /\ UNCHANGED <<lifeVars, engineVars, via, activeOperations>>

\* defer activeOperations.Done()
DialDone(p) ==
    /\ pc[p] \in {"dialOk", "dialFailed"} /\ Return(p)
    /\ activeOperations' = activeOperations - 1
    /\ UNCHANGED <<lifeVars, engineVars, connVars, activeConnections>>

DialStep(p) ==
    \/ DialWait(p) \/ Admit(p) \/ CreateConn(p) \/ SetHook(p)
    \/ ConnStart(p) \/ DialRelease(p) \/ DialDone(p)

-----------------------------------------------------------------------------
(* CloseAllConnections                                                     *)

CloseAllConnections(p) ==
    /\ pc[p] = "idle"
    /\ IF state = "Running"
       THEN activeOperations' = activeOperations + 1 /\ Goto(p, "kick")
       ELSE UNCHANGED activeOperations /\ Return(p)
    /\ UNCHANGED <<lifeVars, engineVars, connVars, activeConnections>>

\* Engine.CloseAllConnections ends the streams running at that moment.
Kick(p) ==
    /\ Step(p, "kick", "kickDone")
    /\ kicked' = kicked \cup {q \in Dialers : conn[q] = "running"}
    /\ UNCHANGED <<lifeVars, engineVars, conn, via, countVars>>

KickDone(p) ==
    /\ pc[p] = "kickDone" /\ Return(p)
    /\ activeOperations' = activeOperations - 1
    /\ UNCHANGED <<lifeVars, engineVars, connVars, activeConnections>>

KickStep(p) == Kick(p) \/ KickDone(p)

-----------------------------------------------------------------------------
(* Close.  The state is loaded first and acted on later.                   *)

Close(p) ==
    /\ pc[p] = "idle"
    /\ Goto(p, "closeLoop")
    /\ UNCHANGED <<lifeVars, engineVars, connVars, countVars>>

CloseLoop(p) ==
    /\ pc[p] = "closeLoop"
    /\ \/ state = "Created" /\ Goto(p, "closeCreated")
       \/ state = "Starting" /\ Goto(p, "closeStarting")
       \/ state = "Running" /\ Goto(p, "closeRunning")
       \/ state = "Closing" /\ Goto(p, "closeClosing")
       \/ state = "Closed" /\ Return(p)
    /\ UNCHANGED <<lifeVars, engineVars, connVars, countVars>>

\* Mutated: a plain store where the code compares and swaps.
CloseCreatedStore(p) ==
    /\ pc[p] = "closeCreated"
    /\ state' = "Closed" /\ Goto(p, "closeChannels")
    /\ UNCHANGED <<started, closed, engineVars, connVars, countVars>>

\* CompareAndSwap(Created, Closed), or around the loop
CloseCreated(p) ==
    /\ pc[p] = "closeCreated"
    /\ IF state = "Created"
       THEN state' = "Closed" /\ Goto(p, "closeChannels")
       ELSE state' = state /\ Goto(p, "closeLoop")
    /\ UNCHANGED <<started, closed, engineVars, connVars, countVars>>

CloseChannels(p) ==
    /\ pc[p] = "closeChannels" /\ Return(p)
    /\ started' = started + 1
    /\ closed' = closed + 1
    /\ UNCHANGED <<state, engineVars, connVars, countVars>>

CloseStarting(p) ==
    /\ Step(p, "closeStarting", "closeLoop")
    /\ started > 0
    /\ UNCHANGED <<lifeVars, engineVars, connVars, countVars>>

\* Under lifecycleMu: CompareAndSwap(Running, Closing), or around the loop
CloseRunning(p) ==
    /\ pc[p] = "closeRunning"
    /\ IF state = "Running"
       THEN state' = "Closing" /\ Goto(p, "cancelProxy")
       ELSE state' = state /\ Goto(p, "closeLoop")
    /\ UNCHANGED <<started, closed, engineVars, connVars, countVars>>

CloseClosing(p) ==
    /\ pc[p] = "closeClosing"
    /\ closed > 0
    /\ Return(p)
    /\ UNCHANGED <<lifeVars, engineVars, connVars, countVars>>

-----------------------------------------------------------------------------
(* doClose                                                                 *)

CancelProxy(p) ==
    /\ Step(p, "cancelProxy", "waitOperations")
    /\ proxyCancelled' = TRUE
    /\ UNCHANGED <<lifeVars, engine, proxyWaitGroup, connVars, countVars>>

WaitOperations(p) ==
    /\ Step(p, "waitOperations", "closeSockets")
    /\ activeOperations = 0
    /\ UNCHANGED <<lifeVars, engineVars, connVars, countVars>>

\* Mutated: the engines' sockets stay open.
CloseNoSockets(p) ==
    /\ Step(p, "closeSockets", "waitConnections")
    /\ UNCHANGED <<lifeVars, engineVars, connVars, countVars>>

CloseSockets(p) ==
    /\ Step(p, "closeSockets", "waitConnections")
    /\ kicked' = kicked \cup {q \in Dialers : conn[q] = "running"}
    /\ UNCHANGED <<lifeVars, engineVars, conn, via, countVars>>

\* Mutated: no wait for the connections.
SkipConnections(p) ==
    /\ Step(p, "waitConnections", "shutdown")
    /\ UNCHANGED <<lifeVars, engineVars, connVars, countVars>>

WaitConnections(p) ==
    /\ Step(p, "waitConnections", "shutdown")
    /\ activeConnections = 0
    /\ UNCHANGED <<lifeVars, engineVars, connVars, countVars>>

\* Shutdown joins the engine's network thread, Destroy frees the engine.
Shutdown(p) ==
    /\ pc[p] = "shutdown"
    /\ \/ \E i \in Live : /\ engine' = [engine EXCEPT ![i] = "destroyed"]
                          /\ Goto(p, "shutdown")
       \/ Live = {} /\ engine' = engine /\ Goto(p, "waitWorkers")
    /\ UNCHANGED <<lifeVars, proxyCancelled, proxyWaitGroup, connVars, countVars>>

WaitWorkers(p) ==
    /\ Step(p, "waitWorkers", "closeDone")
    /\ proxyWaitGroup = 0
    /\ state' = "Closed"
    /\ UNCHANGED <<started, closed, engineVars, connVars, countVars>>

CloseDone(p) ==
    /\ pc[p] = "closeDone" /\ Return(p)
    /\ closed' = closed + 1
    /\ UNCHANGED <<state, started, engineVars, connVars, countVars>>

doClose(p) ==
    \/ CancelProxy(p) \/ WaitOperations(p) \/ CloseSockets(p)
    \/ WaitConnections(p) \/ Shutdown(p) \/ WaitWorkers(p) \/ CloseDone(p)

CloseStep(p) ==
    \/ CloseLoop(p) \/ CloseCreated(p) \/ CloseChannels(p) \/ CloseStarting(p)
    \/ CloseRunning(p) \/ CloseClosing(p) \/ doClose(p)

-----------------------------------------------------------------------------
(* The engines' network threads and the workers they start.                *)

\* The terminal callback of a connection: its stream's destruction is queued,
\* then the terminate hook runs.
ConnTerminal(p) ==
    /\ conn[p] = "running"
    /\ conn' = [conn EXCEPT ![p] = "destroyed"]
    /\ UNCHANGED <<lifeVars, pc, returned, engineVars, via, kicked, countVars>>

ConnRelease(p) ==
    /\ pc[p] # "dialRelease"
    /\ release(p)
    /\ UNCHANGED <<lifeVars, pc, returned, engineVars, via, activeOperations>>

\* tcpDialer or udpDialer is called for a socket and starts a worker.
DialerCallback ==
    /\ Live # {}
    /\ proxyWaitGroup < MaxWorkers
    /\ proxyWaitGroup' = proxyWaitGroup + 1
    /\ UNCHANGED <<lifeVars, pc, returned, engine, proxyCancelled, connVars,
                   countVars>>

WorkerDone ==
    /\ proxyWaitGroup > 0
    /\ proxyWaitGroup' = proxyWaitGroup - 1
    /\ UNCHANGED <<lifeVars, pc, returned, engine, proxyCancelled, connVars,
                   countVars>>

Next ==
    \/ \E p \in Starters : Start(p) \/ StartStep(p)
    \/ \E p \in Dialers : \/ Dial(p) \/ DialStep(p) \/ DialContextDone(p)
                          \/ ConnTerminal(p) \/ ConnRelease(p)
    \/ \E p \in Kickers : CloseAllConnections(p) \/ KickStep(p)
    \/ \E p \in Closers : Close(p) \/ CloseStep(p)
    \/ DialerCallback \/ WorkerDone

Spec == Init /\ [][Next]_vars

\* A call in progress goes on.  Streams end once their sockets are closed and
\* workers once their context is cancelled; nothing obliges a healthy stream
\* or worker to end, or anybody to call Start or Close.
Fairness ==
    /\ \A p \in Starters : WF_vars(StartStep(p))
    /\ \A p \in Dialers : /\ WF_vars(DialStep(p))
                          /\ WF_vars(p \in kicked /\ ConnTerminal(p))
                          /\ WF_vars(ConnRelease(p))
    /\ \A p \in Kickers : WF_vars(KickStep(p))
    /\ \A p \in Closers : WF_vars(CloseStep(p))
    /\ WF_vars(proxyCancelled /\ WorkerDone)

FairSpec == Spec /\ Fairness

-----------------------------------------------------------------------------
(* Properties.                                                             *)

StartLabels == {"startEngine", "run", "open", "startFailed", "startDestroy",
                "startWorkers", "startChannels"}
DialLabels == {"dialWait", "admit", "create", "hook", "connStart", "dialOk",
               "dialRelease", "dialFailed"}
KickLabels == {"kick", "kickDone"}
CloseLabels == {"closeLoop", "closeCreated", "closeChannels", "closeStarting",
                "closeRunning", "closeClosing", "cancelProxy",
                "waitOperations", "closeSockets", "waitConnections",
                "shutdown", "waitWorkers", "closeDone"}

\* Every variable stays within its type; no wait group goes negative, and neither
\* c.started nor c.closed is closed twice, which would panic.
TypeOK ==
    /\ state \in {"Created", "Starting", "Running", "Closing", "Closed"}
    /\ pc \in [Goroutines -> {"idle"} \cup StartLabels \cup DialLabels
                                \cup KickLabels \cup CloseLabels]
    /\ returned \subseteq Closers
    /\ started \in 0..1 /\ closed \in 0..1
    /\ engine \in [Engines -> {"none", "live", "destroyed"}]
    /\ conn \in [Dialers -> {"none", "reserved", "created", "hooked",
                             "running", "destroyed"}]
    /\ via \in [Dialers -> Engines]
    /\ activeOperations \in Nat /\ activeConnections \in Nat
    /\ proxyWaitGroup \in Nat
    /\ proxyCancelled \in BOOLEAN
    /\ kicked \subseteq Dialers

\* No native engine is used before it runs or after it was destroyed: not by a
\* dial creating a stream, not by a stream, not by CloseAllConnections.
EngineAlive ==
    /\ \A p \in Goroutines :
          pc[p] \in {"create", "hook", "connStart", "kick", "closeSockets"}
             => Live = Engines
    /\ \A p \in Dialers :
          conn[p] \in {"created", "hooked", "running"}
             => engine[via[p]] = "live"

OperationLabels == {"create", "hook", "connStart", "dialOk", "dialRelease",
                    "dialFailed", "kick", "kickDone"}

\* The wait groups count what they stand for, every admitted operation and every
\* connection from its reservation to its one release; so that when any call of
\* Close has returned, whichever of its paths it took, nothing of the client is
\* left: no engine, operation, connection or worker.
CloseMeansGone ==
    /\ activeOperations =
          Cardinality({p \in Goroutines : pc[p] \in OperationLabels})
    /\ activeConnections = Cardinality({p \in Dialers : conn[p] # "none"})
    /\ returned # {} =>
          /\ Live = {}
          /\ activeOperations = 0 /\ activeConnections = 0
          /\ proxyWaitGroup = 0

At(labels) == \E p \in Goroutines : pc[p] \in labels

\* A wait group is never added to once the shutdown has waited for it.
AddsNoneLate ==
    /\ At({"closeSockets", "waitConnections", "shutdown", "waitWorkers",
           "closeDone"}) => activeOperations' <= activeOperations
    /\ At({"shutdown", "waitWorkers", "closeDone"}) =>
          activeConnections' <= activeConnections
    /\ At({"waitWorkers", "closeDone", "startWorkers", "startChannels"}) =>
          proxyWaitGroup' <= proxyWaitGroup
NoLateAdd == [][AddsNoneLate]_vars

\* No call hangs: Close returns whatever Start, dials and other closes are doing,
\* Start does also when an engine fails to start, and a dial that waits for the
\* client does not outlast its start.
CallsReturn ==
    /\ \A p \in Closers : (pc[p] = "closeLoop") ~> (pc[p] = "idle")
    /\ \A p \in Starters : (pc[p] = "startEngine") ~> (pc[p] = "idle")
    /\ \A p \in Dialers :
          (pc[p] = "dialWait" /\ state # "Created") ~> (pc[p] = "idle")

-----------------------------------------------------------------------------
(* The inductive invariant behind EngineAlive, CloseMeansGone and          *)
(* NoLateAdd.                                                              *)

\* Whoever is at one of these labels decides what becomes of the client.
StartOwner == {"startEngine", "run", "startFailed", "startDestroy",
               "startWorkers"}
CloseOwner == {"cancelProxy", "waitOperations", "closeSockets",
               "waitConnections", "shutdown", "waitWorkers"}
LastOwner  == {"startChannels", "closeChannels", "closeDone"}
OpenOwner  == {"open", "startChannels", "closeChannels"}
Owner      == StartOwner \cup CloseOwner \cup LastOwner

\* Only the owner of a phase is in it, and what is closed later is open now.
Phase ==
    /\ At(StartOwner) => state = "Starting"
    /\ At(CloseOwner) => state = "Closing"
    /\ At(LastOwner) => state = "Closed" /\ closed = 0
    /\ At(OpenOwner) =>
          started = 0 /\ state \in {"Running", "Closing", "Closed"}
    /\ state \in {"Created", "Starting"} => started = 0
    /\ state # "Closed" => closed = 0
    /\ returned # {} => state = "Closed"

\* There is one owner at most, and one who opens c.started at most.
OneAt(labels) ==
    \A p, q \in Goroutines : pc[p] \in labels /\ pc[q] \in labels => p = q
Unique == OneAt(Owner) /\ OneAt(StartOwner \cup OpenOwner)

\* How far a dial has come tells how far its connection has.
Progress ==
    \A p \in Dialers :
        /\ pc[p] \in {"dialWait", "admit"} => conn[p] = "none"
        /\ (pc[p] = "create") <=> (conn[p] = "reserved")
        /\ (pc[p] = "hook") <=> (conn[p] = "created")
        /\ (pc[p] = "connStart") <=> (conn[p] = "hooked")
        /\ pc[p] = "dialRelease" => conn[p] = "destroyed"

\* Each kind of call is made by the goroutines that make it.
Roles ==
    \A p \in Goroutines :
        /\ pc[p] \in DialLabels => p \in Dialers
        /\ pc[p] \in CloseLabels => p \in Closers
        /\ pc[p] \in StartLabels \cup KickLabels => p \notin Closers

\* The wait groups are exact.
Counted ==
    /\ activeOperations =
          Cardinality({p \in Goroutines : pc[p] \in OperationLabels})
    /\ activeConnections = Cardinality({p \in Dialers : conn[p] # "none"})

\* No operation, connection or worker is left where a wait has seen none.
NoOperations ==
    \/ state \in {"Created", "Starting", "Closed"}
    \/ At({"closeSockets", "waitConnections", "shutdown", "waitWorkers"})
NoConnections ==
    \/ state \in {"Created", "Starting", "Closed"}
    \/ At({"shutdown", "waitWorkers"})
Quiet ==
    /\ NoOperations => activeOperations = 0
    /\ NoConnections => activeConnections = 0
    /\ state \in {"Created", "Closed"} => proxyWaitGroup = 0

\* Which engines are alive in which phase.
AllLive ==
    \/ state = "Running" \/ At({"run"})
    \/ state = "Closing" /\ ~At({"shutdown", "waitWorkers"})
NoneLive ==
    state \in {"Created", "Closed"} \/ At({"startWorkers", "waitWorkers"})
EnginesOf ==
    /\ AllLive => Live = Engines
    /\ NoneLive => Live = {}
    /\ At({"startEngine"}) => \E n \in 0..(EngineCount - 1) : Live = 1..n

IInv ==
    /\ TypeOK /\ Phase /\ Unique /\ Progress /\ Roles /\ Counted /\ Quiet
    /\ EnginesOf

=============================================================================
