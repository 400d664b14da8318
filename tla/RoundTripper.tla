---------------------------- MODULE RoundTripper ----------------------------
(***************************************************************************)
(* RoundTripper and urlResponse of transport.go: an http.RoundTripper that *)
(* may own the engine and the executor it uses, and gives them up in a     *)
(* finalizer.  Whether the finalizer may run is a question of who can      *)
(* still reach the RoundTripper: its user, calls of RoundTrip, responses,  *)
(* the goroutines that watch contexts, and, through the registries of the  *)
(* native library, every request that is not cleaned up.                   *)
(*                                                                         *)
(* A request is seen from outside; StreamingRequest has its inside.        *)
(***************************************************************************)
EXTENDS FiniteSets

CONSTANTS
    Callers,    \* goroutines, each makes one call of RoundTrip
    Setups      \* what a run explores of AllSetups

VARIABLES
    setup,              \* what is given and what works, see Setups
    initOnce, initErr,      \* t.initOnce, t.initErr
    engine, executor,   \* "none", "up", "gone"
    closing,            \* of t.close: "no", "workers", "done"
    held,               \* the user still has t
    pc, ctx, body,      \* each call, whether its context is done, its body
    native, failed,     \* the request: its native object; r.err is set
    status,             \* response.StatusCode: "none", that of a "refused"
                        \* redirect, or "final"
    monitor,            \* monitorContext runs
    worker              \* the goroutine that runs the request's last function

sharedVars  == <<setup, initOnce, initErr, engine, executor, closing, held>>
callVars    == <<pc, ctx, body>>
requestVars == <<native, failed, status, monitor, worker>>
vars == <<sharedVars, callVars, requestVars>>

\* The user gives an engine or an executor, or leaves them to the RoundTripper;
\* then the library may be missing, or an engine fail to start.
AllSetups == [engine : {"given", "own", "no library", "no start"},
              executor : {"given", "own"}]
Own(what) == setup[what] = "own"

SetupsAssumption == Setups \subseteq AllSetups

Init ==
    /\ setup \in Setups
    /\ initOnce = FALSE /\ initErr = "nil"
    /\ engine = IF setup.engine = "given" THEN "up" ELSE "none"
    /\ executor = IF setup.executor = "given" THEN "up" ELSE "none"
    /\ closing = "no" /\ held = TRUE
    /\ pc = [c \in Callers |-> "idle"]
    /\ ctx = [c \in Callers |-> FALSE]
    /\ body = [c \in Callers |-> "open"]
    /\ native = [c \in Callers |-> "none"]
    /\ failed = [c \in Callers |-> FALSE]
    /\ status = [c \in Callers |-> "none"]
    /\ monitor = [c \in Callers |-> FALSE]
    /\ worker = [c \in Callers |-> "none"]

Goto(c, label)    == pc' = [pc EXCEPT ![c] = label]
Becomes(c, state) == native' = [native EXCEPT ![c] = state]
CloseBody(c)      == body' = [body EXCEPT ![c] = "closed"]
Error(c)          == failed' = [failed EXCEPT ![c] = TRUE]

\* r.done is closed by cleanup, response.ready by the first of onResponse and
\* onDone.
done(c)  == native[c] = "destroyed"
ready(c) == status[c] = "final" \/ (done(c) /\ worker[c] # "onDone")

-----------------------------------------------------------------------------
(* RoundTrip.                                                              *)

RoundTrip(c) ==
    /\ pc[c] = "idle" /\ held
    /\ IF ctx[c]
       THEN Goto(c, "over") /\ CloseBody(c)
       ELSE Goto(c, "once") /\ UNCHANGED body
    /\ UNCHANGED <<sharedVars, ctx, requestVars>>

\* Once, while the other callers wait.  An engine that does not start is
\* destroyed, and the executor is left alone.
initialize(c) ==
    /\ pc[c] = "once" /\ ~initOnce
    /\ initOnce' = TRUE
    /\ IF setup.engine \in {"no library", "no start"}
       THEN initErr' = setup.engine /\ UNCHANGED <<engine, executor>>
       ELSE engine' = "up" /\ executor' = "up" /\ UNCHANGED initErr
    /\ UNCHANGED <<setup, closing, held, callVars, requestVars>>

Initialized(c) ==
    /\ pc[c] = "once" /\ initOnce
    /\ IF initErr # "nil"
       THEN Goto(c, "over") /\ CloseBody(c)
       ELSE Goto(c, "create") /\ UNCHANGED body
    /\ UNCHANGED <<sharedVars, ctx, requestVars>>

\* What finish does to a request that fails on the way.
Fails(c) == Error(c) /\ Becomes(c, "over") /\ CloseBody(c) /\ Goto(c, "closing")

\* newStreamingRequestWithCache
NewRequest(c) ==
    /\ pc[c] = "create"
    /\ \/ Becomes(c, "created") /\ Goto(c, "start") /\ UNCHANGED <<failed, body>>
       \/ Fails(c)
    /\ UNCHANGED <<sharedVars, ctx, status, monitor, worker>>

Start(c) ==
    /\ pc[c] = "start"
    /\ \/ /\ Becomes(c, "running") /\ Goto(c, "select")
          /\ monitor' = [monitor EXCEPT ![c] = TRUE]
          /\ UNCHANGED <<failed, body>>
       \/ Fails(c) /\ UNCHANGED monitor
    /\ UNCHANGED <<sharedVars, ctx, status, worker>>

\* The select of RoundTrip.  A request that is done without a status has failed.
SelectReady(c) ==
    /\ pc[c] = "select" /\ ready(c)
    /\ IF status[c] # "none"
       THEN /\ Goto(c, "have")
            /\ UNCHANGED failed
       ELSE Goto(c, "closing") /\ Error(c)
    /\ UNCHANGED <<sharedVars, ctx, body, native, status, monitor, worker>>

SelectContext(c) ==
    /\ pc[c] = "select" /\ ctx[c]
    /\ Error(c)
    /\ Goto(c, "closing")
    /\ UNCHANGED <<sharedVars, ctx, body, native, status, monitor, worker>>

\* r.close and the other waits for r.done
AwaitDone(c) ==
    /\ pc[c] = "closing" /\ done(c)
    /\ Goto(c, IF failed[c] THEN "over" ELSE "nothing")
    /\ UNCHANGED <<sharedVars, ctx, body, requestVars>>

-----------------------------------------------------------------------------
(* The response.                                                           *)

\* Mutated: an error of Read does not wait for the request.
ReadEndsEarly(c) ==
    /\ pc[c] = "have" /\ (failed[c] \/ ctx[c])
    /\ Error(c)
    /\ Goto(c, "over")
    /\ UNCHANGED <<sharedVars, ctx, body, native, status, monitor, worker>>

\* urlResponse.Read with an error, EOF included, closes the request.
ReadEnds(c) ==
    /\ pc[c] = "have" /\ (failed[c] \/ ctx[c])
    /\ Error(c)
    /\ Goto(c, "closing")
    /\ UNCHANGED <<sharedVars, ctx, body, native, status, monitor, worker>>

Close(c) ==
    /\ pc[c] = "have"
    /\ Error(c)
    /\ Goto(c, "closing")
    /\ UNCHANGED <<sharedVars, ctx, body, native, status, monitor, worker>>

\* monitorContext
MonitorContext(c) ==
    /\ monitor[c]
    /\ \/ done(c) /\ UNCHANGED failed
       \/ ctx[c] /\ Error(c)
    /\ monitor' = [monitor EXCEPT ![c] = FALSE]
    /\ UNCHANGED <<sharedVars, callVars, native, status, worker>>

-----------------------------------------------------------------------------
(* The request: functions of its serial executor, one at a time.           *)

\* What cancelWithError submits.
CancelRuns(c) ==
    /\ native[c] = "running" /\ failed[c]
    /\ Becomes(c, "cancelled") /\ CloseBody(c)
    /\ UNCHANGED <<sharedVars, pc, ctx, failed, status, monitor, worker>>

\* A redirect that CheckRedirect refuses ends the request; it is the response,
\* without a body, once the request is cleaned up.
onRedirect(c) ==
    /\ native[c] = "running" /\ status[c] = "none"
    /\ Becomes(c, "cancelled") /\ CloseBody(c)
    /\ status' = [status EXCEPT ![c] = "refused"]
    /\ Error(c)
    /\ UNCHANGED <<sharedVars, pc, ctx, monitor, worker>>

onResponse(c) ==
    /\ native[c] = "running" /\ status[c] = "none"
    /\ status' = [status EXCEPT ![c] = "final"]
    /\ UNCHANGED <<sharedVars, callVars, native, failed, monitor, worker>>

\* The terminal callback; r.err is EOF at best.
finish(c) ==
    /\ native[c] \in {"running", "cancelled"}
    /\ Error(c) /\ Becomes(c, "over") /\ CloseBody(c)
    /\ UNCHANGED <<sharedVars, pc, ctx, status, monitor, worker>>

cleanup(c) ==
    /\ native[c] = "over"
    /\ Becomes(c, "destroyed")
    /\ worker' = [worker EXCEPT ![c] = "onDone"]
    /\ UNCHANGED <<sharedVars, callVars, failed, status, monitor>>

onDone(c) ==
    /\ worker[c] = "onDone"
    /\ worker' = [worker EXCEPT ![c] = "returning"]
    /\ UNCHANGED <<sharedVars, callVars, native, failed, status, monitor>>

\* command.Run returns, command.Destroy, workers.Done
WorkerDone(c) ==
    /\ worker[c] = "returning"
    /\ worker' = [worker EXCEPT ![c] = "none"]
    /\ UNCHANGED <<sharedVars, callVars, native, failed, status, monitor>>

-----------------------------------------------------------------------------
(* The user, and the garbage collector.                                    *)

\* A call that is over does not care any more.
ContextDone(c) ==
    /\ ~ctx[c] /\ pc[c] # "over"
    /\ ctx' = [ctx EXCEPT ![c] = TRUE]
    /\ UNCHANGED <<sharedVars, pc, body, requestVars>>

\* The response is dropped without Close.
DropResponse(c) ==
    /\ pc[c] = "have"
    /\ Goto(c, "dropped")
    /\ UNCHANGED <<sharedVars, ctx, body, requestVars>>

Forget ==
    /\ held /\ held' = FALSE
    /\ UNCHANGED <<setup, initOnce, initErr, engine, executor, closing, callVars,
                   requestVars>>

\* Who refers to whom.  A response has roundTripper and request; a request has
\* the response in onDone, onResponse and onRedirect.
T == <<"t">>
response(c) == <<"response", c>>
request(c)  == <<"request", c>>

\* Mutated: a response without the field roundTripper.
RequestOnly(o) ==
    UNION {IF o = response(c) THEN {request(c)}
           ELSE IF o = request(c) THEN {response(c)} ELSE {} : c \in Callers}

RefersTo(o) ==
    UNION {IF o = response(c) THEN {T, request(c)}
           ELSE IF o = request(c) THEN {response(c)} ELSE {} : c \in Callers}

\* The user, the frames of calls, the goroutine of monitorContext, the registry
\* of callbacks until cleanup, and the worker that runs cleanup.  What the
\* registry of executors holds captures a WaitGroup and not the RoundTripper.
Roots ==
    (IF held THEN {T} ELSE {}) \cup UNION {
        (IF pc[c] = "once" THEN {T} ELSE {}) \cup
        (IF pc[c] \in {"create", "have"} \/ monitor[c] THEN {response(c)} ELSE {}) \cup
        (IF \/ pc[c] \in {"start", "select", "closing"}
            \/ native[c] \notin {"none", "destroyed"} \/ worker[c] = "onDone"
         THEN {request(c)} ELSE {})
        : c \in Callers}

Follow(S)  == S \cup UNION {RefersTo(o) : o \in S}
Reachable  == T \in Follow(Follow(Roots))

\* The finalizer: Shutdown and Destroy of an engine of its own ...
close ==
    /\ ~Reachable /\ initOnce /\ initErr = "nil" /\ closing = "no"
    /\ Own("engine") \/ Own("executor")
    /\ engine' = IF Own("engine") THEN "gone" ELSE engine
    /\ closing' = IF Own("executor") THEN "workers" ELSE "done"
    /\ UNCHANGED <<setup, initOnce, initErr, executor, held, callVars, requestVars>>

\* ... and, when its workers have returned, of an executor of its own.
closeWorkers ==
    /\ closing = "workers" /\ \A c \in Callers : worker[c] = "none"
    /\ executor' = "gone" /\ closing' = "done"
    /\ UNCHANGED <<setup, initOnce, initErr, engine, held, callVars, requestVars>>

Next ==
    \/ \E c \in Callers :
         \/ RoundTrip(c) \/ initialize(c) \/ Initialized(c)
         \/ NewRequest(c) \/ Start(c)
         \/ SelectReady(c) \/ SelectContext(c) \/ AwaitDone(c)
         \/ ReadEnds(c) \/ Close(c) \/ MonitorContext(c)
         \/ CancelRuns(c) \/ onRedirect(c) \/ onResponse(c)
         \/ finish(c) \/ cleanup(c) \/ onDone(c) \/ WorkerDone(c)
         \/ ContextDone(c) \/ DropResponse(c)
    \/ Forget \/ close \/ closeWorkers

Spec == Init /\ [][Next]_vars

-----------------------------------------------------------------------------
(* Properties.                                                             *)

\* Every variable stays within its type.
TypeOK ==
    /\ setup \in AllSetups /\ initOnce \in BOOLEAN /\ held \in BOOLEAN
    /\ initErr \in {"nil", "no library", "no start"}
    /\ engine \in {"none", "up", "gone"} /\ executor \in {"none", "up", "gone"}
    /\ closing \in {"no", "workers", "done"}
    /\ pc \in [Callers -> {"idle", "once", "create", "start", "select", "have",
                           "closing", "dropped", "over", "nothing"}]
    /\ ctx \in [Callers -> BOOLEAN] /\ body \in [Callers -> {"open", "closed"}]
    /\ native \in [Callers -> {"none", "created", "running", "cancelled",
                               "over", "destroyed"}]
    /\ \A f \in {failed, monitor} : f \in [Callers -> BOOLEAN]
    /\ status \in [Callers -> {"none", "refused", "final"}]
    /\ worker \in [Callers -> {"none", "onDone", "returning"}]

\* The finalizer takes nothing from a request: engine and executor are there as
\* long as a native request or one of its functions is, whoever has dropped the
\* RoundTripper, the response or both in the meantime.  And nothing stands in its
\* way when the user has dropped it and all its calls have come to their end.
Outlives ==
    /\ \A c \in Callers :
         /\ native[c] \notin {"none", "destroyed"} =>
                engine = "up" /\ executor = "up"
         /\ worker[c] # "none" => executor = "up"
    /\ (/\ ~held
        /\ \A c \in Callers : /\ pc[c] \in {"idle", "over", "dropped"}
                               /\ native[c] \in {"none", "destroyed"}
                               /\ worker[c] = "none" /\ ~monitor[c])
       => ~Reachable

\* A caller with a final answer, that is an error of RoundTrip, an error or EOF
\* of Read, or the return of Close, may destroy an engine it has lent: the
\* native request is gone and the body of the request closed.  So may one who
\* has got a refused redirect for a response.  And RoundTrip returns a response
\* or an error.
Settled ==
    \A c \in Callers :
        /\ pc[c] = "over" => /\ native[c] \in {"none", "destroyed"}
                             /\ body[c] = "closed"
        /\ pc[c] # "nothing"
        /\ pc[c] = "have" /\ status[c] = "refused" => done(c)

-----------------------------------------------------------------------------
(* The inductive invariant behind Outlives and Settled.                    *)

\* A call is where its request is: none before it was made, a created one until
\* it is started, a response only with a status, an end only with an error.
Calls ==
    \A c \in Callers :
        /\ pc[c] \in {"idle", "once", "create"} => native[c] = "none"
        /\ pc[c] = "start" <=> native[c] = "created"
        /\ pc[c] \in {"select", "have", "closing", "dropped"} => native[c] # "none"
        /\ pc[c] \in {"have", "dropped"} => status[c] # "none"
        /\ pc[c] = "closing" => failed[c]

\* A request that does not run any more has failed and its body is closed; its
\* worker and its monitor come after what they wait for.
Requests ==
    \A c \in Callers :
        /\ native[c] \in {"cancelled", "over", "destroyed"} =>
               failed[c] /\ body[c] = "closed"
        /\ native[c] \in {"none", "created"} => status[c] = "none" /\ ~monitor[c]
        /\ status[c] = "refused" => native[c] # "running"
        /\ worker[c] # "none" => native[c] = "destroyed"

\* Nothing refers to the RoundTripper.
Unreferenced ==
    /\ ~held
    /\ \A c \in Callers :
          /\ pc[c] \notin {"once", "create", "start", "select", "have", "closing"}
          /\ native[c] \in {"none", "destroyed"}
          /\ worker[c] # "onDone" /\ ~monitor[c]

\* Who has come past initialize finds what it has made, until the finalizer takes
\* it; and what the finalizer has seen unreferenced stays so.
Finalizer ==
    /\ \A c \in Callers : pc[c] = "create" \/ native[c] # "none" =>
           initOnce /\ initErr = "nil"
    /\ initOnce /\ initErr = "nil" =>
           /\ engine = "up" \/ closing # "no"
           /\ executor = "up" \/ (closing = "done" /\ Own("executor"))
    /\ closing # "no" => Unreferenced /\ initOnce /\ initErr = "nil"
    /\ closing = "workers" => Own("executor")
    /\ closing = "done" /\ Own("executor") => \A c \in Callers : worker[c] = "none"

IInv == TypeOK /\ Calls /\ Requests /\ Finalizer /\ Settled

=============================================================================
