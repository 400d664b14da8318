----------------------------- MODULE MCBindings -----------------------------
(***************************************************************************)
(* Model-checking instance of what binds Go to the native library: the     *)
(* loader, the registries of handlers, and the RoundTripper that owns an   *)
(* engine.  A behaviour exercises one of them; the others stay in an       *)
(* initial state.                                                          *)
(***************************************************************************)
EXTENDS CallbackRegistry, TLC

CONSTANTS Goroutines, Callers

VARIABLES
    part,
    world, libHandle, once, loadError, registered, position, created, loaderPc, op,
    setup, initOnce, initErr, engine, executor, closing, held, callPc, ctx, body,
    native, failed, status, monitor, worker

-----------------------------------------------------------------------------
(* Situations of the loader.                                               *)

Library(loads, missing) == [loads |-> loads, missing |-> missing]
Complete == Library(TRUE, {})
Corrupt  == Library(FALSE, {})
Lacks(symbols) == Library(TRUE, symbols)

Machine(platform, files) ==
    [platform |-> platform, files |-> files, executable |-> <<"exe">>,
     ldPath |-> <<"ld">>, dyldPath |-> <<"dyld">>, path |-> <<"bin">>]

\* A good library before one that lacks its first symbol, one that lacks a later
\* symbol before a good one, a directory that Linux does not look into, a library
\* that does not load, the two symbols that may be missing, the one that Windows
\* registers last.
Situations ==
    {Machine("linux", "ld" :> Complete @@
                      "/usr/lib" :> Lacks({<<"Buffer", "Create">>})),
     Machine("linux", "exe" :> Lacks({<<"UploadDataSink", "Method">>}) @@
                      "/usr/lib" :> Complete),
     Machine("linux", "dyld" :> Complete),
     Machine("darwin", "dyld" :> Lacks({<<"Engine", "StrictECH">>,
                                        <<"Engine", "Reality">>}) @@
                       "ld" :> Corrupt),
     Machine("windows", "bin" :> Lacks({<<"Engine", "Reality">>}) @@
                        "exe" :> Corrupt),
     Machine("windows", "bin" :> Lacks({<<"EngineParams", "Priority">>}))}

\* Every registry of both builds.
AllRegistries ==
    {"StreamCgo", "StreamPurego", "RequestCgo", "RequestPurego",
     "RequestPurego32", "ExecutorCgo", "ExecutorPurego", "RunnableCgo",
     "RunnablePurego", "ProviderCgo", "ProviderPurego", "BufferCgo",
     "BufferPurego", "StatusCgo", "StatusPurego", "FinishedCgo",
     "FinishedPurego", "DialerCgo", "DialerPurego", "BufferMock", "SinkMock",
     "EngineMock", "RequestMock"}

\* Everything owned or one part given, and an engine that does not start.
Setups == {[engine |-> "own", executor |-> "own"],
           [engine |-> "given", executor |-> "own"],
           [engine |-> "own", executor |-> "given"],
           [engine |-> "no start", executor |-> "own"]}

-----------------------------------------------------------------------------
Loader == INSTANCE LibraryLoader WITH pc <- loaderPc
Trip   == INSTANCE RoundTripper WITH pc <- callPc

ASSUME PartsAssumption == Trip!SetupsAssumption

loaderVars == <<world, libHandle, once, loadError, registered, position,
                created, loaderPc, op>>
tripVars == <<setup, initOnce, initErr, engine, executor, closing, held,
              callPc, ctx, body, native, failed, status, monitor, worker>>
all == <<part, vars, loaderVars, tripVars>>

SumInit ==
    /\ part \in {"loader", "registry", "trip"}
    /\ Init /\ Loader!Init /\ Trip!Init
    /\ part # "loader" => world = Machine("linux", "dyld" :> Complete)
    /\ part # "registry" => /\ kind = "StreamCgo"
                            /\ \A u \in Users : user[u].addr = CHOOSE a \in Addresses : TRUE
    /\ part # "trip" => setup = [engine |-> "own", executor |-> "own"]

SumNext ==
    /\ UNCHANGED part
    /\ \/ part = "loader" /\ Loader!Next /\ UNCHANGED <<vars, tripVars>>
       \/ part = "registry" /\ Next /\ UNCHANGED <<loaderVars, tripVars>>
       \/ part = "trip" /\ Trip!Next /\ UNCHANGED <<vars, loaderVars>>

SumSpec == SumInit /\ [][SumNext]_all

-----------------------------------------------------------------------------
\* Every variable of every part stays within its type.
TypesOK ==
    CASE part = "registry" -> TypeOK
      [] part = "loader"   -> Loader!TypeOK
      [] part = "trip"     -> Trip!TypeOK

\* No function variable is called while it is nil: once an object exists the
\* library is loaded, for good and for all.
NoNilCall == part = "loader" => Loader!NoNilCall /\ Loader!LoadedForGood

\* Engine and executor are given up after the last request (RoundTripper).
Outlives == part = "trip" => Trip!Outlives

\* A caller with a final answer may destroy the engine it has lent.
Settled == part = "trip" => Trip!Settled

=============================================================================
