---------------------------- MODULE LibraryLoader ----------------------------
(***************************************************************************)
(* Loading the native library in the purego build.  Every native function  *)
(* is a Go function variable, nil until the loader has found its symbol.   *)
(* Loading happens once, in whichever goroutine asks first, with the path  *)
(* that goroutine brings; it stops at the first symbol that is missing and *)
(* leaves the variables behind it nil.  The wrappers trust that this never *)
(* shows: only those that create an object make sure that the library is   *)
(* loaded, the others are called on an object and call the variable as it  *)
(* is, and two optional functions are compared with nil.                   *)
(*                                                                         *)
(* The functions of an object other than its constructor are one symbol,   *)
(* "Method": missing when one of them is.                                  *)
(***************************************************************************)
EXTENDS Naturals, Sequences, SequencesExt

CONSTANTS
  Goroutines,   \* goroutines that use the library
  Situations    \* platforms, files and libraries a run explores

VARIABLES
  world,       \* the platform, search paths and directories with a library
  libHandle,   \* the directory whose library was opened, or ""
  once,        \* loadOnce: "new", "running" or "done"
  loadError,   \* nil or the reason
  registered,  \* function variables that are not nil
  position,    \* of registerSymbols
  created,     \* whether an object was ever created
  pc, op       \* where each goroutine is, and the wrapper it is in

vars == <<world, libHandle, once, loadError, registered, position, created, pc, op>>

-----------------------------------------------------------------------------
(* registerSymbols: the order in which the variables are set.              *)

CreateFirst(o) == <<<<o, "Create">>, <<o, "Method">>>>
CreateLast(o)  == <<<<o, "Method">>, <<o, "Create">>>>

BufferSymbols       == CreateFirst("Buffer")
BufferCallbackSyms  == CreateLast("BufferCallback")
RunnableSymbols     == CreateLast("Runnable")
ExecutorSymbols     == CreateLast("Executor")
EngineSymbols       == CreateFirst("Engine") \o
                         <<<<"Engine", "StrictECH">>, <<"Engine", "Reality">>>>
EngineParamsSymbols == CreateFirst("EngineParams") \o
                         <<<<"EngineParams", "Priority">>>>
RequestSymbols      == CreateFirst("UrlRequest")
RequestParamsSyms   == CreateFirst("UrlRequestParams")
CallbackSymbols     == CreateLast("UrlRequestCallback")
StatusSymbols       == CreateLast("UrlRequestStatusListener")
ProviderSymbols     == CreateLast("UploadDataProvider")
SinkSymbols         == <<<<"UploadDataSink", "Method">>>>
ResponseSymbols     == CreateFirst("UrlResponseInfo")
ErrorSymbols        == CreateFirst("Error")
HeaderSymbols       == CreateFirst("HttpHeader")
QuicHintSymbols     == CreateFirst("QuicHint")
PinsSymbols         == CreateFirst("PublicKeyPins")
DateTimeSymbols     == CreateFirst("DateTime")
MetricsSymbols      == CreateFirst("Metrics")
FinishedSymbols     == CreateFirst("RequestFinishedInfo")
ListenerSymbols     == CreateLast("RequestFinishedInfoListener")
VerifierSymbols     == <<<<"CertVerifier", "Create">>>>
StreamSymbols       == CreateFirst("BidirectionalStream")

\* Stretches of the list of Windows; but for WindowsParams it is the list of Unix.
WindowsCore ==
  BufferSymbols \o BufferCallbackSyms \o RunnableSymbols \o ExecutorSymbols
    \o EngineSymbols
WindowsParams   == CreateFirst("EngineParams")
WindowsRequests == RequestSymbols \o RequestParamsSyms
WindowsHandlers ==
  CallbackSymbols \o StatusSymbols \o ProviderSymbols \o SinkSymbols
WindowsResponses == ResponseSymbols \o ErrorSymbols \o HeaderSymbols
WindowsValues    == QuicHintSymbols \o PinsSymbols \o DateTimeSymbols
WindowsMetrics   == MetricsSymbols
WindowsFinished  ==
  FinishedSymbols \o ListenerSymbols \o VerifierSymbols \o StreamSymbols

\* The functions with floating-point parameters come last on Windows, and exist on
\* 64-bit platforms only.
registerFloatFuncs == <<<<"EngineParams", "Priority">>>>

UnixSymbols ==
  WindowsCore \o EngineParamsSymbols \o WindowsRequests \o WindowsHandlers
    \o WindowsResponses \o WindowsValues \o WindowsMetrics \o WindowsFinished

WindowsSymbols ==
  WindowsCore \o WindowsParams \o WindowsRequests \o WindowsHandlers
    \o WindowsResponses \o WindowsValues \o WindowsMetrics \o WindowsFinished
    \o registerFloatFuncs

SymbolOrder(platform) == IF platform = "windows" THEN WindowsSymbols
                                                 ELSE UnixSymbols

\* A missing symbol whose error is ignored.
Optional == {<<"Engine", "StrictECH">>, <<"Engine", "Reality">>}

-----------------------------------------------------------------------------
(* The wrappers: "loads" calls ensureLoaded and then the variable, "calls" *)
(* only the variable, "checks" compares it with nil first.                 *)

WithCreate == [Create |-> "loads", Method |-> "calls"]

EngineAPI         == [Create |-> "loads", Method |-> "calls",
                      StrictECH |-> "checks", Reality |-> "checks"]
PriorityAPI       == "loads"
EngineParamsAPI   == [Create |-> "loads", Method |-> "calls",
                      Priority |-> PriorityAPI]
VerifierAPI       == [Create |-> "loads"]
BufferAPI         == WithCreate
BufferCallbackAPI == WithCreate
ExecutorAPI       == WithCreate
RunnableAPI       == WithCreate
RequestAPI        == WithCreate
RequestParamsAPI  == WithCreate
CallbackAPI       == WithCreate
StatusAPI         == WithCreate
ProviderAPI       == WithCreate
SinkAPI           == [Method |-> "calls"]
ResponseAPI       == WithCreate
ErrorAPI          == WithCreate
HeaderAPI         == WithCreate
QuicHintAPI       == WithCreate
PinsAPI           == WithCreate
DateTimeAPI       == WithCreate
MetricsAPI        == WithCreate
FinishedAPI       == WithCreate
ListenerAPI       == WithCreate
StreamAPI         == WithCreate

API ==
  [Engine |-> EngineAPI, EngineParams |-> EngineParamsAPI,
   CertVerifier |-> VerifierAPI, Buffer |-> BufferAPI,
   BufferCallback |-> BufferCallbackAPI, Executor |-> ExecutorAPI,
   Runnable |-> RunnableAPI, UrlRequest |-> RequestAPI,
   UrlRequestParams |-> RequestParamsAPI, UrlRequestCallback |-> CallbackAPI,
   UrlRequestStatusListener |-> StatusAPI, UploadDataProvider |-> ProviderAPI,
   UploadDataSink |-> SinkAPI, UrlResponseInfo |-> ResponseAPI,
   Error |-> ErrorAPI, HttpHeader |-> HeaderAPI, QuicHint |-> QuicHintAPI,
   PublicKeyPins |-> PinsAPI, DateTime |-> DateTimeAPI,
   Metrics |-> MetricsAPI, RequestFinishedInfo |-> FinishedAPI,
   RequestFinishedInfoListener |-> ListenerAPI,
   BidirectionalStream |-> StreamAPI]

\* The kinds of functions any object has.
Functions == UNION {DOMAIN API[o] : o \in DOMAIN API}

-----------------------------------------------------------------------------
(* findLibrary: the first directory of the search path with a library.     *)

UnixSearch(w) ==
  w.executable \o w.ldPath \o (IF w.platform = "darwin" THEN w.dyldPath ELSE <<>>)
    \o <<"/usr/local/lib", "/usr/lib">>
WindowsSearch(w) == w.executable \o w.path

SearchPath(w) == IF w.platform = "windows" THEN WindowsSearch(w)
                                           ELSE UnixSearch(w)

\* "" when no directory has one.
findLibrary(w) ==
  LET hits == SelectSeq(SearchPath(w), LAMBDA d : d \in DOMAIN w.files)
  IN  IF hits = <<>> THEN "" ELSE Head(hits)

-----------------------------------------------------------------------------
\* "path" is what LoadLibrary is given: a directory or "" for a search.
NoOp == [obj |-> "", fn |-> "", path |-> ""]

Init ==
  /\ world \in Situations
  /\ once = "new" /\ loadError = "nil"
  /\ registered = {} /\ position = 0 /\ created = FALSE /\ libHandle = ""
  /\ pc = [g \in Goroutines |-> "idle"]
  /\ op = [g \in Goroutines |-> NoOp]

Goto(g, p)  == pc' = [pc EXCEPT ![g] = p]
Unchanged1  ==
  UNCHANGED <<world, libHandle, once, loadError, registered, position, created>>

\* The application loads the library itself, from a place of its choice.
LoadLibrary(g, path) ==
  /\ pc[g] = "idle"
  /\ op' = [op EXCEPT ![g] = [NoOp EXCEPT !.path = path]]
  /\ Goto(g, "loadOnce")
  /\ Unchanged1

\* A wrapper is called; one that does not load needs an object, and every
\* object stems from one that was created.
Wrapper(g, o, f) ==
  /\ pc[g] = "idle"
  /\ API[o][f] = "loads" \/ created
  /\ op' = [op EXCEPT ![g] = [NoOp EXCEPT !.obj = o, !.fn = f]]
  /\ Goto(g, CASE API[o][f] = "loads"  -> "loadOnce"
               [] API[o][f] = "calls"  -> "call"
               [] API[o][f] = "checks" ->
                    IF <<o, f>> \in registered THEN "call" ELSE "idle")
  /\ Unchanged1

\* loadOnce.Do: the first caller loads, the others wait for it to finish.
LoadOnce(g) ==
  /\ pc[g] = "loadOnce" /\ once = "new"
  /\ once' = "running"
  /\ Goto(g, "load")
  /\ UNCHANGED <<world, libHandle, loadError, registered, position, created, op>>

\* ensureLoaded panics on an error, which ends the wrapper.
LoadReturns(g) ==
  /\ pc[g] = "loadOnce" /\ once = "done"
  /\ Goto(g, IF loadError = "nil" /\ op[g].fn # "" THEN "call" ELSE "idle")
  /\ UNCHANGED op
  /\ Unchanged1

Finish(err) == loadError' = err /\ once' = "done"

\* Mutated: a path that was given is not looked at.
doLoadLibraryUnchecked(g) ==
  LET path == IF op[g].path = "" THEN findLibrary(world) ELSE op[g].path IN
  /\ pc[g] = "load"
  /\ Goto(g, "register") /\ position' = 1 /\ libHandle' = path
  /\ UNCHANGED <<once, loadError, world, registered, created, op>>

\* doLoadLibrary up to the handle: the library must exist and be loadable.
doLoadLibrary(g) ==
  LET path == IF op[g].path = "" THEN findLibrary(world) ELSE op[g].path IN
  /\ pc[g] = "load"
  /\ IF path \in DOMAIN world.files /\ world.files[path].loads
     THEN /\ Goto(g, "register") /\ position' = 1 /\ libHandle' = path
          /\ UNCHANGED <<once, loadError>>
     ELSE /\ Finish(IF path = "" THEN "library not found"
                                 ELSE "failed to load library")
          /\ Goto(g, "loadOnce")
          /\ UNCHANGED <<position, libHandle>>
  /\ UNCHANGED <<world, registered, created, op>>

\* Mutated: a missing symbol is passed over.
registerFuncGoesOn(g) ==
  LET order  == SymbolOrder(world.platform) IN
  /\ pc[g] = "register" /\ position <= Len(order)
  /\ registered' = IF order[position] \in world.files[libHandle].missing
                   THEN registered ELSE registered \cup {order[position]}
  /\ position' = position + 1
  /\ UNCHANGED <<world, libHandle, once, loadError, created, pc, op>>

\* registerFunc: one symbol; a missing one ends it unless it is optional.
registerFunc(g) ==
  LET order   == SymbolOrder(world.platform)
      symbol  == order[position]
      missing == world.files[libHandle].missing
  IN
  /\ pc[g] = "register" /\ position <= Len(order)
  /\ IF symbol \notin missing
     THEN registered' = registered \cup {symbol}
     ELSE UNCHANGED registered
  /\ IF symbol \in missing \ Optional
     THEN /\ Finish("symbol not found")
          /\ Goto(g, "loadOnce")
          /\ UNCHANGED position
     ELSE /\ position' = position + 1
          /\ UNCHANGED <<loadError, once, pc>>
  /\ UNCHANGED <<world, libHandle, created, op>>

registerSymbolsEnd(g) ==
  /\ pc[g] = "register" /\ position > Len(SymbolOrder(world.platform))
  /\ Finish("nil")
  /\ Goto(g, "loadOnce")
  /\ UNCHANGED <<world, libHandle, registered, position, created, op>>

\* The call through the function variable.
Call(g) ==
  /\ pc[g] = "call"
  /\ created' = (created \/ op[g].fn = "Create")
  /\ op' = [op EXCEPT ![g] = NoOp]
  /\ Goto(g, "idle")
  /\ UNCHANGED <<world, libHandle, once, loadError, registered, position>>

Next ==
  \E g \in Goroutines :
    \/ \E path \in {"", "nowhere"} \cup DOMAIN world.files : LoadLibrary(g, path)
    \/ \E o \in DOMAIN API : \E f \in DOMAIN API[o] : Wrapper(g, o, f)
    \/ LoadOnce(g) \/ LoadReturns(g)
    \/ doLoadLibrary(g) \/ registerFunc(g) \/ registerSymbolsEnd(g)
    \/ Call(g)

Spec == Init /\ [][Next]_vars

-----------------------------------------------------------------------------
\* Every variable stays within its type.
TypeOK ==
  /\ libHandle \in {""} \cup DOMAIN world.files
  /\ once \in {"new", "running", "done"}
  /\ loadError \in {"nil", "library not found", "failed to load library",
                    "symbol not found"}
  /\ registered \subseteq ToSet(SymbolOrder(world.platform))
  /\ position \in 0..Len(SymbolOrder(world.platform)) + 1
  /\ created \in BOOLEAN
  /\ op \in [Goroutines -> [obj : {""} \cup DOMAIN API, fn : {""} \cup Functions,
                            path : {"", "nowhere"} \cup DOMAIN world.files]]
  /\ pc \in [Goroutines -> {"idle", "loadOnce", "load", "register", "call"}]

\* No wrapper calls a function variable that is nil, whatever the library
\* lacks, wherever it was looked for and whoever loads it.
NoNilCall ==
  \A g \in Goroutines :
    pc[g] = "call" => <<op[g].obj, op[g].fn>> \in registered

Loading(g) == pc[g] \in {"load", "register"}

\* The symbols without which the library is not loaded.
Required == ToSet(SymbolOrder(world.platform)) \ Optional

\* All who ask get the one answer of who loads: once an object exists the library
\* is loaded for good, with every symbol that is required.
LoadedForGood ==
  /\ created => /\ once = "done" /\ loadError = "nil"
                   /\ Required \subseteq registered
  /\ \A g, h \in Goroutines : Loading(g) /\ Loading(h) => g = h

-----------------------------------------------------------------------------
(* The inductive invariant behind NoNilCall and LoadedForGood.             *)

\* One goroutine loads while once is running; there is no answer before the end.
OneLoads ==
  /\ \A g \in Goroutines : Loading(g) => once = "running"
  /\ \A g, h \in Goroutines : Loading(g) /\ Loading(h) => g = h
  /\ once # "done" => loadError = "nil"

\* What lies before position is registered, and in the end all that is required.
\* Nobody has an object before.
Registers ==
  /\ \A g \in Goroutines : pc[g] = "register" =>
       /\ libHandle \in DOMAIN world.files
       /\ position # 0
       /\ \A i \in 1..position - 1 :
            SymbolOrder(world.platform)[i] \in registered \cup Optional
  /\ once = "done" /\ loadError = "nil" => Required \subseteq registered
  /\ created => once = "done" /\ loadError = "nil"

\* A wrapper that waits for the library asks for what is required; one that does
\* its call has waited, or has an object.
Demands ==
  \A g \in Goroutines :
    /\ pc[g] \in {"loadOnce", "load", "register"} /\ op[g].fn # "" =>
         <<op[g].obj, op[g].fn>> \in Required
    /\ pc[g] = "call" =>
         /\ <<op[g].obj, op[g].fn>> \in registered
         /\ once = "done" /\ loadError = "nil"

IInv == TypeOK /\ OneLoads /\ Registers /\ Demands
=============================================================================
