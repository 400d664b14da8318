-------------------------- MODULE CallbackRegistry --------------------------
(***************************************************************************)
(* The registries that lead from a native object to its Go handler.  The   *)
(* native library knows a handler only by the address of the object that   *)
(* was created for it; a map from addresses to handlers, one for each kind *)
(* of object and each build (cgo, purego), is consulted on every callback. *)
(* The allocator may hand out an address again as soon as its object is    *)
(* destroyed, so an entry removed too late belongs to somebody else.       *)
(*                                                                         *)
(* All registries run the same steps; they differ in what each callback    *)
(* does to the entry, in the order of Destroy, and in how an object gets   *)
(* its handler.  A registry is a record that states these differences.     *)
(*                                                                         *)
(* Not modelled: the arguments of callbacks, and the executor's commands.  *)
(***************************************************************************)
EXTENDS Naturals, FiniteSets

CONSTANTS
  Users,      \* goroutines, each with at most one object at a time
  Addresses,  \* addresses the native allocator hands out
  Handlers,   \* identities of objects, each with the handler made for it
  Kinds,      \* the registries a run explores
  NoHandler   \* no entry, no object

VARIABLES
  kind,       \* the registry of this behaviour
  entries,    \* the Go map: address -> handler
  heap,       \* native objects: address -> [obj, spent, doomed]
  user,       \* what each goroutine is doing with its object
  call        \* the callback in progress at each address

vars == <<kind, entries, heap, user, call>>

-----------------------------------------------------------------------------
(* Effects of a callback on the entry.                                     *)
(*   plain: look the handler up and run it                                 *)
(*   last:  look it up, delete the entry in a later section, run it        *)
(*   take:  look it up and delete it in one section, run it                *)

Registry(calls) ==
  [calls |-> calls, destroy |-> "entry first", posted |-> FALSE,
   optional |-> FALSE, wired |-> FALSE]

StreamCgo ==
  [Registry([OnStreamReady |-> "plain", OnResponseHeadersReceived |-> "plain",
             OnReadCompleted |-> "plain", OnWriteCompleted |-> "plain",
             OnResponseTrailersReceived |-> "plain", OnSucceeded |-> "last",
             OnFailed |-> "last", OnCanceled |-> "last"])
   EXCEPT !.posted = TRUE]
StreamPurego == StreamCgo

RequestCgo ==
  Registry([OnRedirectReceived |-> "plain", OnResponseStarted |-> "plain",
            OnReadCompleted |-> "plain", OnSucceeded |-> "last",
            OnFailed |-> "last", OnCanceled |-> "last"])
RequestPurego   == RequestCgo
RequestPurego32 == RequestCgo

ExecutorCgo    == Registry([Execute |-> "plain"])
ExecutorPurego == ExecutorCgo

RunnableCgo    == Registry([Run |-> "last"])
RunnablePurego == RunnableCgo

ProviderCgo ==
  Registry([GetLength |-> "plain", Read |-> "plain", Rewind |-> "plain",
            Close |-> "last"])
ProviderPurego == ProviderCgo

\* NewBufferCallback(nil) creates the native object and registers nothing.
BufferCgo    == [Registry([OnDestroy |-> "last"]) EXCEPT !.optional = TRUE]
BufferPurego == BufferCgo

\* The cgo build destroys the native listener before it drops the entry.
StatusCgo    == [Registry([OnStatus |-> "take"])
                 EXCEPT !.destroy = "native first"]
\* Mutated: the purego build does as the cgo build.
StatusPuregoLate == StatusCgo
StatusPurego == Registry([OnStatus |-> "take"])

FinishedCgo    == Registry([OnRequestFinished |-> "plain"])
FinishedPurego == FinishedCgo

\* Dialers are set on an engine after it was created, and may be unset.
DialerCgo    == [Registry([Dial |-> "plain", UDPDial |-> "plain"])
                 EXCEPT !.wired = TRUE]
DialerPurego == DialerCgo

\* Handlers of the New...With constructors: Destroy leaves the entry behind.
Mock(calls) == [Registry([c \in calls |-> "plain"])
                EXCEPT !.destroy = "keeps entry"]
BufferMock  == Mock({"InitWithDataAndCallback", "InitWithAlloc", "GetSize",
                     "GetData"})
SinkMock    == Mock({"OnReadSucceeded", "OnReadError", "OnRewindSucceeded",
                     "OnRewindError"})
EngineMock  == Mock({"StartWithParams", "StartNetLogToFile", "StopNetLog",
                     "Shutdown", "GetVersionString", "GetDefaultUserAgent",
                     "AddRequestFinishedListener",
                     "RemoveRequestFinishedListener"})
RequestMock == Mock({"InitWithParams", "Start", "FollowRedirect", "Read",
                     "Cancel", "IsDone", "GetStatus"})

Registries ==
  [StreamCgo |-> StreamCgo, StreamPurego |-> StreamPurego,
   RequestCgo |-> RequestCgo, RequestPurego |-> RequestPurego,
   RequestPurego32 |-> RequestPurego32, ExecutorCgo |-> ExecutorCgo,
   ExecutorPurego |-> ExecutorPurego, RunnableCgo |-> RunnableCgo,
   RunnablePurego |-> RunnablePurego, ProviderCgo |-> ProviderCgo,
   ProviderPurego |-> ProviderPurego, BufferCgo |-> BufferCgo,
   BufferPurego |-> BufferPurego, StatusCgo |-> StatusCgo,
   StatusPurego |-> StatusPurego, FinishedCgo |-> FinishedCgo,
   FinishedPurego |-> FinishedPurego, DialerCgo |-> DialerCgo,
   DialerPurego |-> DialerPurego, BufferMock |-> BufferMock,
   SinkMock |-> SinkMock, EngineMock |-> EngineMock,
   RequestMock |-> RequestMock]

ASSUME ConstantsAssumption ==
  /\ Kinds \subseteq DOMAIN Registries
  /\ NoHandler \notin Handlers

reg == Registries[kind]

-----------------------------------------------------------------------------
NoObject == [obj |-> NoHandler, spent |-> FALSE, doomed |-> FALSE]
Idle     == [pc |-> "idle", entry |-> NoHandler, of |-> NoHandler]
Away(a)  == [pc |-> "none", obj |-> NoHandler, addr |-> a]

Init ==
  /\ kind \in Kinds
  /\ entries = [a \in Addresses |-> NoHandler]
  /\ heap = [a \in Addresses |-> NoObject]
  /\ call = [a \in Addresses |-> Idle]
  /\ \E a \in Addresses : user = [u \in Users |-> Away(a)]

\* Identities nobody refers to any more can be given to a new object.
Unused(h) ==
  /\ \A a \in Addresses : h \notin {entries[a], heap[a].obj, call[a].entry,
                                    call[a].of}
  /\ \A u \in Users : h # user[u].obj

Goto(u, pc) == user' = [user EXCEPT ![u].pc = pc]
Enter(a, h) == entries' = [entries EXCEPT ![a] = h]
Drop(a)     == Enter(a, NoHandler)

\* New...: the native object is created first, at an address that is free.
Create(u, a, h) ==
  /\ user[u].pc = "none" /\ heap[a] = NoObject /\ Unused(h)
  /\ heap' = [heap EXCEPT ![a].obj = h]
  /\ user' = [user EXCEPT ![u] =
       [pc |-> IF reg.wired THEN "bare" ELSE "created", obj |-> h, addr |-> a]]
  /\ UNCHANGED <<kind, entries, call>>

\* ... and its handler is entered under the address that came back.
Register(u) ==
  /\ user[u].pc = "created"
  /\ Enter(user[u].addr, user[u].obj)
  /\ Goto(u, "live")
  /\ UNCHANGED <<kind, heap, call>>

RegisterNothing(u) ==
  /\ user[u].pc = "created" /\ reg.optional
  /\ Goto(u, "bare")
  /\ UNCHANGED <<kind, entries, heap, call>>

\* SetDialer(dialer), SetUDPDialer: the entry, then the native pointer.
SetDialer(u) ==
  /\ reg.wired
  /\ \/ /\ user[u].pc \in {"bare", "live"}
        /\ Enter(user[u].addr, user[u].obj)
        /\ Goto(u, "wiring")
     \/ /\ user[u].pc = "wiring" /\ Goto(u, "live")
        /\ UNCHANGED entries
  /\ UNCHANGED <<kind, heap, call>>

\* SetDialer(nil): the native pointer, then the entry.
UnsetDialer(u) ==
  /\ reg.wired
  /\ \/ /\ user[u].pc = "live" /\ Goto(u, "unwiring")
        /\ UNCHANGED entries
     \/ /\ user[u].pc = "unwiring"
        /\ Drop(user[u].addr)
        /\ Goto(u, "bare")
  /\ UNCHANGED <<kind, heap, call>>

-----------------------------------------------------------------------------
\* A stream may be destroyed at any time; the other objects by their owner
\* while no callback of theirs is on its way, or by the handler itself.
MayDestroy(u) ==
  /\ user[u].pc \in {"live", "bare"}
  /\ reg.posted \/ call[user[u].addr].pc \in {"idle", "handler"}

\* Mutated: Destroy marks the entry as destroyed and leaves it in the map.
DropEntryMarks(u) ==
  /\ MayDestroy(u) /\ reg.destroy = "entry first"
  /\ Goto(u, "dropped")
  /\ UNCHANGED <<kind, entries, heap, call>>

\* Destroy, first half.
DropEntry(u) ==
  /\ MayDestroy(u) /\ reg.destroy = "entry first"
  /\ Drop(user[u].addr)
  /\ Goto(u, "dropped")
  /\ UNCHANGED <<kind, heap, call>>

\* The native half.  The deletion of a stream is posted to the network
\* thread; any other object is gone, and its address free, on return.
DestroyNative(u) ==
  /\ \/ user[u].pc = "dropped"
     \/ MayDestroy(u) /\ reg.destroy # "entry first"
  /\ heap' = [heap EXCEPT ![user[u].addr] =
                IF reg.posted THEN [@ EXCEPT !.doomed = TRUE] ELSE NoObject]
  /\ user' = [user EXCEPT ![u] = IF reg.destroy = "native first"
                                 THEN [@ EXCEPT !.pc = "freed"]
                                 ELSE Away(@.addr)]
  /\ UNCHANGED <<kind, entries, call>>

\* The second half, where the native object went first.
DropEntryLate(u) ==
  /\ user[u].pc = "freed"
  /\ Drop(user[u].addr)
  /\ user' = [user EXCEPT ![u] = Away(@.addr)]
  /\ UNCHANGED <<kind, heap, call>>

\* The network thread gets to the posted deletion between two callbacks.
Delete(a) ==
  /\ heap[a].doomed /\ call[a].pc = "idle"
  /\ heap' = [heap EXCEPT ![a] = NoObject]
  /\ UNCHANGED <<kind, entries, user, call>>

-----------------------------------------------------------------------------
\* The native library calls back for an object that is in use or doomed.
Calls(a) ==
  /\ heap[a].obj # NoHandler /\ ~heap[a].spent /\ call[a].pc = "idle"
  /\ \/ heap[a].doomed
     \/ \E u \in Users :
          /\ user[u].obj = heap[a].obj
          /\ user[u].pc \in {"live", "dropped"} \cup
               (IF reg.wired THEN {} ELSE {"bare"})
          /\ user[u].pc = "dropped" => reg.posted

\* The callbacks of the build: an entry that is gone ends the callback.
\* Entries are marked as destroyed in the section that deletes them, so a
\* look-up that finds one finds it unmarked.
OnCallback(a, c) ==
  LET effect == reg.calls[c] IN
  /\ Calls(a)
  /\ heap' = [heap EXCEPT ![a].spent = effect # "plain"]
  /\ call' = [call EXCEPT ![a] =
       IF entries[a] = NoHandler THEN Idle
       ELSE [pc |-> IF effect = "last" THEN "clean" ELSE "handler",
             entry |-> entries[a], of |-> heap[a].obj]]
  /\ IF effect = "take" THEN Drop(a) ELSE UNCHANGED entries
  /\ UNCHANGED <<kind, user>>

\* cleanup...: the entry goes before the handler of a last callback runs,
\* as the handler may destroy the object and create another in its place.
Cleanup(a) ==
  /\ call[a].pc = "clean"
  /\ Drop(a)
  /\ call' = [call EXCEPT ![a].pc = "handler"]
  /\ UNCHANGED <<kind, heap, user>>

Return(a) ==
  /\ call[a].pc = "handler"
  /\ call' = [call EXCEPT ![a] = Idle]
  /\ UNCHANGED <<kind, entries, heap, user>>

-----------------------------------------------------------------------------
Next ==
  \/ \E u \in Users :
       \/ \E a \in Addresses, h \in Handlers : Create(u, a, h)
       \/ Register(u) \/ RegisterNothing(u)
       \/ SetDialer(u) \/ UnsetDialer(u)
       \/ DropEntry(u) \/ DestroyNative(u) \/ DropEntryLate(u)
  \/ \E a \in Addresses :
       \/ \E c \in DOMAIN reg.calls : OnCallback(a, c)
       \/ Delete(a) \/ Cleanup(a) \/ Return(a)

Spec == Init /\ [][Next]_vars

-----------------------------------------------------------------------------
\* Every variable stays within its type.
TypeOK ==
  /\ kind \in Kinds
  /\ entries \in [Addresses -> Handlers \cup {NoHandler}]
  /\ heap \in [Addresses -> [obj : Handlers \cup {NoHandler},
                             spent : BOOLEAN, doomed : BOOLEAN]]
  /\ user \in [Users -> [pc : {"none", "created", "bare", "wiring", "live",
                               "unwiring", "dropped", "freed"},
                         obj : Handlers \cup {NoHandler}, addr : Addresses]]
  /\ call \in [Addresses -> [pc : {"idle", "clean", "handler"},
                             entry : Handlers \cup {NoHandler},
                             of : Handlers \cup {NoHandler}]]

\* An object that is in use and has more callbacks to come is found under
\* its address, and a callback runs the handler of the very object it is for.
HandlersFound ==
  /\ \A u \in Users :
       (user[u].pc = "live" /\ ~heap[user[u].addr].spent)
         => entries[user[u].addr] = user[u].obj
  /\ \A a \in Addresses : call[a].entry = call[a].of

\* HandlersFound, for every registry but that of status listeners in the cgo
\* build, of which it does not hold.
Found == kind # "StatusCgo" => HandlersFound

\* A handler is retained only while its object exists and has not been given
\* to Destroy, so that nothing is called, or kept from collection, later.
NothingRetained ==
  reg.destroy = "entry first" =>
    \A a \in Addresses : entries[a] # NoHandler =>
      \E u \in Users :
        /\ user[u].addr = a /\ user[u].obj = entries[a]
        /\ user[u].pc \in {"live", "wiring", "unwiring"}
        /\ heap[a].obj = entries[a]

-----------------------------------------------------------------------------
(* The inductive invariant behind Found and NothingRetained.               *)

\* No two goroutines have the same object, and no two addresses hold one.
Distinct ==
  /\ \A u, v \in Users : user[u].obj = user[v].obj => u = v \/ user[u].obj = NoHandler
  /\ \A a, b \in Addresses : heap[a].obj = heap[b].obj => a = b \/ heap[a].obj = NoHandler

\* Who has an object finds it at his address until it was destroyed; which
\* states there are depends on the registry.
Owned ==
  \A u \in Users :
    /\ user[u].pc = "none" <=> user[u].obj = NoHandler
    /\ user[u].pc \notin {"none", "freed"} => heap[user[u].addr].obj = user[u].obj
    /\ user[u].pc = "bare" => reg.optional \/ reg.wired
    /\ user[u].pc = "dropped" => reg.destroy = "entry first"
    /\ user[u].pc = "freed" => reg.destroy = "native first"

\* What is doomed is nobody's.
Doomed ==
  \A a \in Addresses :
    heap[a].doomed =>
      /\ reg.posted /\ heap[a].obj # NoHandler
      /\ \A u \in Users : user[u].obj # heap[a].obj

\* A cleanup under way is that of an object which has had its last callback.
Cleanups ==
  /\ \A a \in Addresses : call[a].pc = "clean" => heap[a].spent
  /\ \A u \in Users : user[u].pc = "dropped" /\ ~reg.posted =>
       call[user[u].addr].pc # "clean"

\* HandlersFound, also while dialers are set and unset.
Entered ==
  reg.destroy # "native first" =>
    /\ \A u \in Users :
         /\ user[u].pc \in {"live", "wiring", "unwiring"}
         /\ ~heap[user[u].addr].spent
         => entries[user[u].addr] = user[u].obj
    /\ \A a \in Addresses : call[a].entry = call[a].of

IInv ==
  /\ TypeOK /\ Distinct /\ Owned /\ Doomed /\ Cleanups
  /\ Entered /\ NothingRetained

=============================================================================
