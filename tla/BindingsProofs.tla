--------------------------- MODULE BindingsProofs ---------------------------
(***************************************************************************)
(* What MCBindings composes, for any goroutines, objects and calls.  First *)
(* the registries of handlers, for any addresses and any set of the        *)
(* registries of the program; then the loader, for any machine and library;*)
(* then the RoundTripper, from RoundTripperProofs; last their sum, of      *)
(* which each step is a step of one.                                       *)
(***************************************************************************)
EXTENDS MCBindings, Sequences, TLAPS

-----------------------------------------------------------------------------
(* The registries.                                                         *)

\* What the registries have in common.
Regular(r) ==
  /\ r.posted => r.destroy = "entry first"
  /\ r.destroy = "keeps entry" => ~r.optional /\ ~r.wired
  /\ r.destroy \in {"entry first", "native first", "keeps entry"}

\* The changes a build makes to the registry of the pattern keep it regular.
LEMMA RegistryRegular ==
  ASSUME NEW calls
  PROVE  /\ Regular(Registry(calls)) /\ Regular([Registry(calls) EXCEPT !.posted = TRUE])
         /\ Registry(calls).destroy # "native first"
         /\ [Registry(calls) EXCEPT !.posted = TRUE].destroy # "native first"
         /\ Regular([Registry(calls) EXCEPT !.optional = TRUE])
         /\ [Registry(calls) EXCEPT !.optional = TRUE].destroy # "native first"
         /\ Regular([Registry(calls) EXCEPT !.wired = TRUE])
         /\ [Registry(calls) EXCEPT !.wired = TRUE].destroy # "native first"
         /\ Regular([Registry(calls) EXCEPT !.destroy = "native first"])
         /\ Regular([Registry(calls) EXCEPT !.destroy = "keeps entry"])
         /\ [Registry(calls) EXCEPT !.destroy = "keeps entry"].destroy # "native first"
  BY DEF Regular, Registry

\* Only status listeners of the cgo build destroy the native object first.
LEMMA RegistriesRegular ==
  ASSUME NEW k \in DOMAIN Registries
  PROVE  /\ Regular(Registries[k])
         /\ Registries[k].destroy = "native first" => k = "StatusCgo"
<1>1. /\ Regular(StreamCgo) /\ StreamCgo.destroy # "native first"
      /\ Regular(RequestCgo) /\ RequestCgo.destroy # "native first"
      /\ Regular(ExecutorCgo) /\ ExecutorCgo.destroy # "native first"
      /\ Regular(RunnableCgo) /\ RunnableCgo.destroy # "native first"
      /\ Regular(ProviderCgo) /\ ProviderCgo.destroy # "native first"
      /\ Regular(BufferCgo) /\ BufferCgo.destroy # "native first"
      /\ Regular(StatusPurego) /\ StatusPurego.destroy # "native first"
      /\ Regular(FinishedCgo) /\ FinishedCgo.destroy # "native first"
      /\ Regular(DialerCgo) /\ DialerCgo.destroy # "native first"
      /\ Regular(StatusCgo)
  BY RegistryRegular, Zenon DEF StreamCgo, RequestCgo, ExecutorCgo, RunnableCgo,
     ProviderCgo, BufferCgo, StatusPurego, FinishedCgo, DialerCgo, StatusCgo
<1>2. /\ Regular(BufferMock) /\ BufferMock.destroy # "native first"
      /\ Regular(SinkMock) /\ SinkMock.destroy # "native first"
      /\ Regular(EngineMock) /\ EngineMock.destroy # "native first"
      /\ Regular(RequestMock) /\ RequestMock.destroy # "native first"
  BY RegistryRegular, Zenon DEF Mock, BufferMock, SinkMock, EngineMock,
                                RequestMock
<1>3. k \in {"StreamCgo", "StreamPurego", "RequestCgo", "RequestPurego", "RequestPurego32",
           "ExecutorCgo", "ExecutorPurego", "RunnableCgo", "RunnablePurego",
           "ProviderCgo", "ProviderPurego", "BufferCgo", "BufferPurego",
           "StatusCgo", "StatusPurego", "FinishedCgo", "FinishedPurego",
           "DialerCgo", "DialerPurego", "BufferMock", "SinkMock",
           "EngineMock", "RequestMock"}
  BY DEF Registries
<1>4. /\ Registries.StreamCgo = StreamCgo /\ Registries.StreamPurego = StreamPurego
      /\ Registries.RequestCgo = RequestCgo /\ Registries.RequestPurego = RequestPurego
      /\ Registries.RequestPurego32 = RequestPurego32 /\ Registries.ExecutorCgo = ExecutorCgo
      /\ Registries.ExecutorPurego = ExecutorPurego /\ Registries.RunnableCgo = RunnableCgo
      /\ Registries.RunnablePurego = RunnablePurego /\ Registries.ProviderCgo = ProviderCgo
      /\ Registries.ProviderPurego = ProviderPurego /\ Registries.BufferCgo = BufferCgo
      /\ Registries.BufferPurego = BufferPurego /\ Registries.StatusCgo = StatusCgo
      /\ Registries.StatusPurego = StatusPurego /\ Registries.FinishedCgo = FinishedCgo
      /\ Registries.FinishedPurego = FinishedPurego /\ Registries.DialerCgo = DialerCgo
      /\ Registries.DialerPurego = DialerPurego /\ Registries.BufferMock = BufferMock
      /\ Registries.SinkMock = SinkMock /\ Registries.EngineMock = EngineMock
      /\ Registries.RequestMock = RequestMock
  BY DEF Registries
<1>. QED BY <1>1, <1>2, <1>3, <1>4 DEF StreamPurego, RequestPurego,
                                       RequestPurego32,
            ExecutorPurego, RunnablePurego, ProviderPurego, BufferPurego,
            FinishedPurego, DialerPurego

-----------------------------------------------------------------------------
\* u has an object; u's object has its handler entered.
Using(u)   == user[u].pc \notin {"none", "freed"}
Holding(u) == user[u].pc \in {"live", "wiring", "unwiring"}

\* Goroutine u goes to pc; h is entered at a.
Moves(u, pc) ==
  \A v \in Users : /\ user'[v].obj = user[v].obj /\ user'[v].addr = user[v].addr
                   /\ user'[v].pc = IF v = u THEN pc ELSE user[v].pc
Enters(a, h) == \A b \in Addresses : entries'[b] = IF b = a THEN h ELSE entries[b]

\* What Goto and Enter do, as functions.
LEMMA GotoMoves ==
  ASSUME TypeOK, NEW u \in Users, NEW pc, Goto(u, pc)
  PROVE  Moves(u, pc)
  BY DEF TypeOK, Goto, Moves

LEMMA EnterEnters ==
  ASSUME TypeOK, NEW a \in Addresses, NEW h, Enter(a, h)
  PROVE  Enters(a, h)
  BY DEF TypeOK, Enter, Enters

\* The two assignments keep the types.
LEMMA GotoTypes ==
  ASSUME TypeOK, NEW u \in Users,
         NEW pc \in {"none", "created", "bare", "wiring", "live",
                    "unwiring", "dropped", "freed"},
         Goto(u, pc)
  PROVE  user' \in [Users -> [pc : {"none", "created", "bare", "wiring", "live",
                                   "unwiring", "dropped", "freed"},
                             obj : Handlers \cup {NoHandler}, addr : Addresses]]
<1>1. user \in [Users -> [pc : {"none", "created", "bare", "wiring", "live",
                               "unwiring", "dropped", "freed"},
                         obj : Handlers \cup {NoHandler}, addr : Addresses]]
  BY DEF TypeOK
<1>2. user[u] \in [pc : {"none", "created", "bare", "wiring", "live",
                         "unwiring", "dropped", "freed"},
                   obj : Handlers \cup {NoHandler}, addr : Addresses]
  BY <1>1
<1>3. [user[u] EXCEPT !.pc = pc] \in
          [pc : {"none", "created", "bare", "wiring", "live",
                 "unwiring", "dropped", "freed"},
           obj : Handlers \cup {NoHandler}, addr : Addresses]
  BY <1>2
<1>4. user' = [user EXCEPT ![u] = [user[u] EXCEPT !.pc = pc]]
  BY DEF Goto
<1>. QED BY <1>1, <1>3, <1>4

\* The entries stay typed.
LEMMA EnterTypes ==
  ASSUME TypeOK, NEW a \in Addresses, NEW h \in Handlers \cup {NoHandler}, Enter(a, h)
  PROVE  entries' \in [Addresses -> Handlers \cup {NoHandler}]
  BY DEF TypeOK, Enter

\* The registry of a behaviour is one of those of the program.
LEMMA RegRegular ==
  ASSUME TypeOK
  PROVE  Regular(reg) /\ (reg.destroy = "native first" => kind = "StatusCgo")
<1>1. kind \in DOMAIN Registries
  BY ConstantsAssumption DEF ConstantsAssumption, TypeOK
<1>. QED BY <1>1, RegistriesRegular DEF reg

\* Who uses an object is alone at his address, and his object is there.
LEMMA AloneAt ==
  ASSUME IInv, NEW u \in Users, Using(u)
  PROVE  /\ user[u].obj # NoHandler /\ user[u].addr \in Addresses
         /\ heap[user[u].addr].obj = user[u].obj
         /\ \A v \in Users : Using(v) /\ user[v].addr = user[u].addr => v = u
         /\ \A v \in Users : user[v].obj = user[u].obj => v = u
         /\ \A a \in Addresses : heap[a].obj = user[u].obj => a = user[u].addr
<1>1. user[u].addr \in Addresses
  BY DEF IInv, TypeOK
<1>2. user[u].obj # NoHandler /\ heap[user[u].addr].obj = user[u].obj
  BY DEF IInv, Owned, Using
<1>3. ASSUME NEW v \in Users, user[v].obj = user[u].obj
      PROVE  v = u
  BY <1>2, <1>3 DEF IInv, Distinct
<1>4. ASSUME NEW v \in Users, Using(v), user[v].addr = user[u].addr
      PROVE  v = u
  <2>1. heap[user[v].addr].obj = user[v].obj
    BY <1>4 DEF IInv, Owned, Using
  <2>. QED BY <1>2, <1>3, <1>4, <2>1
<1>5. ASSUME NEW a \in Addresses, heap[a].obj = user[u].obj
      PROVE  a = user[u].addr
  BY <1>1, <1>2, <1>5 DEF IInv, Distinct
<1>. QED BY <1>1, <1>2, <1>3, <1>4, <1>5

\* Where the entry goes first, no other object's entry is at the address.
LEMMA EntryGone ==
  ASSUME IInv, NEW u \in Users, Using(u), ~Holding(u), reg.destroy = "entry first"
  PROVE  entries[user[u].addr] = NoHandler
<1>. SUFFICES ASSUME entries[user[u].addr] # NoHandler
              PROVE  FALSE
  OBVIOUS
<1>1. /\ user[u].addr \in Addresses /\ heap[user[u].addr].obj = user[u].obj
      /\ \A v \in Users : user[v].obj = user[u].obj => v = u
  BY AloneAt
<1>2. PICK v \in Users : Holding(v) /\ user[v].obj = heap[user[u].addr].obj
  <2>1. PICK v \in Users : /\ user[v].obj = entries[user[u].addr] /\ Holding(v)
                           /\ heap[user[u].addr].obj = entries[user[u].addr]
    BY <1>1, Zenon DEF IInv, NothingRetained, Holding
  <2>. QED BY <2>1
<1>. QED BY <1>1, <1>2

\* A goroutine moves on with its object, and its entry with it.
LEMMA MoveKeeps ==
  ASSUME IInv, NEW u \in Users, NEW pc, Moves(u, pc), reg' = reg,
                                                                              UNCHANGED <<heap,
                                                                              call>>,
         Using(u), pc \notin {"none", "freed"},
         pc = "bare" => reg.optional \/ reg.wired,
         pc = "dropped" => reg.destroy = "entry first",
         pc = "dropped" => reg.posted \/ call[user[u].addr].pc # "clean",
         \/ Enters(user[u].addr, user[u].obj) /\ pc \in {"live", "wiring", "unwiring"}
         \/ Enters(user[u].addr, NoHandler) /\ pc \notin {"live", "wiring", "unwiring"}
         \/ UNCHANGED entries /\ (Holding(u) <=> pc \in {"live", "wiring", "unwiring"})
  PROVE  Distinct' /\ Owned' /\ Doomed' /\ Cleanups' /\ Entered' /\ NothingRetained'
<1>1. /\ user[u].obj # NoHandler /\ user[u].addr \in Addresses
      /\ heap[user[u].addr].obj = user[u].obj
      /\ \A v \in Users : Using(v) /\ user[v].addr = user[u].addr => v = u
  BY AloneAt
<1>2. Distinct'
  <2>1. \A v \in Users : user'[v].obj = user[v].obj
    BY DEF Moves
  <2>. QED BY <2>1 DEF IInv, Distinct
<1>3. Owned'
  <2>. SUFFICES ASSUME NEW v \in Users
                PROVE  /\ user'[v].pc = "none" <=> user'[v].obj = NoHandler
                       /\ user'[v].pc \notin {"none", "freed"} =>
                             heap[user'[v].addr].obj = user'[v].obj
                       /\ user'[v].pc = "bare" => reg.optional \/ reg.wired
                       /\ user'[v].pc = "dropped" => reg.destroy = "entry first"
                       /\ user'[v].pc = "freed" => reg.destroy = "native first"
    BY DEF Owned
  <2>1. CASE v = u
    BY <1>1, <2>1 DEF Moves
  <2>2. CASE v # u
    <3>1. user'[v].pc = user[v].pc /\ user'[v].obj = user[v].obj
            /\ user'[v].addr = user[v].addr
      BY <2>2 DEF Moves
    <3>. QED BY <3>1 DEF IInv, Owned
  <2>. QED BY <2>1, <2>2
<1>4. Doomed'
  <2>1. \A v \in Users : user'[v].obj = user[v].obj
    BY DEF Moves
  <2>. QED BY <2>1 DEF IInv, Doomed
<1>5. Cleanups'
  BY DEF IInv, Cleanups, Moves
<1>6. Entered'
  <2>1. ASSUME NEW v \in Users, reg.destroy # "native first",
               user'[v].pc \in {"live", "wiring", "unwiring"},
               ~heap[user[v].addr].spent
        PROVE  entries'[user[v].addr] = user[v].obj
    <3>1. CASE v = u
      BY <1>1, <2>1, <3>1 DEF IInv, Entered, Moves, Enters, Holding
    <3>2. CASE v # u
      <4>1. Using(v) /\ user[v].pc \in {"live", "wiring", "unwiring"}
        BY <2>1, <3>2 DEF Moves, Using
      <4>2. entries[user[v].addr] = user[v].obj
        BY <2>1, <4>1 DEF IInv, Entered
      <4>3. user[v].addr \in Addresses /\ user[v].addr # user[u].addr
        BY <1>1, <3>2, <4>1 DEF IInv, TypeOK
      <4>. QED BY <4>2, <4>3 DEF Enters
    <3>. QED BY <3>1, <3>2
  <2>2. \A v \in Users : user'[v].obj = user[v].obj /\ user'[v].addr = user[v].addr
    BY DEF Moves
  <2>. QED BY <2>1, <2>2 DEF IInv, Entered
<1>7. NothingRetained'
  <2>. SUFFICES ASSUME reg.destroy = "entry first", NEW b \in Addresses,
                       entries'[b] # NoHandler
                PROVE  \E v \in Users : /\ user'[v].addr = b
                                        /\ user'[v].obj = entries'[b]
                                        /\ user'[v].pc \in {"live", "wiring", "unwiring"}
                                        /\ heap[b].obj = entries'[b]
    BY DEF NothingRetained
  <2>1. CASE b = user[u].addr /\ Enters(user[u].addr, user[u].obj)
             /\ pc \in {"live", "wiring", "unwiring"}
    <3>. WITNESS u \in Users
    <3>. QED BY <1>1, <2>1 DEF Moves, Enters
  <2>2. CASE ~(b = user[u].addr /\ Enters(user[u].addr, user[u].obj)
               /\ pc \in {"live", "wiring", "unwiring"})
    <3>1. entries'[b] = entries[b]
      BY <2>2 DEF Enters
    <3>2. PICK v \in Users : /\ user[v].addr = b /\ user[v].obj = entries[b]
                             /\ Holding(v) /\ heap[b].obj = entries[b]
      BY <3>1 DEF IInv, NothingRetained, Holding
    <3>3. user'[v].pc \in {"live", "wiring", "unwiring"}
      BY <2>2, <3>1, <3>2 DEF Moves, Enters, Holding
    <3>. QED BY <3>1, <3>2, <3>3 DEF Moves
  <2>. QED BY <2>1, <2>2
<1>. QED BY <1>2, <1>3, <1>4, <1>5, <1>6, <1>7

-----------------------------------------------------------------------------
(* The actions keep the invariant.                                         *)

USE DEF NoObject, Idle, Away

\* A native object is created.
LEMMA CreateKeeps ==
  ASSUME IInv, NEW u \in Users, NEW a \in Addresses,
         NEW h \in Handlers, Create(u, a, h)
  PROVE  IInv'
<1>r. reg' = reg /\ UNCHANGED <<kind, entries, call>>
  BY DEF Create, reg
<1>g. /\ h # NoHandler /\ user[u].pc = "none" /\ heap[a] = NoObject
      /\ \A v \in Users : user[v].obj # h
      /\ \A b \in Addresses : heap[b].obj # h
  BY ConstantsAssumption DEF Create, ConstantsAssumption, Unused
<1>h. /\ heap'[a].obj = h /\ ~heap'[a].spent /\ ~heap'[a].doomed
      /\ \A b \in Addresses : b # a => heap'[b] = heap[b]
  BY <1>g DEF IInv, TypeOK, Create
<1>u. /\ user'[u].obj = h /\ user'[u].addr = a
      /\ user'[u].pc = IF reg.wired THEN "bare" ELSE "created"
      /\ \A v \in Users : v # u => user'[v] = user[v]
  BY DEF IInv, TypeOK, Create
<1>v. \A v \in Users : Using(v) => v # u /\ user[v].addr \in Addresses /\ user[v].addr # a
  <2>. SUFFICES ASSUME NEW v \in Users, Using(v)
                PROVE  v # u /\ user[v].addr \in Addresses /\ user[v].addr # a
    OBVIOUS
  <2>1. /\ user[v].obj # NoHandler /\ user[v].addr \in Addresses
        /\ heap[user[v].addr].obj = user[v].obj
    BY AloneAt
  <2>. QED BY <1>g, <2>1 DEF Using
<1>1. TypeOK'
  BY DEF IInv, TypeOK, Create
<1>2. Distinct'
  <2>1. ASSUME NEW v \in Users, NEW w \in Users, user'[v].obj = user'[w].obj
        PROVE  v = w \/ user'[v].obj = NoHandler
    BY <1>g, <1>u, <2>1 DEF IInv, Distinct
  <2>2. ASSUME NEW b \in Addresses, NEW c \in Addresses, heap'[b].obj = heap'[c].obj
        PROVE  b = c \/ heap'[b].obj = NoHandler
    BY <1>g, <1>h, <2>2 DEF IInv, Distinct
  <2>. QED BY <2>1, <2>2 DEF Distinct
<1>3. Owned'
  <2>. SUFFICES ASSUME NEW v \in Users
                PROVE  /\ user'[v].pc = "none" <=> user'[v].obj = NoHandler
                       /\ user'[v].pc \notin {"none", "freed"} =>
                             heap'[user'[v].addr].obj = user'[v].obj
                       /\ user'[v].pc = "bare" => reg.optional \/ reg.wired
                       /\ user'[v].pc = "dropped" => reg.destroy = "entry first"
                       /\ user'[v].pc = "freed" => reg.destroy = "native first"
    BY <1>r DEF Owned
  <2>1. CASE v = u
    BY <1>g, <1>h, <1>u, <2>1
  <2>2. CASE v # u
    <3>1. user'[v] = user[v] /\ (Using(v) => heap'[user[v].addr] = heap[user[v].addr])
      BY <1>h, <1>u, <1>v, <2>2
    <3>2. /\ user[v].pc = "none" <=> user[v].obj = NoHandler
          /\ user[v].pc \notin {"none", "freed"} =>
                heap[user[v].addr].obj = user[v].obj
          /\ user[v].pc = "bare" => reg.optional \/ reg.wired
          /\ user[v].pc = "dropped" => reg.destroy = "entry first"
          /\ user[v].pc = "freed" => reg.destroy = "native first"
      BY DEF IInv, Owned
    <3>3. user[v].pc \notin {"none", "freed"} => Using(v)
      BY DEF Using
    <3>. HIDE DEF Using, reg
    <3>. QED BY <3>1, <3>2, <3>3
  <2>. QED BY <2>1, <2>2
<1>4. Doomed'
  <2>. SUFFICES ASSUME NEW b \in Addresses, heap'[b].doomed
                PROVE  /\ reg.posted /\ heap'[b].obj # NoHandler
                       /\ \A v \in Users : user'[v].obj # heap'[b].obj
    BY <1>r DEF Doomed
  <2>1. heap'[b] = heap[b]
    BY <1>h
  <2>2. /\ reg.posted /\ heap[b].obj # NoHandler
        /\ \A v \in Users : user[v].obj # heap[b].obj
    BY <2>1 DEF IInv, Doomed
  <2>. QED BY <1>g, <1>u, <2>1, <2>2
<1>5. Cleanups'
  <2>1. \A b \in Addresses : call[b].pc = "clean" => heap'[b].spent
    BY <1>g, <1>h DEF IInv, Cleanups
  <2>2. \A v \in Users : user'[v].pc = "dropped" => user'[v] = user[v]
    BY <1>u
  <2>. QED BY <1>r, <2>1, <2>2 DEF IInv, Cleanups
<1>6. Entered'
  <2>1. ASSUME NEW v \in Users, user'[v].pc \in {"live", "wiring", "unwiring"},
               ~heap'[user'[v].addr].spent, reg.destroy # "native first"
        PROVE  entries[user'[v].addr] = user'[v].obj
    <3>1. v # u /\ user'[v] = user[v] /\ Using(v)
      BY <1>u, <2>1 DEF Using
    <3>2. heap'[user[v].addr] = heap[user[v].addr]
      BY <1>h, <1>v, <3>1
    <3>. QED BY <2>1, <3>1, <3>2 DEF IInv, Entered
  <2>. QED BY <1>r, <2>1 DEF IInv, Entered
<1>7. NothingRetained'
  <2>. SUFFICES ASSUME reg.destroy = "entry first", NEW b \in Addresses,
                       entries[b] # NoHandler
                PROVE  \E v \in Users : /\ user'[v].addr = b
                                        /\ user'[v].obj = entries[b]
                                        /\ user'[v].pc \in {"live", "wiring", "unwiring"}
                                        /\ heap'[b].obj = entries[b]
    BY <1>r DEF NothingRetained
  <2>1. PICK v \in Users : /\ user[v].addr = b /\ user[v].obj = entries[b]
                           /\ user[v].pc \in {"live", "wiring", "unwiring"}
                           /\ heap[b].obj = entries[b]
    BY DEF IInv, NothingRetained
  <2>2. v # u /\ b # a
    <3>1. user[u].pc = "none" /\ heap[a].obj = NoHandler
      <4>1. NoObject.obj = NoHandler
        OBVIOUS
      <4>. HIDE DEF NoObject
      <4>. QED BY <1>g, <4>1, Zenon
    <3>. QED BY <2>1, <3>1
  <2>3. user'[v] = user[v] /\ heap'[b] = heap[b]
    BY <1>h, <1>u, <2>2
  <2>. QED BY <2>1, <2>3
<1>. QED BY <1>1, <1>2, <1>3, <1>4, <1>5, <1>6, <1>7 DEF IInv

\* Its handler is entered.
LEMMA RegisterKeeps ==
  ASSUME IInv, NEW u \in Users, Register(u)
  PROVE  IInv'
<1>1. TypeOK /\ user[u].addr \in Addresses /\ user[u].obj \in Handlers \cup {NoHandler}
  BY DEF IInv, TypeOK
<1>2. TypeOK'
  BY <1>1, GotoTypes, EnterTypes DEF TypeOK, Register
<1>3. Moves(u, "live") /\ Enters(user[u].addr, user[u].obj) /\ Using(u)
  BY <1>1, GotoMoves, EnterEnters DEF Register, Using
<1>4. reg' = reg /\ UNCHANGED <<heap, call>>
  BY DEF Register, reg
<1>. QED BY <1>2, <1>3, <1>4, MoveKeeps DEF IInv

\* It has no handler.
LEMMA RegisterNothingKeeps ==
  ASSUME IInv, NEW u \in Users, RegisterNothing(u)
  PROVE  IInv'
<1>1. TypeOK
  BY DEF IInv
<1>2. TypeOK'
  BY <1>1, GotoTypes DEF TypeOK, RegisterNothing
<1>3. Moves(u, "bare") /\ Using(u) /\ ~Holding(u) /\ reg.optional
  BY <1>1, GotoMoves DEF RegisterNothing, Using, Holding
<1>4. reg' = reg /\ UNCHANGED <<entries, heap, call>>
  BY DEF RegisterNothing, reg
<1>. QED BY <1>2, <1>3, <1>4, MoveKeeps DEF IInv

\* A dialer is set: the entry, then the native pointer.
LEMMA SetDialerKeeps ==
  ASSUME IInv, NEW u \in Users, SetDialer(u)
  PROVE  IInv'
<1>1. TypeOK /\ user[u].addr \in Addresses /\ user[u].obj \in Handlers \cup {NoHandler}
  BY DEF IInv, TypeOK
<1>2. reg' = reg /\ UNCHANGED <<heap, call>>
  BY DEF SetDialer, reg
<1>3. CASE /\ user[u].pc \in {"bare", "live"}
           /\ Enter(user[u].addr, user[u].obj) /\ Goto(u, "wiring")
  <2>1. TypeOK'
    BY <1>1, <1>2, <1>3, GotoTypes, EnterTypes DEF TypeOK, SetDialer
  <2>2. Moves(u, "wiring") /\ Enters(user[u].addr, user[u].obj) /\ Using(u)
    BY <1>1, <1>3, GotoMoves, EnterEnters DEF Using
  <2>. QED BY <1>2, <2>1, <2>2, MoveKeeps DEF IInv
<1>4. CASE user[u].pc = "wiring" /\ Goto(u, "live") /\ UNCHANGED entries
  <2>1. TypeOK'
    BY <1>1, <1>2, <1>4, GotoTypes DEF TypeOK, SetDialer
  <2>2. Moves(u, "live") /\ Using(u) /\ Holding(u)
    BY <1>1, <1>4, GotoMoves DEF Using, Holding
  <2>. QED BY <1>2, <1>4, <2>1, <2>2, MoveKeeps DEF IInv
<1>. QED BY <1>3, <1>4 DEF SetDialer

\* A dialer is unset: the native pointer, then the entry.
LEMMA UnsetDialerKeeps ==
  ASSUME IInv, NEW u \in Users, UnsetDialer(u)
  PROVE  IInv'
<1>1. TypeOK /\ user[u].addr \in Addresses
  BY DEF IInv, TypeOK
<1>2. reg' = reg /\ UNCHANGED <<heap, call>> /\ reg.wired
  BY DEF UnsetDialer, reg
<1>3. CASE user[u].pc = "live" /\ Goto(u, "unwiring") /\ UNCHANGED entries
  <2>1. TypeOK'
    BY <1>1, <1>2, <1>3, GotoTypes DEF TypeOK, UnsetDialer
  <2>2. Moves(u, "unwiring") /\ Using(u) /\ Holding(u)
    BY <1>1, <1>3, GotoMoves DEF Using, Holding
  <2>. QED BY <1>2, <1>3, <2>1, <2>2, MoveKeeps DEF IInv
<1>4. CASE user[u].pc = "unwiring" /\ Drop(user[u].addr) /\ Goto(u, "bare")
  <2>1. TypeOK'
    BY <1>1, <1>2, <1>4, GotoTypes, EnterTypes DEF TypeOK, UnsetDialer, Drop
  <2>2. Moves(u, "bare") /\ Enters(user[u].addr, NoHandler) /\ Using(u)
    BY <1>1, <1>4, GotoMoves, EnterEnters DEF Drop, Using
  <2>. QED BY <1>2, <2>1, <2>2, MoveKeeps DEF IInv
<1>. QED BY <1>3, <1>4 DEF UnsetDialer

\* Destroy drops the entry.
LEMMA DropEntryKeeps ==
  ASSUME IInv, NEW u \in Users, DropEntry(u)
  PROVE  IInv'
<1>1. TypeOK /\ user[u].addr \in Addresses
  BY DEF IInv, TypeOK
<1>2. TypeOK'
  BY DEF IInv, TypeOK, DropEntry, Drop, Enter, Goto
<1>3. Moves(u, "dropped") /\ Enters(user[u].addr, NoHandler) /\ Using(u)
  BY <1>1, GotoMoves, EnterEnters DEF DropEntry, MayDestroy, Drop, Using
<1>4. /\ reg' = reg /\ UNCHANGED <<heap, call>> /\ reg.destroy = "entry first"
      /\ reg.posted \/ call[user[u].addr].pc # "clean"
  BY DEF DropEntry, MayDestroy, reg
<1>. QED BY <1>2, <1>3, <1>4, MoveKeeps DEF IInv

\* Destroy deletes the native object, or posts its deletion.
LEMMA DestroyNativeKeeps ==
  ASSUME IInv, NEW u \in Users, DestroyNative(u)
  PROVE  IInv'
<1>. DEFINE a == user[u].addr
<1>r. reg' = reg /\ UNCHANGED <<kind, entries, call>>
  BY DEF DestroyNative, reg
<1>d. Regular(reg)
  BY RegRegular DEF IInv
<1>g. /\ Using(u)
      /\ reg.destroy = "entry first" => user[u].pc = "dropped"
      /\ user[u].pc = "dropped" \/ reg.posted \/ call[a].pc # "clean"
  BY DEF DestroyNative, MayDestroy, Using
<1>o. /\ user[u].obj # NoHandler /\ a \in Addresses /\ heap[a].obj = user[u].obj
      /\ \A v \in Users : Using(v) /\ user[v].addr = a => v = u
      /\ \A v \in Users : user[v].obj = user[u].obj => v = u
  BY <1>g, AloneAt
<1>h. /\ reg.posted => /\ heap'[a].obj = heap[a].obj /\ heap'[a].spent = heap[a].spent
      /\ ~reg.posted => heap'[a] = NoObject
      /\ \A b \in Addresses : b # a => heap'[b] = heap[b]
  <2>1. heap' = [heap EXCEPT ![a] = IF reg.posted THEN [heap[a] EXCEPT !.doomed = TRUE]
                                    ELSE NoObject]
    BY DEF DestroyNative
  <2>2. heap \in [Addresses -> [obj : Handlers \cup {NoHandler},
                               spent : BOOLEAN, doomed : BOOLEAN]]
    BY DEF IInv, TypeOK
  <2>. HIDE DEF a, NoObject
  <2>3. /\ heap'[a] = IF reg.posted THEN [heap[a] EXCEPT !.doomed = TRUE] ELSE NoObject
        /\ \A b \in Addresses : b # a => heap'[b] = heap[b]
    BY <1>o, <2>1, <2>2
  <2>4. heap[a] \in [obj : Handlers \cup {NoHandler}, spent : BOOLEAN, doomed : BOOLEAN]
    BY <1>o, <2>2
  <2>. QED BY <2>3, <2>4
<1>u. /\ user'[u].addr = a
      /\ IF reg.destroy = "native first"
         THEN user'[u].pc = "freed" /\ user'[u].obj = user[u].obj
         ELSE user'[u].pc = "none" /\ user'[u].obj = NoHandler
      /\ \A v \in Users : v # u => user'[v] = user[v]
  BY DEF IInv, TypeOK, DestroyNative
<1>v. \A v \in Users : Using(v) /\ v # u =>
        user[v].addr \in Addresses /\ heap'[user[v].addr] = heap[user[v].addr]
  BY <1>h, <1>o DEF IInv, TypeOK
<1>1. TypeOK'
  <2>1. heap \in [Addresses -> [obj : Handlers \cup {NoHandler},
                               spent : BOOLEAN, doomed : BOOLEAN]]
    BY DEF IInv, TypeOK
  <2>2. /\ NoObject \in [obj : Handlers \cup {NoHandler}, spent : BOOLEAN, doomed : BOOLEAN]
        /\ [heap[a] EXCEPT !.doomed = TRUE] \in
             [obj : Handlers \cup {NoHandler}, spent : BOOLEAN, doomed : BOOLEAN]
    BY <1>o, <2>1
  <2>3. heap' \in [Addresses -> [obj : Handlers \cup {NoHandler},
                                spent : BOOLEAN, doomed : BOOLEAN]]
    BY <2>1, <2>2 DEF DestroyNative
  <2>4. user' \in [Users -> [pc : {"none", "created", "bare", "wiring", "live",
                                  "unwiring", "dropped", "freed"},
                            obj : Handlers \cup {NoHandler}, addr : Addresses]]
    <3>1. user \in [Users -> [pc : {"none", "created", "bare", "wiring", "live",
                                    "unwiring", "dropped", "freed"},
                              obj : Handlers \cup {NoHandler}, addr : Addresses]]
      BY DEF IInv, TypeOK
    <3>2. user[u] \in [pc : {"none", "created", "bare", "wiring", "live",
                             "unwiring", "dropped", "freed"},
                       obj : Handlers \cup {NoHandler}, addr : Addresses]
      BY <3>1
    <3>3. /\ Away(user[u].addr) \in
                [pc : {"none", "created", "bare", "wiring", "live",
                       "unwiring", "dropped", "freed"},
                 obj : Handlers \cup {NoHandler}, addr : Addresses]
          /\ [user[u] EXCEPT !.pc = "freed"] \in
                [pc : {"none", "created", "bare", "wiring", "live",
                       "unwiring", "dropped", "freed"},
                 obj : Handlers \cup {NoHandler}, addr : Addresses]
      BY <3>2
    <3>. QED BY <3>1, <3>3 DEF DestroyNative
  <2>. QED BY <1>r, <2>3, <2>4 DEF IInv, TypeOK
<1>. HIDE DEF a
<1>2. Distinct'
  <2>1. ASSUME NEW v \in Users, NEW w \in Users, user'[v].obj = user'[w].obj
        PROVE  v = w \/ user'[v].obj = NoHandler
    <3>1. \A x \in Users : user'[x].obj \in {user[x].obj, NoHandler}
      BY <1>u
    <3>. QED BY <2>1, <3>1 DEF IInv, Distinct
  <2>2. ASSUME NEW b \in Addresses, NEW c \in Addresses, heap'[b].obj = heap'[c].obj
        PROVE  b = c \/ heap'[b].obj = NoHandler
    <3>1. \A x \in Addresses : heap'[x].obj \in {heap[x].obj, NoHandler}
      BY <1>h
    <3>. QED BY <2>2, <3>1 DEF IInv, Distinct
  <2>. QED BY <2>1, <2>2 DEF Distinct
<1>3. Owned'
  <2>. SUFFICES ASSUME NEW v \in Users
                PROVE  /\ user'[v].pc = "none" <=> user'[v].obj = NoHandler
                       /\ user'[v].pc \notin {"none", "freed"} =>
                             heap'[user'[v].addr].obj = user'[v].obj
                       /\ user'[v].pc = "bare" => reg.optional \/ reg.wired
                       /\ user'[v].pc = "dropped" => reg.destroy = "entry first"
                       /\ user'[v].pc = "freed" => reg.destroy = "native first"
    BY <1>r DEF Owned
  <2>1. CASE v = u
    BY <1>o, <1>u, <2>1
  <2>2. CASE v # u
    <3>1. user'[v] = user[v] /\ (Using(v) => heap'[user[v].addr] = heap[user[v].addr])
      BY <1>u, <1>v, <2>2
    <3>2. /\ user[v].pc = "none" <=> user[v].obj = NoHandler
          /\ user[v].pc \notin {"none", "freed"} =>
                heap[user[v].addr].obj = user[v].obj
          /\ user[v].pc = "bare" => reg.optional \/ reg.wired
          /\ user[v].pc = "dropped" => reg.destroy = "entry first"
          /\ user[v].pc = "freed" => reg.destroy = "native first"
      BY DEF IInv, Owned
    <3>3. user[v].pc \notin {"none", "freed"} => Using(v)
      BY DEF Using
    <3>. HIDE DEF Using, reg
    <3>. QED BY <3>1, <3>2, <3>3
  <2>. QED BY <2>1, <2>2
<1>4. Doomed'
  <2>. SUFFICES ASSUME NEW b \in Addresses, heap'[b].doomed
                PROVE  /\ reg.posted /\ heap'[b].obj # NoHandler
                       /\ \A v \in Users : user'[v].obj # heap'[b].obj
    BY <1>r DEF Doomed
  <2>1. CASE b = a
    <3>1. reg.posted
      BY <1>h, <2>1
    <3>2. user'[u].obj = NoHandler
      BY <1>d, <1>u, <3>1 DEF Regular
    <3>. QED BY <1>h, <1>o, <1>u, <2>1, <3>1, <3>2
  <2>2. CASE b # a
    <3>1. heap'[b] = heap[b] /\ heap[b].doomed
      BY <1>h, <2>2
    <3>2. /\ reg.posted /\ heap[b].obj # NoHandler
          /\ \A v \in Users : user[v].obj # heap[b].obj
      BY <3>1 DEF IInv, Doomed
    <3>3. \A v \in Users : user'[v].obj \in {user[v].obj, NoHandler}
      BY <1>u
    <3>. QED BY <3>1, <3>2, <3>3
  <2>. QED BY <2>1, <2>2
<1>5. Cleanups'
  <2>1. ~reg.posted => call[a].pc # "clean"
    BY <1>g DEF IInv, Cleanups, a
  <2>2. \A b \in Addresses : call[b].pc = "clean" => heap'[b].spent
    BY <1>h, <2>1 DEF IInv, Cleanups
  <2>3. \A v \in Users : user'[v].pc = "dropped" => user'[v] = user[v]
    BY <1>u
  <2>. QED BY <1>r, <2>2, <2>3 DEF IInv, Cleanups
<1>6. Entered'
  <2>1. ASSUME NEW v \in Users, user'[v].pc \in {"live", "wiring", "unwiring"},
               ~heap'[user'[v].addr].spent, reg.destroy # "native first"
        PROVE  entries[user'[v].addr] = user'[v].obj
    <3>1. v # u /\ user'[v] = user[v] /\ Using(v)
      BY <1>u, <2>1 DEF Using
    <3>2. heap'[user[v].addr] = heap[user[v].addr]
      BY <1>v, <3>1
    <3>. QED BY <2>1, <3>1, <3>2 DEF IInv, Entered
  <2>. QED BY <1>r, <2>1 DEF IInv, Entered
<1>7. NothingRetained'
  <2>. SUFFICES ASSUME reg.destroy = "entry first", NEW b \in Addresses,
                       entries[b] # NoHandler
                PROVE  \E v \in Users : /\ user'[v].addr = b
                                        /\ user'[v].obj = entries[b]
                                        /\ user'[v].pc \in {"live", "wiring", "unwiring"}
                                        /\ heap'[b].obj = entries[b]
    BY <1>r DEF NothingRetained
  <2>1. user[u].pc = "dropped" /\ ~Holding(u)
    BY <1>g DEF Holding
  <2>2. b # a
    BY <1>g, <2>1, EntryGone DEF a
  <2>3. PICK v \in Users : /\ user[v].addr = b /\ user[v].obj = entries[b]
                           /\ user[v].pc \in {"live", "wiring", "unwiring"}
                           /\ heap[b].obj = entries[b]
    BY DEF IInv, NothingRetained
  <2>4. v # u
    BY <2>1, <2>3 DEF Holding
  <2>5. user'[v] = user[v] /\ heap'[b] = heap[b]
    BY <1>h, <1>u, <2>2, <2>4
  <2>. QED BY <2>3, <2>5
<1>. QED BY <1>1, <1>2, <1>3, <1>4, <1>5, <1>6, <1>7 DEF IInv

\* Destroy drops the entry, where the native object went first.
LEMMA DropEntryLateKeeps ==
  ASSUME IInv, NEW u \in Users, DropEntryLate(u)
  PROVE  IInv'
<1>r. reg' = reg /\ UNCHANGED <<kind, heap, call>>
  BY DEF DropEntryLate, reg
<1>g. user[u].pc = "freed" /\ reg.destroy = "native first"
  BY DEF DropEntryLate, IInv, Owned
<1>u. /\ user'[u].pc = "none" /\ user'[u].obj = NoHandler
      /\ \A v \in Users : v # u => user'[v] = user[v]
  BY DEF IInv, TypeOK, DropEntryLate
<1>o. \A v \in Users : user'[v].obj \in {user[v].obj, NoHandler}
  BY <1>u
<1>1. TypeOK'
  BY DEF IInv, TypeOK, DropEntryLate, Drop, Enter
<1>2. Distinct'
  <2>1. ASSUME NEW v \in Users, NEW w \in Users, user'[v].obj = user'[w].obj
        PROVE  v = w \/ user'[v].obj = NoHandler
    BY <1>o, <2>1 DEF IInv, Distinct
  <2>. QED BY <1>r, <2>1 DEF IInv, Distinct
<1>3. Owned'
  <2>1. \A v \in Users : v # u => user'[v] = user[v]
    BY <1>u
  <2>. QED BY <1>r, <1>u, <2>1 DEF IInv, Owned
<1>4. Doomed'
  BY <1>r, <1>o DEF IInv, Doomed
<1>5. Cleanups'
  <2>1. \A v \in Users : user'[v].pc = "dropped" => user'[v] = user[v]
    BY <1>u
  <2>. QED BY <1>r, <2>1 DEF IInv, Cleanups
<1>6. Entered' /\ NothingRetained'
  BY <1>r, <1>g DEF Entered, NothingRetained
<1>. QED BY <1>1, <1>2, <1>3, <1>4, <1>5, <1>6 DEF IInv

\* The posted deletion runs.
LEMMA DeleteKeeps ==
  ASSUME IInv, NEW a \in Addresses, Delete(a)
  PROVE  IInv'
<1>r. reg' = reg /\ UNCHANGED <<kind, entries, user, call>>
  BY DEF Delete, reg
<1>g. heap[a].doomed /\ call[a].pc = "idle"
  BY DEF Delete
<1>h. heap'[a] = NoObject /\ \A b \in Addresses : b # a => heap'[b] = heap[b]
  BY DEF IInv, TypeOK, Delete
<1>o. \A v \in Users : user[v].obj # heap[a].obj
  BY <1>g DEF IInv, Doomed
<1>v. \A v \in Users : Using(v) => heap'[user[v].addr] = heap[user[v].addr]
  <2>. SUFFICES ASSUME NEW v \in Users, Using(v)
                PROVE  heap'[user[v].addr] = heap[user[v].addr]
    OBVIOUS
  <2>1. user[v].addr \in Addresses /\ heap[user[v].addr].obj = user[v].obj
    BY AloneAt
  <2>. QED BY <1>h, <1>o, <2>1
<1>1. TypeOK'
  BY DEF IInv, TypeOK, Delete
<1>2. Distinct'
  <2>1. ASSUME NEW b \in Addresses, NEW c \in Addresses, heap'[b].obj = heap'[c].obj
        PROVE  b = c \/ heap'[b].obj = NoHandler
    BY <1>h, <2>1 DEF IInv, Distinct
  <2>. QED BY <1>r, <2>1 DEF IInv, Distinct
<1>3. Owned'
  <2>1. \A v \in Users : Using(v) => heap'[user[v].addr].obj = user[v].obj
    BY <1>v, AloneAt
  <2>. QED BY <1>r, <2>1 DEF IInv, Owned, Using
<1>4. Doomed'
  <2>1. \A b \in Addresses : heap'[b].doomed => heap'[b] = heap[b]
    BY <1>h
  <2>. QED BY <1>r, <2>1 DEF IInv, Doomed
<1>5. Cleanups'
  BY <1>r, <1>g, <1>h DEF IInv, Cleanups
<1>6. Entered'
  <2>1. \A v \in Users : user[v].pc \in {"live", "wiring", "unwiring"} =>
           heap'[user[v].addr] = heap[user[v].addr]
    BY <1>v DEF Using
  <2>. QED BY <1>r, <2>1 DEF IInv, Entered
<1>7. NothingRetained'
  <2>. SUFFICES ASSUME reg.destroy = "entry first", NEW b \in Addresses,
                       entries[b] # NoHandler
                PROVE  \E v \in Users : /\ user[v].addr = b
                                        /\ user[v].obj = entries[b]
                                        /\ user[v].pc \in {"live", "wiring", "unwiring"}
                                        /\ heap'[b].obj = entries[b]
    BY <1>r DEF NothingRetained
  <2>1. PICK v \in Users : /\ user[v].addr = b /\ user[v].obj = entries[b]
                           /\ user[v].pc \in {"live", "wiring", "unwiring"}
                           /\ heap[b].obj = entries[b]
    BY DEF IInv, NothingRetained
  <2>2. heap'[b] = heap[b]
    BY <1>v, <2>1 DEF Using
  <2>. QED BY <2>1, <2>2
<1>. QED BY <1>1, <1>2, <1>3, <1>4, <1>5, <1>6, <1>7 DEF IInv

\* A callback comes in.
LEMMA OnCallbackKeeps ==
  ASSUME IInv, NEW a \in Addresses,
         NEW c \in DOMAIN reg.calls, OnCallback(a, c)
  PROVE  IInv'
<1>. DEFINE effect == reg.calls[c]
<1>r. reg' = reg /\ UNCHANGED <<kind, user>>
  BY DEF OnCallback, reg
<1>d. Regular(reg)
  BY RegRegular DEF IInv
<1>g. /\ heap[a].obj # NoHandler /\ ~heap[a].spent /\ call[a].pc = "idle"
      /\ \/ heap[a].doomed
         \/ \E u \in Users : /\ user[u].obj = heap[a].obj
                             /\ user[u].pc \in {"live", "bare", "dropped"}
                             /\ user[u].pc = "dropped" => reg.posted
                             /\ user[u].pc = "bare" => ~reg.wired
  BY DEF OnCallback, Calls
<1>h. /\ heap'[a].obj = heap[a].obj /\ heap'[a].doomed = heap[a].doomed
      /\ heap'[a].spent <=> effect # "plain"
      /\ \A b \in Addresses : b # a => heap'[b] = heap[b]
  <2>1. heap' = [heap EXCEPT ![a].spent = effect # "plain"]
    BY DEF OnCallback
  <2>2. heap \in [Addresses -> [obj : Handlers \cup {NoHandler},
                               spent : BOOLEAN, doomed : BOOLEAN]]
    BY DEF IInv, TypeOK
  <2>. HIDE DEF effect
  <2>3. /\ heap'[a] = [heap[a] EXCEPT !.spent = effect # "plain"]
        /\ \A b \in Addresses : b # a => heap'[b] = heap[b]
    BY <2>1, <2>2
  <2>4. heap[a] \in [obj : Handlers \cup {NoHandler}, spent : BOOLEAN, doomed : BOOLEAN]
    BY <2>2
  <2>. QED BY <2>3, <2>4
<1>c. /\ IF entries[a] = NoHandler THEN call'[a] = Idle
         ELSE /\ call'[a].pc = IF effect = "last" THEN "clean" ELSE "handler"
              /\ call'[a].entry = entries[a] /\ call'[a].of = heap[a].obj
      /\ \A b \in Addresses : b # a => call'[b] = call[b]
  BY DEF IInv, TypeOK, OnCallback
<1>e. \A b \in Addresses : entries'[b] = IF b = a /\ effect = "take" THEN NoHandler
                                         ELSE entries[b]
  BY DEF IInv, TypeOK, OnCallback, Drop, Enter
<1>1. TypeOK'
  <2>1. heap' \in [Addresses -> [obj : Handlers \cup {NoHandler},
                                spent : BOOLEAN, doomed : BOOLEAN]]
    <3>1. heap \in [Addresses -> [obj : Handlers \cup {NoHandler},
                                 spent : BOOLEAN, doomed : BOOLEAN]]
      BY DEF IInv, TypeOK
    <3>2. (effect # "plain") \in BOOLEAN
      OBVIOUS
    <3>3. heap' = [heap EXCEPT ![a].spent = effect # "plain"]
      BY DEF OnCallback
    <3>. HIDE DEF effect
    <3>. QED BY <3>1, <3>2, <3>3
  <2>2. entries' \in [Addresses -> Handlers \cup {NoHandler}]
    BY DEF IInv, TypeOK, OnCallback, Drop, Enter
  <2>3. call' \in [Addresses -> [pc : {"idle", "clean", "handler"},
                                 entry : Handlers \cup {NoHandler},
                                 of : Handlers \cup {NoHandler}]]
    BY DEF IInv, TypeOK, OnCallback
  <2>. QED BY <1>r, <2>1, <2>2, <2>3 DEF IInv, TypeOK
<1>. HIDE DEF effect
<1>s. \A b \in Addresses : heap'[b].obj = heap[b].obj /\ heap'[b].doomed = heap[b].doomed
  BY <1>h
<1>2. Distinct'
  BY <1>r, <1>s DEF IInv, Distinct
<1>3. Owned'
  <2>1. \A v \in Users : user[v].addr \in Addresses
    BY DEF IInv, TypeOK
  <2>. QED BY <1>r, <1>s, <2>1 DEF IInv, Owned
<1>4. Doomed'
  BY <1>r, <1>s DEF IInv, Doomed
<1>5. Cleanups'
  <2>1. \A b \in Addresses : call'[b].pc = "clean" => heap'[b].spent
    BY <1>c, <1>h DEF IInv, Cleanups
  <2>2. ASSUME NEW v \in Users, user[v].pc = "dropped", ~reg.posted
        PROVE  call'[user[v].addr].pc # "clean"
    <3>1. Using(v)
      BY <2>2 DEF Using
    <3>2. /\ user[v].addr \in Addresses /\ heap[user[v].addr].obj = user[v].obj
          /\ \A w \in Users : user[w].obj = user[v].obj => w = v
      BY <3>1, AloneAt
    <3>3. user[v].addr # a
      <4>. SUFFICES ASSUME user[v].addr = a
                    PROVE  FALSE
        OBVIOUS
      <4>1. ~heap[a].doomed
        BY <2>2 DEF IInv, Doomed
      <4>. QED BY <1>g, <2>2, <3>2, <4>1
    <3>. QED BY <1>c, <2>2, <3>2, <3>3 DEF IInv, Cleanups
  <2>. QED BY <1>r, <2>1, <2>2 DEF Cleanups
<1>6. Entered'
  <2>. SUFFICES ASSUME reg.destroy # "native first"
                PROVE  /\ \A v \in Users :
                            /\ user[v].pc \in {"live", "wiring", "unwiring"}
                            /\ ~heap'[user[v].addr].spent
                            => entries'[user[v].addr] = user[v].obj
                       /\ \A b \in Addresses : call'[b].entry = call'[b].of
    BY <1>r DEF Entered
  <2>1. ASSUME NEW v \in Users, user[v].pc \in {"live", "wiring", "unwiring"},
               ~heap'[user[v].addr].spent
        PROVE  entries'[user[v].addr] = user[v].obj
    <3>1. user[v].addr \in Addresses
      BY DEF IInv, TypeOK
    <3>2. ~heap[user[v].addr].spent
      BY <1>g, <1>h, <2>1, <3>1
    <3>3. entries[user[v].addr] = user[v].obj
      BY <2>1, <3>2 DEF IInv, Entered
    <3>4. user[v].addr = a => effect = "plain"
      BY <1>h, <2>1
    <3>. QED BY <1>e, <3>1, <3>3, <3>4
  <2>2. ASSUME entries[a] # NoHandler
        PROVE  entries[a] = heap[a].obj
    <3>1. CASE reg.destroy = "entry first"
      BY <2>2, <3>1 DEF IInv, NothingRetained
    <3>2. CASE reg.destroy # "entry first"
      <4>1. ~reg.posted /\ ~reg.optional /\ ~reg.wired
        BY <1>d, <3>2 DEF Regular
      <4>2. ~heap[a].doomed
        BY <4>1 DEF IInv, Doomed
      <4>3. PICK u \in Users : /\ user[u].obj = heap[a].obj
                               /\ user[u].pc \in {"live", "bare"}
        BY <1>g, <4>1, <4>2
      <4>4. user[u].pc = "live" /\ Using(u)
        BY <4>1, <4>3 DEF IInv, Owned, Using
      <4>5. user[u].addr = a
        BY <4>3, <4>4, AloneAt
      <4>. QED BY <1>g, <4>3, <4>4, <4>5 DEF IInv, Entered
    <3>. QED BY <3>1, <3>2
  <2>3. \A b \in Addresses : call[b].entry = call[b].of
    BY DEF IInv, Entered
  <2>4. ASSUME NEW b \in Addresses
        PROVE  call'[b].entry = call'[b].of
    <3>1. CASE b = a /\ entries[a] = NoHandler
      <4>1. call'[a] = Idle /\ call'[a].entry = NoHandler /\ call'[a].of = NoHandler
        BY <3>1 DEF IInv, TypeOK, OnCallback
      <4>2. call'[a].entry = call'[a].of
        BY <4>1
      <4>. QED BY <3>1, <4>2
    <3>2. CASE b = a /\ entries[a] # NoHandler
      BY <1>c, <2>2, <3>2
    <3>3. CASE b # a
      BY <1>c, <2>3, <3>3
    <3>. QED BY <3>1, <3>2, <3>3
  <2>. QED BY <2>1, <2>4
<1>7. NothingRetained'
  <2>. SUFFICES ASSUME reg.destroy = "entry first", NEW b \in Addresses,
                       entries'[b] # NoHandler
                PROVE  \E v \in Users : /\ user[v].addr = b
                                        /\ user[v].obj = entries'[b]
                                        /\ user[v].pc \in {"live", "wiring", "unwiring"}
                                        /\ heap'[b].obj = entries'[b]
    BY <1>r DEF NothingRetained
  <2>1. entries'[b] = entries[b]
    BY <1>e
  <2>2. PICK v \in Users : /\ user[v].addr = b /\ user[v].obj = entries[b]
                           /\ user[v].pc \in {"live", "wiring", "unwiring"}
                           /\ heap[b].obj = entries[b]
    BY <2>1 DEF IInv, NothingRetained
  <2>. QED BY <1>s, <2>1, <2>2
<1>. QED BY <1>1, <1>2, <1>3, <1>4, <1>5, <1>6, <1>7 DEF IInv

\* The last callback of an object drops the entry.
LEMMA CleanupKeeps ==
  ASSUME IInv, NEW a \in Addresses, Cleanup(a)
  PROVE  IInv'
<1>r. reg' = reg /\ UNCHANGED <<kind, heap, user>>
  BY DEF Cleanup, reg
<1>g. heap[a].spent
  BY DEF Cleanup, IInv, Cleanups
<1>e. \A b \in Addresses : entries'[b] = IF b = a THEN NoHandler ELSE entries[b]
  BY DEF IInv, TypeOK, Cleanup, Drop, Enter
<1>c. /\ call'[a].pc = "handler"
      /\ \A b \in Addresses : /\ b # a => call'[b] = call[b]
                              /\ call'[b].entry = call[b].entry /\ call'[b].of = call[b].of
  BY DEF IInv, TypeOK, Cleanup
<1>1. TypeOK'
  <2>1. entries' \in [Addresses -> Handlers \cup {NoHandler}]
    BY DEF IInv, TypeOK, Cleanup, Drop, Enter
  <2>2. call' \in [Addresses -> [pc : {"idle", "clean", "handler"},
                                entry : Handlers \cup {NoHandler},
                                of : Handlers \cup {NoHandler}]]
    BY DEF IInv, TypeOK, Cleanup
  <2>. QED BY <1>r, <2>1, <2>2 DEF IInv, TypeOK
<1>2. Distinct' /\ Owned' /\ Doomed'
  BY <1>r DEF IInv, Distinct, Owned, Doomed
<1>3. Cleanups'
  <2>1. \A b \in Addresses : call'[b].pc = "clean" => call[b].pc = "clean"
    BY <1>c
  <2>2. \A v \in Users : user[v].addr \in Addresses
    BY DEF IInv, TypeOK
  <2>. QED BY <1>r, <2>1, <2>2 DEF IInv, Cleanups
<1>4. Entered'
  <2>. SUFFICES ASSUME reg.destroy # "native first"
                PROVE  /\ \A v \in Users :
                            /\ user[v].pc \in {"live", "wiring", "unwiring"}
                            /\ ~heap[user[v].addr].spent
                            => entries'[user[v].addr] = user[v].obj
                       /\ \A b \in Addresses : call'[b].entry = call'[b].of
    BY <1>r DEF Entered
  <2>1. ASSUME NEW v \in Users, ~heap[user[v].addr].spent
        PROVE  entries'[user[v].addr] = entries[user[v].addr]
    <3>1. user[v].addr \in Addresses /\ user[v].addr # a
      BY <1>g, <2>1 DEF IInv, TypeOK
    <3>. QED BY <1>e, <3>1
  <2>. QED BY <1>c, <2>1 DEF IInv, Entered
<1>5. NothingRetained'
  <2>1. \A b \in Addresses : entries'[b] # NoHandler => entries'[b] = entries[b]
    BY <1>e
  <2>2. reg.destroy = "entry first" =>
          \A b \in Addresses : entries[b] # NoHandler =>
            \E v \in Users : /\ user[v].addr = b /\ user[v].obj = entries[b]
                            /\ user[v].pc \in {"live", "wiring", "unwiring"}
                            /\ heap[b].obj = entries[b]
    BY DEF IInv, NothingRetained
  <2>. SUFFICES ASSUME reg.destroy = "entry first", NEW b \in Addresses,
                       entries'[b] # NoHandler
                PROVE  \E v \in Users : /\ user[v].addr = b /\ user[v].obj = entries'[b]
                                        /\ user[v].pc \in {"live", "wiring", "unwiring"}
                                        /\ heap[b].obj = entries'[b]
    BY <1>r DEF NothingRetained
  <2>3. entries'[b] = entries[b]
    BY <2>1
  <2>4. PICK v \in Users : /\ user[v].addr = b /\ user[v].obj = entries[b]
                           /\ user[v].pc \in {"live", "wiring", "unwiring"}
                           /\ heap[b].obj = entries[b]
    BY <2>2, <2>3
  <2>. QED BY <2>3, <2>4
<1>. QED BY <1>1, <1>2, <1>3, <1>4, <1>5 DEF IInv

\* The handler returns.
LEMMA ReturnKeeps ==
  ASSUME IInv, NEW a \in Addresses, Return(a)
  PROVE  IInv'
<1>r. reg' = reg /\ UNCHANGED <<kind, entries, heap, user>>
  BY DEF Return, reg
<1>c. call'[a] = Idle /\ \A b \in Addresses : b # a => call'[b] = call[b]
  BY DEF IInv, TypeOK, Return
<1>1. TypeOK'
  BY DEF IInv, TypeOK, Return
<1>2. Distinct' /\ Owned' /\ Doomed'
  BY <1>r DEF IInv, Distinct, Owned, Doomed
<1>5. NothingRetained'
  BY <1>r, Zenon DEF IInv, NothingRetained
<1>3. Cleanups'
  <2>1. \A b \in Addresses : call'[b].pc = "clean" => call[b].pc = "clean"
    BY <1>c
  <2>2. \A v \in Users : user[v].addr \in Addresses
    BY DEF IInv, TypeOK
  <2>. QED BY <1>r, <2>1, <2>2 DEF IInv, Cleanups
<1>4. Entered'
  <2>1. call'[a].entry = call'[a].of
    BY <1>c
  <2>2. reg.destroy # "native first" => \A b \in Addresses : call[b].entry = call[b].of
    BY DEF IInv, Entered
  <2>3. reg.destroy # "native first" => \A b \in Addresses : call'[b].entry = call'[b].of
    BY <1>c, <2>1, <2>2
  <2>. QED BY <1>r, <2>3 DEF IInv, Entered
<1>. QED BY <1>1, <1>2, <1>3, <1>4, <1>5 DEF IInv

-----------------------------------------------------------------------------
(* The theorems.                                                           *)

\* The invariant of the registries holds at first.
LEMMA InitIInv ==
  ASSUME Init
  PROVE  IInv
<1>1. TypeOK
  BY DEF Init, TypeOK
<1>2. /\ \A u \in Users : user[u].pc = "none" /\ user[u].obj = NoHandler
      /\ \A a \in Addresses : /\ entries[a] = NoHandler
                              /\ heap[a].obj = NoHandler /\ ~heap[a].doomed
                              /\ call[a].pc = "idle" /\ call[a].entry = call[a].of
      /\ \A u \in Users : user[u].addr \in Addresses
  BY DEF Init
<1>3. Distinct /\ Owned /\ Doomed /\ Cleanups
  <2>1. Distinct
    BY <1>2 DEF Distinct
  <2>2. Owned
    BY <1>2 DEF Owned
  <2>3. Doomed
    BY <1>2 DEF Doomed
  <2>4. Cleanups
    BY <1>2 DEF Cleanups
  <2>. QED BY <2>1, <2>2, <2>3, <2>4
<1>4. Entered /\ NothingRetained
  <2>1. Entered
    BY <1>2 DEF Entered
  <2>2. NothingRetained
    BY <1>2 DEF NothingRetained
  <2>. QED BY <2>1, <2>2
<1>. QED BY <1>1, <1>3, <1>4 DEF IInv

\* Every step of any registry keeps it.
LEMMA StepIInv ==
  ASSUME IInv, [Next]_vars
  PROVE  IInv'
<1>1. CASE UNCHANGED vars
  <2>1. UNCHANGED <<kind, entries, heap, user, call>> /\ reg' = reg
    BY <1>1 DEF vars, reg
  <2>2. TypeOK' /\ Distinct' /\ Owned' /\ Doomed' /\ Cleanups'
    BY <2>1 DEF IInv, TypeOK, Distinct, Owned, Doomed, Cleanups
  <2>3. Entered'
    BY <2>1 DEF IInv, Entered
  <2>4. NothingRetained'
    BY <2>1, Zenon DEF IInv, NothingRetained
  <2>. QED BY <2>2, <2>3, <2>4 DEF IInv
<1>2. CASE Next
  <2>1. ASSUME NEW u \in Users, NEW a \in Addresses, NEW h \in Handlers, Create(u, a, h)
        PROVE  IInv'
    BY <2>1, CreateKeeps
  <2>2. ASSUME NEW u \in Users, \/ Register(u) \/ RegisterNothing(u)
                                \/ SetDialer(u) \/ UnsetDialer(u)
        PROVE  IInv'
    BY <2>2, RegisterKeeps, RegisterNothingKeeps, SetDialerKeeps,
       UnsetDialerKeeps
  <2>3. ASSUME NEW u \in Users, DropEntry(u) \/ DestroyNative(u) \/ DropEntryLate(u)
        PROVE  IInv'
    BY <2>3, DropEntryKeeps, DestroyNativeKeeps, DropEntryLateKeeps
  <2>4. ASSUME NEW a \in Addresses, NEW c \in DOMAIN reg.calls, OnCallback(a, c)
        PROVE  IInv'
    BY <2>4, OnCallbackKeeps
  <2>5. ASSUME NEW a \in Addresses, Delete(a) \/ Cleanup(a) \/ Return(a)
        PROVE  IInv'
    BY <2>5, DeleteKeeps, CleanupKeeps, ReturnKeeps
  <2>. QED BY <1>2, <2>1, <2>2, <2>3, <2>4, <2>5, Zenon DEF Next
<1>. QED BY <1>1, <1>2

\* The inductive invariant holds, whatever registries of the program are run.
THEOREM Invariance == Spec => []IInv
<1>1. Init => IInv
  BY InitIInv
<1>2. IInv /\ [Next]_vars => IInv'
  BY StepIInv
<1>. QED BY <1>1, <1>2, PTL DEF Spec

\* Every variable stays within its type.
THEOREM TypeCorrect == Spec => []TypeOK
<1>1. IInv => TypeOK
  BY DEF IInv
<1>. QED BY <1>1, Invariance, PTL

\* For every registry but that of status listeners in the cgo build, an object
\* in use is found under its address, and a callback runs the handler of the
\* object it is for, however addresses are used again.
THEOREM HandlersAreFound == Spec => []Found
<1>1. IInv => Found
  <2>. SUFFICES ASSUME IInv, kind # "StatusCgo"
                PROVE  HandlersFound
    BY DEF Found
  <2>1. reg.destroy # "native first"
    BY RegRegular DEF IInv
  <2>2. /\ \A u \in Users :
             /\ user[u].pc \in {"live", "wiring", "unwiring"}
             /\ ~heap[user[u].addr].spent
             => entries[user[u].addr] = user[u].obj
        /\ \A a \in Addresses : call[a].entry = call[a].of
    BY <2>1 DEF IInv, Entered
  <2>. QED BY <2>2 DEF HandlersFound
<1>. QED BY <1>1, Invariance, PTL

\* Where Destroy drops the entry first, a handler is retained only while its
\* object exists and has not been given to Destroy.
THEOREM NoneRetained == Spec => []NothingRetained
<1>1. IInv => NothingRetained
  BY DEF IInv
<1>. QED BY <1>1, Invariance, PTL

-----------------------------------------------------------------------------
(* The loader: its list of symbols has what the wrappers need.             *)

\* The objects of the library, and the kinds of functions they have.
Objects ==
  {"Buffer", "BufferCallback", "Runnable", "Executor", "Engine",
   "EngineParams", "UrlRequest", "UrlRequestParams", "UrlRequestCallback",
   "UrlRequestStatusListener", "UploadDataProvider", "UploadDataSink",
   "UrlResponseInfo", "Error", "HttpHeader", "QuicHint", "PublicKeyPins",
   "DateTime", "Metrics", "RequestFinishedInfo",
   "RequestFinishedInfoListener", "CertVerifier", "BidirectionalStream"}
Names == {"Create", "Method", "StrictECH", "Reality", "Priority"}
Symbols == Objects \X Names

\* A list of symbols has at least those of A.
Has(s, A) == s \in Seq(Symbols) /\ A \subseteq Loader!ToSet(s)

\* The functions nearly every object has.
Both(o) == {<<o, "Create">>, <<o, "Method">>}

\* An object registered by CreateFirst or CreateLast has both.
LEMMA HasBoth ==
  ASSUME NEW o \in Objects
  PROVE  /\ Has(Loader!CreateFirst(o), Both(o))
         /\ Has(Loader!CreateLast(o), Both(o))
<1>. DEFINE c == <<o, "Create">>
            m == <<o, "Method">>
<1>1. c \in Symbols /\ m \in Symbols
  BY DEF Symbols, Names
<1>. HIDE DEF c, m
<1>2. /\ <<c, m>> \in Seq(Symbols) /\ <<m, c>> \in Seq(Symbols)
      /\ {c, m} \subseteq Loader!ToSet(<<c, m>>)
      /\ {c, m} \subseteq Loader!ToSet(<<m, c>>)
  BY <1>1 DEF Loader!ToSet
<1>. QED BY <1>2 DEF Has, Both, Loader!CreateFirst, Loader!CreateLast, c, m

\* A list of one symbol has it.
LEMMA HasOne ==
  ASSUME NEW p \in Symbols
  PROVE  Has(<<p>>, {p})
  BY DEF Has, Loader!ToSet

\* A concatenation has what its parts have: of two, and then of three to five.
LEMMA HasConcat ==
  ASSUME NEW s, NEW t, NEW A, NEW B, Has(s, A), Has(t, B)
  PROVE  Has(s \o t, A \cup B)
<1>1. /\ s \in Seq(Symbols) /\ t \in Seq(Symbols)
      /\ A \subseteq Loader!ToSet(s) /\ B \subseteq Loader!ToSet(t)
  BY DEF Has
<1>2. s \o t \in Seq(Symbols)
  BY <1>1
<1>3. ASSUME NEW x \in Loader!ToSet(s)
      PROVE  x \in Loader!ToSet(s \o t)
  <2>1. PICK i \in 1..Len(s) : s[i] = x
    BY <1>1, <1>3 DEF Loader!ToSet
  <2>2. i \in 1..Len(s \o t) /\ (s \o t)[i] = x
    BY <1>1, <2>1
  <2>. QED BY <1>2, <2>2 DEF Loader!ToSet
<1>4. ASSUME NEW x \in Loader!ToSet(t)
      PROVE  x \in Loader!ToSet(s \o t)
  <2>1. PICK i \in 1..Len(t) : t[i] = x
    BY <1>1, <1>4 DEF Loader!ToSet
  <2>2. Len(s) + i \in 1..Len(s \o t) /\ (s \o t)[Len(s) + i] = x
    BY <1>1, <2>1
  <2>. QED BY <1>2, <2>2 DEF Loader!ToSet
<1>. QED BY <1>1, <1>2, <1>3, <1>4 DEF Has

\* What the wrappers call without a look at the variable.
Needed ==
  (Objects \ {"UploadDataSink", "CertVerifier"}) \X {"Create", "Method"}
    \cup {<<"UploadDataSink", "Method">>, <<"CertVerifier", "Create">>,
          <<"EngineParams", "Priority">>}

\* The list of each object.
LEMMA ObjectSymbols ==
  /\ Has(Loader!BufferSymbols, Both("Buffer"))
  /\ Has(Loader!BufferCallbackSyms, Both("BufferCallback"))
  /\ Has(Loader!RunnableSymbols, Both("Runnable"))
  /\ Has(Loader!ExecutorSymbols, Both("Executor"))
  /\ Has(Loader!EngineSymbols, Both("Engine"))
  /\ Has(Loader!EngineParamsSymbols, Both("EngineParams") \cup {<<"EngineParams", "Priority">>})
  /\ Has(Loader!RequestSymbols, Both("UrlRequest"))
  /\ Has(Loader!RequestParamsSyms, Both("UrlRequestParams"))
  /\ Has(Loader!CallbackSymbols, Both("UrlRequestCallback"))
  /\ Has(Loader!StatusSymbols, Both("UrlRequestStatusListener"))
  /\ Has(Loader!ProviderSymbols, Both("UploadDataProvider"))
  /\ Has(Loader!SinkSymbols, {<<"UploadDataSink", "Method">>})
  /\ Has(Loader!ResponseSymbols, Both("UrlResponseInfo"))
  /\ Has(Loader!ErrorSymbols, Both("Error"))
  /\ Has(Loader!HeaderSymbols, Both("HttpHeader"))
  /\ Has(Loader!QuicHintSymbols, Both("QuicHint"))
  /\ Has(Loader!PinsSymbols, Both("PublicKeyPins"))
  /\ Has(Loader!DateTimeSymbols, Both("DateTime"))
  /\ Has(Loader!MetricsSymbols, Both("Metrics"))
  /\ Has(Loader!FinishedSymbols, Both("RequestFinishedInfo"))
  /\ Has(Loader!ListenerSymbols, Both("RequestFinishedInfoListener"))
  /\ Has(Loader!VerifierSymbols, {<<"CertVerifier", "Create">>})
  /\ Has(Loader!StreamSymbols, Both("BidirectionalStream"))
  /\ Has(Loader!WindowsParams, Both("EngineParams"))
  /\ Has(Loader!registerFloatFuncs, {<<"EngineParams", "Priority">>})
<1>1. \A o \in Objects : /\ Has(Loader!CreateFirst(o), Both(o))
                        /\ Has(Loader!CreateLast(o), Both(o))
  BY HasBoth
<1>2. /\ <<"UploadDataSink", "Method">> \in Symbols /\ <<"CertVerifier", "Create">> \in Symbols
      /\ <<"EngineParams", "Priority">> \in Symbols /\ <<"Engine", "StrictECH">> \in Symbols
      /\ <<"Engine", "Reality">> \in Symbols
  BY DEF Symbols, Objects, Names
<1>3. /\ Has(Loader!SinkSymbols, {<<"UploadDataSink", "Method">>})
      /\ Has(Loader!VerifierSymbols, {<<"CertVerifier", "Create">>})
      /\ Has(Loader!registerFloatFuncs, {<<"EngineParams", "Priority">>})
  BY <1>2, HasOne DEF Loader!SinkSymbols, Loader!VerifierSymbols,
                      Loader!registerFloatFuncs
<1>4. Has(Loader!EngineParamsSymbols, Both("EngineParams") \cup {<<"EngineParams", "Priority">>})
  <2>1. Has(<<<<"EngineParams", "Priority">>>>, {<<"EngineParams", "Priority">>})
    BY <1>2, HasOne
  <2>2. Has(Loader!CreateFirst("EngineParams"), Both("EngineParams"))
    BY <1>1 DEF Objects
  <2>. QED BY <2>1, <2>2, HasConcat, Zenon DEF Loader!EngineParamsSymbols
<1>5. Has(Loader!EngineSymbols, Both("Engine"))
  <2>1. <<<<"Engine", "StrictECH">>, <<"Engine", "Reality">>>> \in Seq(Symbols)
    BY <1>2
  <2>2. Has(<<<<"Engine", "StrictECH">>, <<"Engine", "Reality">>>>, {})
    BY <2>1, Zenon DEF Has
  <2>3. Has(Loader!CreateFirst("Engine"), Both("Engine"))
    BY <1>1 DEF Objects
  <2>4. Both("Engine") \cup {} = Both("Engine")
    OBVIOUS
  <2>. QED BY <2>2, <2>3, <2>4, HasConcat, Zenon DEF Loader!EngineSymbols
<1>6. /\ "Buffer" \in Objects
      /\ "BufferCallback" \in Objects
      /\ "Runnable" \in Objects
      /\ "Executor" \in Objects
      /\ "UrlRequest" \in Objects
      /\ "UrlRequestParams" \in Objects
      /\ "UrlRequestCallback" \in Objects
      /\ "UrlRequestStatusListener" \in Objects
      /\ "UploadDataProvider" \in Objects
      /\ "UrlResponseInfo" \in Objects
      /\ "Error" \in Objects
      /\ "HttpHeader" \in Objects
      /\ "QuicHint" \in Objects
      /\ "PublicKeyPins" \in Objects
      /\ "DateTime" \in Objects
      /\ "Metrics" \in Objects
      /\ "RequestFinishedInfo" \in Objects
      /\ "RequestFinishedInfoListener" \in Objects
      /\ "BidirectionalStream" \in Objects
      /\ "EngineParams" \in Objects
  BY DEF Objects
<1>. QED BY <1>1, <1>3, <1>4, <1>5, <1>6, Zenon DEF Loader!BufferSymbols,
                Loader!BufferCallbackSyms, Loader!RunnableSymbols,
                Loader!ExecutorSymbols, Loader!RequestSymbols,
                Loader!RequestParamsSyms, Loader!CallbackSymbols,
                Loader!StatusSymbols, Loader!ProviderSymbols,
                Loader!ResponseSymbols, Loader!ErrorSymbols,
                Loader!HeaderSymbols, Loader!QuicHintSymbols,
                Loader!PinsSymbols, Loader!DateTimeSymbols,
                Loader!MetricsSymbols, Loader!FinishedSymbols,
                Loader!ListenerSymbols, Loader!StreamSymbols,
                Loader!WindowsParams

LEMMA Has3 ==
  ASSUME NEW s1, NEW s2, NEW s3,
         NEW A1, NEW A2, NEW A3,
         Has(s1, A1), Has(s2, A2), Has(s3, A3)
  PROVE  Has(s1 \o s2 \o s3, A1 \cup A2 \cup A3)
<1>1. Has(s1 \o s2, A1 \cup A2)
  BY HasConcat
<1>. QED BY <1>1, HasConcat

LEMMA Has4 ==
  ASSUME NEW s1, NEW s2, NEW s3, NEW s4,
         NEW A1, NEW A2, NEW A3, NEW A4,
         Has(s1, A1), Has(s2, A2), Has(s3, A3), Has(s4, A4)
  PROVE  Has(s1 \o s2 \o s3 \o s4, A1 \cup A2 \cup A3 \cup A4)
<1>1. Has(s1 \o s2 \o s3, A1 \cup A2 \cup A3)
  BY Has3
<1>. QED BY <1>1, HasConcat

LEMMA Has5 ==
  ASSUME NEW s1, NEW s2, NEW s3, NEW s4, NEW s5,
         NEW A1, NEW A2, NEW A3, NEW A4, NEW A5,
         Has(s1, A1), Has(s2, A2), Has(s3, A3), Has(s4, A4), Has(s5, A5)
  PROVE  Has(s1 \o s2 \o s3 \o s4 \o s5, A1 \cup A2 \cup A3 \cup A4 \cup A5)
<1>1. Has(s1 \o s2 \o s3 \o s4, A1 \cup A2 \cup A3 \cup A4)
  BY Has4
<1>. QED BY <1>1, HasConcat

\* Both lists have what the wrappers need.
LEMMA Lists ==
  /\ Has(Loader!UnixSymbols, Needed)
  /\ Has(Loader!WindowsSymbols, Needed)
<1>. DEFINE
  Core == Both("Buffer") \cup Both("BufferCallback") \cup Both("Runnable")
            \cup Both("Executor") \cup Both("Engine")
  Requests == Both("UrlRequest") \cup Both("UrlRequestParams")
  Callbacks == Both("UrlRequestCallback") \cup Both("UrlRequestStatusListener")
                 \cup Both("UploadDataProvider") \cup {<<"UploadDataSink", "Method">>}
  Responses == Both("UrlResponseInfo") \cup Both("Error") \cup Both("HttpHeader")
  Values == Both("QuicHint") \cup Both("PublicKeyPins") \cup Both("DateTime")
  Metrics == Both("Metrics")
  Finished == Both("RequestFinishedInfo") \cup Both("RequestFinishedInfoListener")
                \cup {<<"CertVerifier", "Create">>} \cup Both("BidirectionalStream")
  Params == Both("EngineParams")
  Priority == {<<"EngineParams", "Priority">>}
<1>. HIDE DEF Has
<1>1. Has(Loader!WindowsCore, Core)
  BY ObjectSymbols, Has5, Zenon DEF Loader!WindowsCore
<1>2. Has(Loader!WindowsRequests, Requests)
  BY ObjectSymbols, HasConcat, Zenon DEF Loader!WindowsRequests
<1>3. Has(Loader!WindowsHandlers, Callbacks)
  BY ObjectSymbols, Has4, Zenon DEF Loader!WindowsHandlers
<1>4. Has(Loader!WindowsResponses, Responses)
  BY ObjectSymbols, Has3, Zenon DEF Loader!WindowsResponses
<1>5. Has(Loader!WindowsValues, Values)
  BY ObjectSymbols, Has3, Zenon DEF Loader!WindowsValues
<1>6. Has(Loader!WindowsMetrics, Metrics)
  BY ObjectSymbols DEF Loader!WindowsMetrics
<1>7. Has(Loader!WindowsFinished, Finished)
  BY ObjectSymbols, Has4, Zenon DEF Loader!WindowsFinished
<1>. HIDE DEF Core, Requests, Callbacks, Responses, Values, Metrics, Finished, Params,
              Priority
<1>8. /\ Has(Loader!EngineParamsSymbols, Params \cup Priority)
      /\ Has(Loader!WindowsParams, Params) /\ Has(Loader!registerFloatFuncs, Priority)
  BY ObjectSymbols DEF Params, Priority
<1>9. Has(Loader!UnixSymbols, Core \cup (Params \cup Priority) \cup Requests \cup Callbacks
                               \cup Responses \cup Values \cup Metrics \cup Finished)
  <2>. DEFINE s == Loader!WindowsCore \o Loader!EngineParamsSymbols \o Loader!WindowsRequests
                    \o Loader!WindowsHandlers \o Loader!WindowsResponses
              S == Core \cup (Params \cup Priority) \cup Requests \cup Callbacks \cup Responses
  <2>1. Has(s, S)
    BY <1>1, <1>2, <1>3, <1>4, <1>5, <1>6, <1>7, <1>8, Has5
  <2>. HIDE DEF s, S
  <2>2. Has(s \o Loader!WindowsValues \o Loader!WindowsMetrics \o Loader!WindowsFinished,
            S \cup Values \cup Metrics \cup Finished)
    BY <2>1, <1>1, <1>2, <1>3, <1>4, <1>5, <1>6, <1>7, Has4
  <2>. QED BY <2>2 DEF s, S, Loader!UnixSymbols
<1>10. Has(Loader!WindowsSymbols, Core \cup Params \cup Requests \cup Callbacks
            \cup Responses \cup Values \cup Metrics \cup Finished \cup Priority)
  <2>. DEFINE s == Loader!WindowsCore \o Loader!WindowsParams \o Loader!WindowsRequests
                    \o Loader!WindowsHandlers \o Loader!WindowsResponses
              S == Core \cup Params \cup Requests \cup Callbacks \cup Responses
  <2>1. Has(s, S)
    BY <1>1, <1>2, <1>3, <1>4, <1>5, <1>6, <1>7, <1>8, Has5
  <2>. HIDE DEF s, S
  <2>2. Has(s \o Loader!WindowsValues \o Loader!WindowsMetrics \o Loader!WindowsFinished
               \o Loader!registerFloatFuncs,
            S \cup Values \cup Metrics \cup Finished \cup Priority)
    BY <2>1, <1>1, <1>2, <1>3, <1>4, <1>5, <1>6, <1>7, <1>8, Has5
  <2>. QED BY <2>2 DEF s, S, Loader!WindowsSymbols
<1>. DEFINE All == Core \cup Params \cup Requests \cup Callbacks
                     \cup Responses \cup Values \cup Metrics \cup Finished \cup Priority
<1>11. Needed \subseteq All
  <2>1. ASSUME NEW o \in Objects \ {"UploadDataSink", "CertVerifier"}
        PROVE  Both(o) \subseteq All
    <3>. HIDE DEF Both
    <3>. QED BY DEF Objects, Core, Requests, Callbacks, Responses, Values,
                    Metrics, Finished, Params
  <2>2. {<<"UploadDataSink", "Method">>, <<"CertVerifier", "Create">>} \subseteq All
    BY DEF Callbacks, Finished
  <2>3. {<<"EngineParams", "Priority">>} \subseteq All
    BY DEF Priority
  <2>. HIDE DEF All
  <2>4. ASSUME NEW p \in (Objects \ {"UploadDataSink", "CertVerifier"}) \X {"Create", "Method"}
        PROVE  p \in All
    <3>1. PICK o \in Objects \ {"UploadDataSink", "CertVerifier"} :
            p = <<o, "Create">> \/ p = <<o, "Method">>
      BY <2>4
    <3>2. p \in Both(o)
      BY <3>1 DEF Both
    <3>. QED BY <2>1, <3>2
  <2>. QED BY <2>2, <2>3, <2>4 DEF Needed
<1>. QED BY <1>9, <1>10, <1>11 DEF Has

\* Whatever a wrapper calls without a look at the variable is needed.
LEMMA Wrappers ==
  ASSUME NEW o \in DOMAIN Loader!API, NEW f \in DOMAIN Loader!API[o]
  PROVE  /\ Loader!API[o][f] \in {"loads", "calls", "checks"}
         /\ Loader!API[o][f] # "checks" => <<o, f>> \in Needed
<1>1. o \in Objects
  BY DEF Loader!API, Objects
<1>2. /\ Loader!API.Engine = Loader!EngineAPI
      /\ Loader!API.EngineParams = Loader!EngineParamsAPI
      /\ Loader!API.CertVerifier = Loader!VerifierAPI
      /\ Loader!API.Buffer = Loader!BufferAPI
      /\ Loader!API.BufferCallback = Loader!BufferCallbackAPI
      /\ Loader!API.Executor = Loader!ExecutorAPI
      /\ Loader!API.Runnable = Loader!RunnableAPI
      /\ Loader!API.UrlRequest = Loader!RequestAPI
      /\ Loader!API.UrlRequestParams = Loader!RequestParamsAPI
      /\ Loader!API.UrlRequestCallback = Loader!CallbackAPI
      /\ Loader!API.UrlRequestStatusListener = Loader!StatusAPI
      /\ Loader!API.UploadDataProvider = Loader!ProviderAPI
      /\ Loader!API.UploadDataSink = Loader!SinkAPI
      /\ Loader!API.UrlResponseInfo = Loader!ResponseAPI
      /\ Loader!API.Error = Loader!ErrorAPI
      /\ Loader!API.HttpHeader = Loader!HeaderAPI
      /\ Loader!API.QuicHint = Loader!QuicHintAPI
      /\ Loader!API.PublicKeyPins = Loader!PinsAPI
      /\ Loader!API.DateTime = Loader!DateTimeAPI
      /\ Loader!API.Metrics = Loader!MetricsAPI
      /\ Loader!API.RequestFinishedInfo = Loader!FinishedAPI
      /\ Loader!API.RequestFinishedInfoListener = Loader!ListenerAPI
      /\ Loader!API.BidirectionalStream = Loader!StreamAPI
  BY DEF Loader!API
<1>3. CASE Loader!API[o] = Loader!WithCreate /\ o \notin {"UploadDataSink", "CertVerifier"}
  <2>1. /\ f \in {"Create", "Method"}
        /\ Loader!API[o][f] \in {"loads", "calls"}
    BY <1>3 DEF Loader!WithCreate
  <2>. QED BY <1>1, <1>3, <2>1 DEF Needed
<1>4. CASE o = "Engine"
  <2>1. Loader!API[o] = Loader!EngineAPI
    BY <1>2, <1>4
  <2>2. /\ f \in {"Create", "Method", "StrictECH", "Reality"}
        /\ f \in {"Create", "Method"} => Loader!API[o][f] \in {"loads", "calls"}
        /\ f \in {"StrictECH", "Reality"} => Loader!API[o][f] = "checks"
    BY <2>1 DEF Loader!EngineAPI
  <2>. QED BY <1>1, <1>4, <2>2 DEF Needed
<1>5. CASE o = "EngineParams"
  <2>1. Loader!API[o] = Loader!EngineParamsAPI
    BY <1>2, <1>5
  <2>2. /\ f \in {"Create", "Method", "Priority"}
        /\ Loader!API[o][f] \in {"loads", "calls"}
    BY <2>1 DEF Loader!EngineParamsAPI, Loader!PriorityAPI
  <2>. QED BY <1>1, <1>5, <2>2 DEF Needed
<1>6. CASE o \in {"UploadDataSink", "CertVerifier"}
  <2>1. /\ o = "UploadDataSink" => Loader!API[o] = Loader!SinkAPI
        /\ o = "CertVerifier" => Loader!API[o] = Loader!VerifierAPI
    BY <1>2
  <2>2. /\ o = "UploadDataSink" => f = "Method" /\ Loader!API[o][f] = "calls"
        /\ o = "CertVerifier" => f = "Create" /\ Loader!API[o][f] = "loads"
    BY <2>1 DEF Loader!SinkAPI, Loader!VerifierAPI
  <2>. QED BY <1>6, <2>2 DEF Needed
<1>7. o \in {"Engine", "EngineParams", "UploadDataSink", "CertVerifier"}
        \/ Loader!API[o] = Loader!WithCreate
  BY <1>1, <1>2 DEF Objects, Loader!BufferAPI, Loader!BufferCallbackAPI,
                    Loader!CallbackAPI, Loader!DateTimeAPI, Loader!ErrorAPI,
                    Loader!ExecutorAPI, Loader!FinishedAPI, Loader!HeaderAPI,
                    Loader!ListenerAPI, Loader!MetricsAPI, Loader!PinsAPI,
                    Loader!ProviderAPI, Loader!QuicHintAPI, Loader!RequestAPI,
                    Loader!RequestParamsAPI, Loader!ResponseAPI,
                    Loader!RunnableAPI, Loader!StatusAPI, Loader!StreamAPI
<1>. QED BY <1>3, <1>4, <1>5, <1>6, <1>7

-----------------------------------------------------------------------------
(* The loader: its invariant.                                              *)

\* A wrapper that does not look at its variable needs a symbol that is required.
LEMMA RequiredSymbols ==
  ASSUME NEW o \in DOMAIN Loader!API, NEW f \in DOMAIN Loader!API[o],
         Loader!API[o][f] # "checks"
  PROVE  <<o, f>> \in Loader!Required
<1>1. <<o, f>> \in Needed
  BY Wrappers
<1>2. \A p \in Needed : p \notin Loader!Optional
  <2>1. \A p \in Needed : p[2] \in {"Create", "Method", "Priority"}
    BY DEF Needed
  <2>. QED BY <2>1 DEF Loader!Optional
<1>3. Needed \subseteq Loader!ToSet(Loader!SymbolOrder(world.platform))
  BY Lists, Zenon DEF Has, Loader!SymbolOrder
<1>. QED BY <1>1, <1>2, <1>3 DEF Loader!Required

\* The list of the platform is one.
LEMMA OrderIsList ==
  /\ Loader!SymbolOrder(world.platform) \in Seq(Symbols)
  /\ Loader!ToSet(Loader!SymbolOrder(world.platform))
       = {Loader!SymbolOrder(world.platform)[i] :
            i \in 1..Len(Loader!SymbolOrder(world.platform))}
<1>1. Loader!SymbolOrder(world.platform) \in Seq(Symbols)
  BY Lists, Zenon DEF Has, Loader!SymbolOrder
<1>. QED BY <1>1 DEF Loader!ToSet

\* What an action does that only moves a goroutine.
LEMMA LoaderMoves ==
  ASSUME Loader!IInv, Loader!Unchanged1,
         NEW g \in Goroutines, NEW p \in {"idle", "loadOnce", "call"},
         Loader!Goto(g, p), loaderPc[g] \in {"idle", "loadOnce", "call"},
         op' \in [Goroutines -> [obj : {""} \cup DOMAIN Loader!API,
                                 fn : {""} \cup Loader!Functions,
                                 path : {"", "nowhere"} \cup DOMAIN world.files]],
         \A h \in Goroutines \ {g} : op'[h] = op[h],
         p = "loadOnce" /\ op'[g].fn # "" => <<op'[g].obj, op'[g].fn>> \in Loader!Required,
         p = "call" => /\ <<op'[g].obj, op'[g].fn>> \in registered
                       /\ once = "done" /\ loadError = "nil"
  PROVE  Loader!IInv'
<1>1. /\ UNCHANGED <<world, libHandle, once, loadError, registered, position,
                     created>>
      /\ loaderPc' = [loaderPc EXCEPT ![g] = p]
      /\ loaderPc \in [Goroutines -> {"idle", "loadOnce", "load", "register", "call"}]
  BY DEF Loader!Unchanged1, Loader!Goto, Loader!IInv, Loader!TypeOK
<1>2. /\ loaderPc'[g] = p
      /\ \A h \in Goroutines \ {g} : loaderPc'[h] = loaderPc[h]
      /\ loaderPc' \in [Goroutines -> {"idle", "loadOnce", "load", "register", "call"}]
  BY <1>1
<1>3. Loader!TypeOK'
  BY <1>1, <1>2 DEF Loader!IInv, Loader!TypeOK
<1>4. Loader!OneLoads'
  BY <1>1, <1>2 DEF Loader!IInv, Loader!OneLoads, Loader!Loading
<1>5. Loader!Required' = Loader!Required
  BY <1>1 DEF Loader!Required
<1>6. Loader!Registers'
  BY <1>1, <1>2, <1>5 DEF Loader!IInv, Loader!Registers
<1>7. Loader!Demands'
  BY <1>1, <1>2, <1>5 DEF Loader!IInv, Loader!Demands
<1>. QED BY <1>3, <1>4, <1>6, <1>7 DEF Loader!IInv

\* Who asks the loader, outside any call of a wrapper.
LEMMA LoadLibraryKeeps ==
  ASSUME Loader!IInv, NEW g \in Goroutines,
         NEW path \in {"", "nowhere"} \cup DOMAIN world.files,
         Loader!LoadLibrary(g, path)
  PROVE  Loader!IInv'
<1>1. op' = [op EXCEPT ![g] = [Loader!NoOp EXCEPT !.path = path]]
  BY DEF Loader!LoadLibrary
<1>2. /\ [Loader!NoOp EXCEPT !.path = path] \in
            [obj : {""} \cup DOMAIN Loader!API, fn : {""} \cup Loader!Functions,
             path : {"", "nowhere"} \cup DOMAIN world.files]
      /\ [Loader!NoOp EXCEPT !.path = path].fn = ""
  BY DEF Loader!NoOp
<1>3. /\ op' \in [Goroutines -> [obj : {""} \cup DOMAIN Loader!API,
                                 fn : {""} \cup Loader!Functions,
                                 path : {"", "nowhere"} \cup DOMAIN world.files]]
      /\ op'[g].fn = "" /\ \A h \in Goroutines \ {g} : op'[h] = op[h]
  BY <1>1, <1>2 DEF Loader!IInv, Loader!TypeOK
<1>4. Loader!Unchanged1 /\ Loader!Goto(g, "loadOnce") /\ loaderPc[g] = "idle"
  BY DEF Loader!LoadLibrary
<1>. QED BY <1>3, <1>4, LoaderMoves

\* A wrapper asks the loader, or calls, or looks at its variable first.
LEMMA WrapperKeeps ==
  ASSUME Loader!IInv, NEW g \in Goroutines, NEW o \in DOMAIN Loader!API,
         NEW f \in DOMAIN Loader!API[o], Loader!Wrapper(g, o, f)
  PROVE  Loader!IInv'
<1>1. op' = [op EXCEPT ![g] = [Loader!NoOp EXCEPT !.obj = o, !.fn = f]]
  BY DEF Loader!Wrapper
<1>2. f \in Loader!Functions
  BY DEF Loader!Functions
<1>3. /\ [Loader!NoOp EXCEPT !.obj = o, !.fn = f] \in
            [obj : {""} \cup DOMAIN Loader!API, fn : {""} \cup Loader!Functions,
             path : {"", "nowhere"} \cup DOMAIN world.files]
      /\ [Loader!NoOp EXCEPT !.obj = o, !.fn = f].obj = o
      /\ [Loader!NoOp EXCEPT !.obj = o, !.fn = f].fn = f
  BY <1>2 DEF Loader!NoOp
<1>4. /\ op' \in [Goroutines -> [obj : {""} \cup DOMAIN Loader!API,
                                 fn : {""} \cup Loader!Functions,
                                 path : {"", "nowhere"} \cup DOMAIN world.files]]
      /\ op'[g].obj = o /\ op'[g].fn = f
      /\ \A h \in Goroutines \ {g} : op'[h] = op[h]
  BY <1>1, <1>3 DEF Loader!IInv, Loader!TypeOK
<1>5. Loader!Unchanged1 /\ loaderPc[g] = "idle"
  BY DEF Loader!Wrapper
<1>6. created => once = "done" /\ loadError = "nil" /\ Loader!Required \subseteq registered
  BY DEF Loader!IInv, Loader!Registers
<1>7. CASE Loader!API[o][f] = "loads"
  <2>1. Loader!Goto(g, "loadOnce") /\ <<o, f>> \in Loader!Required
    BY <1>7, RequiredSymbols DEF Loader!Wrapper
  <2>. QED BY <1>4, <1>5, <2>1, LoaderMoves
<1>8. CASE Loader!API[o][f] = "calls"
  <2>1. Loader!Goto(g, "call") /\ <<o, f>> \in Loader!Required /\ created
    BY <1>8, RequiredSymbols DEF Loader!Wrapper
  <2>. QED BY <1>4, <1>5, <1>6, <2>1, LoaderMoves
<1>9. CASE Loader!API[o][f] = "checks"
  <2>1. /\ created
        /\ Loader!Goto(g, IF <<o, f>> \in registered THEN "call" ELSE "idle")
    BY <1>9 DEF Loader!Wrapper
  <2>2. CASE <<o, f>> \in registered
    BY <1>4, <1>5, <1>6, <2>1, <2>2, LoaderMoves
  <2>3. CASE <<o, f>> \notin registered
    BY <1>4, <1>5, <2>1, <2>3, LoaderMoves
  <2>. QED BY <2>2, <2>3
<1>. QED BY <1>7, <1>8, <1>9, Wrappers

\* The answer of once comes back.
LEMMA LoadReturnsKeeps ==
  ASSUME Loader!IInv, NEW g \in Goroutines, Loader!LoadReturns(g)
  PROVE  Loader!IInv'
<1>1. /\ loaderPc[g] = "loadOnce" /\ once = "done" /\ op' = op /\ Loader!Unchanged1
      /\ Loader!Goto(g, IF loadError = "nil" /\ op[g].fn # "" THEN "call" ELSE "idle")
  BY DEF Loader!LoadReturns
<1>2. op' \in [Goroutines -> [obj : {""} \cup DOMAIN Loader!API,
                              fn : {""} \cup Loader!Functions,
                              path : {"", "nowhere"} \cup DOMAIN world.files]]
  BY <1>1 DEF Loader!IInv, Loader!TypeOK
<1>3. CASE loadError = "nil" /\ op[g].fn # ""
  <2>1. <<op[g].obj, op[g].fn>> \in registered
    BY <1>1, <1>3 DEF Loader!IInv, Loader!Demands, Loader!Registers
  <2>. QED BY <1>1, <1>2, <1>3, <2>1, LoaderMoves
<1>4. CASE ~(loadError = "nil" /\ op[g].fn # "")
  BY <1>1, <1>2, <1>4, LoaderMoves
<1>. QED BY <1>3, <1>4

\* The call of the variable.
LEMMA CallKeeps ==
  ASSUME Loader!IInv, NEW g \in Goroutines, Loader!Call(g)
  PROVE  Loader!IInv'
<1>1. /\ UNCHANGED <<world, libHandle, once, loadError, registered, position>>
      /\ created' \in BOOLEAN
      /\ loaderPc[g] = "call" /\ once = "done" /\ loadError = "nil"
      /\ op' = [op EXCEPT ![g] = Loader!NoOp]
      /\ loaderPc' = [loaderPc EXCEPT ![g] = "idle"]
  BY DEF Loader!Call, Loader!Goto, Loader!IInv, Loader!TypeOK, Loader!Demands
<1>2. /\ loaderPc'[g] = "idle"
      /\ \A h \in Goroutines \ {g} : loaderPc'[h] = loaderPc[h] /\ op'[h] = op[h]
      /\ loaderPc' \in [Goroutines -> {"idle", "loadOnce", "load", "register", "call"}]
      /\ op' \in [Goroutines -> [obj : {""} \cup DOMAIN Loader!API,
                                 fn : {""} \cup Loader!Functions,
                                 path : {"", "nowhere"} \cup DOMAIN world.files]]
  BY <1>1 DEF Loader!IInv, Loader!TypeOK, Loader!NoOp
<1>3. Loader!TypeOK'
  BY <1>1, <1>2 DEF Loader!IInv, Loader!TypeOK
<1>4. Loader!OneLoads'
  BY <1>1, <1>2 DEF Loader!IInv, Loader!OneLoads, Loader!Loading
<1>5. Loader!Required' = Loader!Required
  BY <1>1 DEF Loader!Required
<1>6. Loader!Registers'
  BY <1>1, <1>2, <1>5 DEF Loader!IInv, Loader!Registers
<1>7. Loader!Demands'
  BY <1>1, <1>2, <1>5 DEF Loader!IInv, Loader!Demands
<1>. QED BY <1>3, <1>4, <1>6, <1>7 DEF Loader!IInv

\* once.Do: the first loads, the others wait for the end.
LEMMA LoadOnceKeeps ==
  ASSUME Loader!IInv, NEW g \in Goroutines, Loader!LoadOnce(g)
  PROVE  Loader!IInv'
<1>1. /\ UNCHANGED <<world, libHandle, loadError, registered, position, created,
                     op>>
      /\ loaderPc[g] = "loadOnce" /\ once = "new" /\ once' = "running"
      /\ loaderPc' = [loaderPc EXCEPT ![g] = "load"]
  BY DEF Loader!LoadOnce, Loader!Goto
<1>2. /\ loaderPc'[g] = "load"
      /\ \A h \in Goroutines \ {g} : loaderPc'[h] = loaderPc[h]
      /\ loaderPc' \in [Goroutines -> {"idle", "loadOnce", "load", "register", "call"}]
  BY <1>1 DEF Loader!IInv, Loader!TypeOK
<1>3. Loader!TypeOK'
  BY <1>1, <1>2 DEF Loader!IInv, Loader!TypeOK
<1>4. Loader!OneLoads'
  BY <1>1, <1>2 DEF Loader!IInv, Loader!OneLoads, Loader!Loading
<1>5. Loader!Required' = Loader!Required
  BY <1>1 DEF Loader!Required
<1>6. Loader!Registers'
  BY <1>1, <1>2, <1>5 DEF Loader!IInv, Loader!Registers
<1>7. Loader!Demands'
  BY <1>1, <1>2, <1>5 DEF Loader!IInv, Loader!Demands
<1>. QED BY <1>3, <1>4, <1>6, <1>7 DEF Loader!IInv

\* The end of loading, with an error or with all that is required.
LEMMA LoadingEnds ==
  ASSUME Loader!IInv, NEW g \in Goroutines, Loader!Loading(g),
         UNCHANGED <<world, libHandle, created, op>>,
         registered \subseteq registered',
         registered' \subseteq Loader!ToSet(Loader!SymbolOrder(world.platform)),
         position' \in 0..Len(Loader!SymbolOrder(world.platform)) + 1,
         NEW err \in {"nil", "library not found", "failed to load library",
                      "symbol not found"},
         Loader!Finish(err), Loader!Goto(g, "loadOnce"),
         err = "nil" => Loader!Required \subseteq registered'
  PROVE  Loader!IInv'
<1>1. /\ once = "running" /\ once' = "done" /\ loadError' = err /\ ~created
      /\ loaderPc' = [loaderPc EXCEPT ![g] = "loadOnce"]
  BY DEF Loader!Finish, Loader!Goto, Loader!IInv, Loader!OneLoads,
         Loader!Registers
<1>2. /\ loaderPc'[g] = "loadOnce"
      /\ \A h \in Goroutines \ {g} : loaderPc'[h] = loaderPc[h]
      /\ loaderPc' \in [Goroutines -> {"idle", "loadOnce", "load", "register", "call"}]
  BY <1>1 DEF Loader!IInv, Loader!TypeOK
<1>3. \A h \in Goroutines : loaderPc'[h] \notin {"load", "register"}
  BY <1>2 DEF Loader!IInv, Loader!OneLoads, Loader!Loading
<1>4. Loader!Required' = Loader!Required
  BY DEF Loader!Required
<1>5. Loader!TypeOK'
  BY <1>1, <1>2 DEF Loader!IInv, Loader!TypeOK
<1>6. Loader!OneLoads' /\ Loader!Registers'
  BY <1>1, <1>3, <1>4 DEF Loader!IInv, Loader!OneLoads, Loader!Registers,
                          Loader!Loading
<1>7. Loader!Demands'
  BY <1>1, <1>2, <1>4 DEF Loader!IInv, Loader!Demands, Loader!Loading
<1>. QED BY <1>5, <1>6, <1>7 DEF Loader!IInv

\* The search for the file, which fails or starts the registration.
LEMMA doLoadLibraryKeeps ==
  ASSUME Loader!IInv, NEW g \in Goroutines, Loader!doLoadLibrary(g)
  PROVE  Loader!IInv'
<1>. DEFINE path == IF op[g].path = "" THEN Loader!findLibrary(world) ELSE op[g].path
<1>1. /\ loaderPc[g] = "load" /\ UNCHANGED <<world, registered, created, op>>
      /\ \/ /\ path \in DOMAIN world.files
            /\ Loader!Goto(g, "register") /\ position' = 1 /\ libHandle' = path
            /\ UNCHANGED <<once, loadError>>
         \/ /\ \/ Loader!Finish("library not found")
               \/ Loader!Finish("failed to load library")
            /\ Loader!Goto(g, "loadOnce") /\ UNCHANGED <<position, libHandle>>
  BY DEF Loader!doLoadLibrary
<1>. HIDE DEF path
<1>2. Loader!Loading(g) /\ registered \subseteq Loader!ToSet(Loader!SymbolOrder(world.platform))
      /\ position \in 0..Len(Loader!SymbolOrder(world.platform)) + 1
  BY <1>1 DEF Loader!IInv, Loader!TypeOK, Loader!Loading
<1>3. CASE \/ Loader!Finish("library not found") /\ Loader!Goto(g, "loadOnce")
              /\ UNCHANGED <<position, libHandle>>
           \/ Loader!Finish("failed to load library") /\ Loader!Goto(g, "loadOnce")
              /\ UNCHANGED <<position, libHandle>>
  BY <1>1, <1>2, <1>3, LoadingEnds
<1>4. CASE /\ path \in DOMAIN world.files
           /\ Loader!Goto(g, "register") /\ position' = 1 /\ libHandle' = path
           /\ UNCHANGED <<once, loadError>>
  <2>1. /\ loaderPc'[g] = "register"
        /\ \A h \in Goroutines \ {g} : loaderPc'[h] = loaderPc[h]
        /\ loaderPc' \in [Goroutines -> {"idle", "loadOnce", "load", "register", "call"}]
    BY <1>4 DEF Loader!IInv, Loader!TypeOK, Loader!Goto
  <2>2. position' \in 0..Len(Loader!SymbolOrder(world.platform)) + 1
        /\ position' # 0 /\ \A i \in 1..position' - 1 : FALSE
    <3>1. Len(Loader!SymbolOrder(world.platform)) \in Nat
      BY OrderIsList
    <3>2. \A n \in Nat : 1 \in 0..n + 1
      OBVIOUS
    <3>. QED BY <1>4, <3>1, <3>2
  <2>3. Loader!TypeOK'
    BY <1>1, <1>4, <2>1, <2>2 DEF Loader!IInv, Loader!TypeOK
  <2>4. Loader!OneLoads'
    BY <1>1, <1>4, <2>1 DEF Loader!IInv, Loader!OneLoads, Loader!Loading
  <2>5. Loader!Required' = Loader!Required
    BY <1>1 DEF Loader!Required
  <2>6. once = "running" /\ \A h \in Goroutines \ {g} : loaderPc'[h] \notin {"load", "register"}
    BY <1>2, <2>1 DEF Loader!IInv, Loader!OneLoads, Loader!Loading
  <2>7. Loader!Registers'
    BY <1>1, <1>4, <2>1, <2>2, <2>5, <2>6 DEF Loader!IInv, Loader!Registers
  <2>8. Loader!Demands'
    BY <1>1, <1>4, <2>1, <2>5 DEF Loader!IInv, Loader!Demands
  <2>. QED BY <2>3, <2>4, <2>7, <2>8 DEF Loader!IInv
<1>. QED BY <1>1, <1>3, <1>4

\* The next symbol of the list is registered, or the registration ends.
LEMMA registerFuncKeeps ==
  ASSUME Loader!IInv, NEW g \in Goroutines, Loader!registerFunc(g)
  PROVE  Loader!IInv'
<1>. DEFINE order   == Loader!SymbolOrder(world.platform)
            symbol  == order[position]
            missing == world.files[libHandle].missing
<1>1. /\ loaderPc[g] = "register" /\ position <= Len(order)
      /\ IF symbol \notin missing THEN registered' = registered \cup {symbol}
         ELSE registered' = registered
      /\ IF symbol \in missing \ Loader!Optional
         THEN Loader!Finish("symbol not found") /\ Loader!Goto(g, "loadOnce")
              /\ position' = position
         ELSE position' = position + 1 /\ UNCHANGED <<loadError, once,
                                                      loaderPc>>
      /\ UNCHANGED <<world, libHandle, created, op>>
  BY DEF Loader!registerFunc
<1>2. /\ order \in Seq(Symbols) /\ Len(order) \in Nat
      /\ Loader!ToSet(order) = {order[i] : i \in 1..Len(order)}
      /\ position \in 1..Len(order) /\ Loader!Loading(g)
      /\ \A i \in 1..position - 1 : order[i] \in registered \cup Loader!Optional
  <2>1. position \in 0..Len(order) + 1 /\ position # 0
        /\ \A i \in 1..position - 1 : order[i] \in registered \cup Loader!Optional
    BY <1>1 DEF Loader!IInv, Loader!TypeOK, Loader!Registers
  <2>2. order \in Seq(Symbols) /\ Len(order) \in Nat
        /\ Loader!ToSet(order) = {order[i] : i \in 1..Len(order)}
    BY OrderIsList
  <2>. HIDE DEF order
  <2>3. position \in 1..Len(order)
    <3>1. \A n \in Nat : \A p \in 0..n + 1 : p # 0 /\ p <= n => p \in 1..n
      OBVIOUS
    <3>2. position <= Len(order)
      BY <1>1
    <3>. QED BY <2>1, <2>2, <3>1, <3>2
  <2>. QED BY <1>1, <2>1, <2>2, <2>3 DEF Loader!Loading
<1>. HIDE DEF order
<1>3. symbol \in Loader!ToSet(order)
  BY <1>2
<1>. HIDE DEF symbol, missing
<1>4. /\ registered \subseteq Loader!ToSet(order)
      /\ registered \subseteq registered' /\ registered' \subseteq Loader!ToSet(order)
  BY <1>1, <1>3 DEF Loader!IInv, Loader!TypeOK, order
<1>5. CASE symbol \in missing \ Loader!Optional
  <2>1. position' \in 0..Len(order) + 1
    <3>1. position' = position
      BY <1>1, <1>5
    <3>. QED BY <1>2, <3>1
  <2>2. Loader!Finish("symbol not found") /\ Loader!Goto(g, "loadOnce")
    BY <1>1, <1>5
  <2>. QED BY <1>1, <1>2, <1>4, <2>1, <2>2, LoadingEnds DEF order
<1>6. CASE symbol \notin missing \ Loader!Optional
  <2>1. position' = position + 1 /\ UNCHANGED <<loadError, once, loaderPc>>
        /\ symbol \in registered' \cup Loader!Optional
    BY <1>1, <1>6
  <2>2. /\ position' \in 0..Len(order) + 1 /\ position' # 0
        /\ \A i \in 1..position' - 1 : order[i] \in registered' \cup Loader!Optional
    <3>1. ASSUME NEW i \in 1..position' - 1
          PROVE  order[i] \in registered' \cup Loader!Optional
      <4>1. CASE i = position
        BY <2>1, <4>1 DEF symbol
      <4>2. CASE i # position
        <5>1. i \in 1..position - 1
          BY <1>2, <2>1, <4>2
        <5>. QED BY <1>2, <1>4, <5>1
      <4>. QED BY <4>1, <4>2
    <3>. QED BY <1>2, <2>1, <3>1
  <2>3. Loader!TypeOK'
    BY <1>1, <1>4, <2>1, <2>2 DEF Loader!IInv, Loader!TypeOK, order
  <2>4. Loader!OneLoads'
    BY <2>1 DEF Loader!IInv, Loader!OneLoads, Loader!Loading
  <2>5. Loader!Required' = Loader!Required
    BY <1>1 DEF Loader!Required
  <2>6. Loader!Registers'
    BY <1>1, <1>4, <2>1, <2>2, <2>5 DEF Loader!IInv, Loader!Registers, order
  <2>7. Loader!Demands'
    BY <1>1, <1>4, <2>1, <2>5 DEF Loader!IInv, Loader!Demands
  <2>. QED BY <2>3, <2>4, <2>6, <2>7 DEF Loader!IInv
<1>. QED BY <1>5, <1>6

\* With the last symbol all that is required is there.
LEMMA registerSymbolsEndKeeps ==
  ASSUME Loader!IInv, NEW g \in Goroutines, Loader!registerSymbolsEnd(g)
  PROVE  Loader!IInv'
<1>. DEFINE order == Loader!SymbolOrder(world.platform)
<1>1. /\ loaderPc[g] = "register" /\ position > Len(order)
      /\ Loader!Finish("nil") /\ Loader!Goto(g, "loadOnce")
      /\ UNCHANGED <<world, libHandle, registered, position, created, op>>
  BY DEF Loader!registerSymbolsEnd
<1>2. /\ position \in 0..Len(order) + 1 /\ registered \subseteq Loader!ToSet(order)
      /\ \A i \in 1..position - 1 : order[i] \in registered \cup Loader!Optional
  BY <1>1 DEF Loader!IInv, Loader!TypeOK, Loader!Registers
<1>3. Len(order) \in Nat /\ Loader!ToSet(order) = {order[i] : i \in 1..Len(order)}
  BY OrderIsList
<1>4. Loader!Required \subseteq registered
  <2>1. \A i \in 1..Len(order) : order[i] \in registered \cup Loader!Optional
    BY <1>1, <1>2, <1>3
  <2>. QED BY <1>3, <2>1 DEF Loader!Required
<1>. QED BY <1>1, <1>2, <1>4, LoadingEnds DEF Loader!Loading

\* The invariant holds at first.
LEMMA LoaderInitIInv ==
  ASSUME Loader!Init
  PROVE  Loader!IInv
<1>1. 0 \in 0..Len(Loader!SymbolOrder(world.platform)) + 1
  <2>1. Len(Loader!SymbolOrder(world.platform)) \in Nat
    BY OrderIsList
  <2>2. \A n \in Nat : 0 \in 0..n + 1
    OBVIOUS
  <2>. QED BY <2>1, <2>2
<1>2. Loader!TypeOK
  BY <1>1 DEF Loader!Init, Loader!TypeOK, Loader!NoOp
<1>. QED BY <1>2 DEF Loader!Init, Loader!IInv, Loader!OneLoads, Loader!Loading,
            Loader!Registers, Loader!Demands

\* Every step keeps the invariant.
LEMMA LoaderStepIInv ==
  ASSUME Loader!IInv, [Loader!Next]_(Loader!vars)
  PROVE  Loader!IInv'
<1>1. CASE UNCHANGED Loader!vars
  BY <1>1 DEF Loader!vars, Loader!IInv, Loader!TypeOK, Loader!OneLoads,
              Loader!Loading,
              Loader!Registers, Loader!Demands, Loader!Required
<1>2. ASSUME NEW g \in Goroutines, NEW path \in {"", "nowhere"} \cup DOMAIN world.files,
             Loader!LoadLibrary(g, path)
      PROVE  Loader!IInv'
  BY <1>2, LoadLibraryKeeps
<1>3. ASSUME NEW g \in Goroutines, NEW o \in DOMAIN Loader!API,
             NEW f \in DOMAIN Loader!API[o], Loader!Wrapper(g, o, f)
      PROVE  Loader!IInv'
  BY <1>3, WrapperKeeps
<1>4. ASSUME NEW g \in Goroutines,
             \/ Loader!LoadOnce(g) \/ Loader!LoadReturns(g) \/ Loader!doLoadLibrary(g)
             \/ Loader!registerFunc(g) \/ Loader!registerSymbolsEnd(g) \/ Loader!Call(g)
      PROVE  Loader!IInv'
  BY <1>4, LoadOnceKeeps, LoadReturnsKeeps, doLoadLibraryKeeps,
     registerFuncKeeps,
     registerSymbolsEndKeeps, CallKeeps
<1>. QED BY <1>1, <1>2, <1>3, <1>4, Zenon DEF Loader!Next

\* What the invariant says of calls and of a library that was loaded.
LEMMA LoaderSafe ==
  ASSUME Loader!IInv
  PROVE  Loader!NoNilCall /\ Loader!LoadedForGood
<1>1. Loader!NoNilCall
  BY DEF Loader!IInv, Loader!Demands, Loader!NoNilCall
<1>2. \A g, h \in Goroutines : Loader!Loading(g) /\ Loader!Loading(h) => g = h
  BY DEF Loader!IInv, Loader!OneLoads
<1>3. created => /\ once = "done" /\ loadError = "nil"
                 /\ Loader!Required \subseteq registered
  BY DEF Loader!IInv, Loader!Registers
<1>. QED BY <1>1, <1>2, <1>3 DEF Loader!LoadedForGood

-----------------------------------------------------------------------------
(* The RoundTripper: RoundTripperProofs, of the variables of the sum.      *)

TripProofs == INSTANCE RoundTripperProofs WITH pc <- callPc

\* Both instances mean the same by what refers to the RoundTripper.
LEMMA SameReachable == Trip!Reachable <=> TripProofs!Reachable
<1>1. /\ Trip!T = TripProofs!T
      /\ \A c : Trip!response(c) = TripProofs!response(c)
      /\ \A c : Trip!request(c) = TripProofs!request(c)
  BY DEF Trip!T, TripProofs!T, Trip!response, TripProofs!response, Trip!request,
         TripProofs!request
<1>2. \A o : Trip!RefersTo(o) = TripProofs!RefersTo(o)
  BY <1>1 DEF Trip!RefersTo, TripProofs!RefersTo, Trip!response,
              TripProofs!response,
              Trip!request, TripProofs!request, Trip!T, TripProofs!T
<1>3. Trip!Roots = TripProofs!Roots
  BY DEF Trip!Roots, TripProofs!Roots, Trip!response, TripProofs!response,
         Trip!request, TripProofs!request, Trip!T, TripProofs!T
<1>4. \A S : Trip!Follow(S) = TripProofs!Follow(S)
  BY <1>2 DEF Trip!Follow, TripProofs!Follow
<1>. QED BY <1>1, <1>3, <1>4, Zenon DEF Trip!Reachable, TripProofs!Reachable

\* The two instances of RoundTripper are one.
LEMMA SameTrip ==
  /\ Trip!Init => TripProofs!Init
  /\ Trip!Next => TripProofs!Next
  /\ UNCHANGED tripVars => UNCHANGED TripProofs!vars
  /\ TripProofs!SetupsAssumption
<1>. USE DEF Trip!Goto, TripProofs!Goto, Trip!Becomes, TripProofs!Becomes,
             Trip!CloseBody, TripProofs!CloseBody, Trip!Error, TripProofs!Error,
             Trip!done, TripProofs!done, Trip!ready, TripProofs!ready,
             Trip!sharedVars, TripProofs!sharedVars, Trip!callVars, TripProofs!callVars,
             Trip!requestVars, TripProofs!requestVars, Trip!Own, TripProofs!Own
<1>1. ASSUME NEW c \in Callers
      PROVE  /\ Trip!RoundTrip(c) => TripProofs!RoundTrip(c)
             /\ Trip!initialize(c) => TripProofs!initialize(c)
             /\ Trip!Initialized(c) => TripProofs!Initialized(c)
             /\ Trip!NewRequest(c) => TripProofs!NewRequest(c)
             /\ Trip!Start(c) => TripProofs!Start(c)
             /\ Trip!SelectReady(c) => TripProofs!SelectReady(c)
             /\ Trip!SelectContext(c) => TripProofs!SelectContext(c)
             /\ Trip!AwaitDone(c) => TripProofs!AwaitDone(c)
  BY DEF Trip!RoundTrip, TripProofs!RoundTrip, Trip!initialize,
         TripProofs!initialize,
         Trip!Initialized, TripProofs!Initialized, Trip!NewRequest, TripProofs!NewRequest,
         Trip!Start, TripProofs!Start, Trip!Fails, TripProofs!Fails,
         Trip!SelectReady, TripProofs!SelectReady, Trip!SelectContext,
         TripProofs!SelectContext, Trip!AwaitDone, TripProofs!AwaitDone
<1>2. ASSUME NEW c \in Callers
      PROVE  /\ Trip!ReadEnds(c) => TripProofs!ReadEnds(c)
             /\ Trip!Close(c) => TripProofs!Close(c)
             /\ Trip!MonitorContext(c) => TripProofs!MonitorContext(c)
             /\ Trip!CancelRuns(c) => TripProofs!CancelRuns(c)
             /\ Trip!onRedirect(c) => TripProofs!onRedirect(c)
             /\ Trip!onResponse(c) => TripProofs!onResponse(c)
  BY DEF Trip!ReadEnds, TripProofs!ReadEnds, Trip!Close, TripProofs!Close,
         Trip!MonitorContext, TripProofs!MonitorContext, Trip!CancelRuns,
         TripProofs!CancelRuns, Trip!onRedirect, TripProofs!onRedirect,
         Trip!onResponse, TripProofs!onResponse
<1>3. ASSUME NEW c \in Callers
      PROVE  /\ Trip!finish(c) => TripProofs!finish(c)
             /\ Trip!cleanup(c) => TripProofs!cleanup(c)
             /\ Trip!onDone(c) => TripProofs!onDone(c)
             /\ Trip!WorkerDone(c) => TripProofs!WorkerDone(c)
             /\ Trip!ContextDone(c) => TripProofs!ContextDone(c)
             /\ Trip!DropResponse(c) => TripProofs!DropResponse(c)
  BY DEF Trip!finish, TripProofs!finish, Trip!cleanup, TripProofs!cleanup,
         Trip!onDone,
         TripProofs!onDone, Trip!WorkerDone, TripProofs!WorkerDone, Trip!ContextDone,
         TripProofs!ContextDone, Trip!DropResponse, TripProofs!DropResponse
<1>4. Trip!Reachable <=> TripProofs!Reachable
  BY SameReachable
<1>5. /\ Trip!Forget => TripProofs!Forget
      /\ Trip!close => TripProofs!close
      /\ Trip!closeWorkers => TripProofs!closeWorkers
  BY <1>4 DEF Trip!Forget, TripProofs!Forget, Trip!close, TripProofs!close,
              Trip!closeWorkers, TripProofs!closeWorkers
<1>6. Trip!Next => TripProofs!Next
  BY <1>1, <1>2, <1>3, <1>5, Zenon DEF Trip!Next, TripProofs!Next
<1>7. Trip!Init => TripProofs!Init
  BY DEF Trip!Init, TripProofs!Init
<1>8. UNCHANGED tripVars => UNCHANGED TripProofs!vars
  BY DEF tripVars, TripProofs!vars
<1>9. TripProofs!SetupsAssumption
  BY PartsAssumption DEF Trip!SetupsAssumption, TripProofs!SetupsAssumption,
     Trip!AllSetups, TripProofs!AllSetups
<1>. QED BY <1>6, <1>7, <1>8, <1>9

\* What the invariant of the RoundTripper says.
LEMMA TripSafe ==
  ASSUME TripProofs!IInv
  PROVE  Trip!TypeOK /\ Trip!Outlives /\ Trip!Settled
<1>1. TripProofs!TypeOK /\ TripProofs!Settled /\ TripProofs!Outlives
  BY TripProofs!Outliving DEF TripProofs!IInv
<1>2. Trip!TypeOK
  BY <1>1 DEF Trip!TypeOK, TripProofs!TypeOK, Trip!AllSetups,
              TripProofs!AllSetups
<1>3. Trip!Settled
  BY <1>1 DEF Trip!Settled, TripProofs!Settled, Trip!done, TripProofs!done
<1>4. Trip!Outlives
  BY <1>1, SameReachable DEF Trip!Outlives, TripProofs!Outlives
<1>. QED BY <1>2, <1>3, <1>4

-----------------------------------------------------------------------------
(* The sum.                                                                *)

SumIInv ==
  /\ part \in {"loader", "registry", "trip"}
  /\ Loader!IInv /\ IInv /\ TripProofs!IInv

\* A step of the sum is a step of each part, or leaves the part alone.
LEMMA SumSteps ==
  ASSUME [SumNext]_all
  PROVE  /\ [Loader!Next]_(Loader!vars)
         /\ [Next]_vars
         /\ [TripProofs!Next]_(TripProofs!vars)
         /\ UNCHANGED part
<1>1. UNCHANGED loaderVars <=> UNCHANGED Loader!vars
  BY DEF loaderVars, Loader!vars
<1>2. UNCHANGED all => UNCHANGED <<part, vars, loaderVars, tripVars>>
  BY DEF all
<1>. QED BY <1>1, <1>2, SameTrip DEF SumNext

\* The invariants of the loader, the registries and the RoundTripper hold together.
THEOREM SumInvariance == SumSpec => []SumIInv
<1>1. SumInit => SumIInv
  BY LoaderInitIInv, InitIInv, SameTrip, TripProofs!InitIInv DEF SumInit,
         SumIInv
<1>2. SumIInv /\ [SumNext]_all => SumIInv'
  BY SumSteps, LoaderStepIInv, StepIInv, TripProofs!StepIInv DEF SumIInv
<1>. QED BY <1>1, <1>2, PTL DEF SumSpec

\* Every variable of every part stays within its type.
THEOREM TypesCorrect == SumSpec => []TypesOK
<1>1. SumIInv => TypesOK
  BY TripSafe DEF SumIInv, IInv, Loader!IInv, TypesOK
<1>. QED BY <1>1, SumInvariance, PTL

\* Whichever goroutine loads the library, from wherever and however complete it is,
\* no wrapper calls a function variable that is nil, and once an object exists the
\* library is loaded for good.
THEOREM NoneNil == SumSpec => []NoNilCall
<1>1. SumIInv => NoNilCall
  BY LoaderSafe DEF SumIInv, NoNilCall
<1>. QED BY <1>1, SumInvariance, PTL

\* Engine and executor are given up after the last request: the finalizer takes
\* neither from a native request that still runs.
THEOREM EngineOutlives == SumSpec => []Outlives
<1>1. SumIInv => Outlives
  BY TripSafe DEF SumIInv, Outlives
<1>. QED BY <1>1, SumInvariance, PTL

\* Who has a final answer may destroy the engine he has lent: his native request is
\* destroyed, and its body closed.
THEOREM CallersSettle == SumSpec => []Settled
<1>1. SumIInv => Settled
  BY TripSafe DEF SumIInv, Settled
<1>. QED BY <1>1, SumInvariance, PTL

=============================================================================
