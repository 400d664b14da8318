-------------------------- MODULE RoundTripperProofs --------------------------
(***************************************************************************)
(* Safety of RoundTripper for any number of calls and every setup.  IInv   *)
(* is inductive: one lemma per action.  What keeps the finalizer away is   *)
(* reachability, which is first reduced to a condition on the program's    *)
(* state (Unreferenced).                                                   *)
(***************************************************************************)
EXTENDS RoundTripper, TLAPS

-----------------------------------------------------------------------------
(* Steps of one call or request.                                           *)

Labels   == {"idle", "once", "create", "start", "select", "have", "closing",
             "dropped", "over", "nothing"}
Natives  == {"none", "created", "running", "cancelled", "over", "destroyed"}
Statuses == {"none", "refused", "final"}
Workers  == {"none", "onDone", "returning"}

\* The type of what each call has of its own.
PerCall ==
  /\ pc \in [Callers -> Labels] /\ ctx \in [Callers -> BOOLEAN]
  /\ body \in [Callers -> {"open", "closed"}] /\ native \in [Callers -> Natives]
  /\ failed \in [Callers -> BOOLEAN] /\ status \in [Callers -> Statuses]
  /\ monitor \in [Callers -> BOOLEAN] /\ worker \in [Callers -> Workers]

\* The others stay as they are.
Others(c) ==
  \A d \in Callers : d # c =>
    /\ pc'[d] = pc[d] /\ ctx'[d] = ctx[d] /\ body'[d] = body[d]
    /\ native'[d] = native[d] /\ failed'[d] = failed[d]
    /\ status'[d] = status[d] /\ monitor'[d] = monitor[d] /\ worker'[d] = worker[d]

\* The invariant at one call.
CallOK(c) ==
  /\ pc[c] \in {"idle", "once", "create"} => native[c] = "none"
  /\ pc[c] = "start" <=> native[c] = "created"
  /\ pc[c] \in {"select", "have", "closing", "dropped"} => native[c] # "none"
  /\ pc[c] \in {"have", "dropped"} => status[c] # "none"
  /\ pc[c] = "closing" => failed[c]
  /\ native[c] \in {"cancelled", "over", "destroyed"} =>
         failed[c] /\ body[c] = "closed"
  /\ native[c] \in {"none", "created"} => status[c] = "none" /\ ~monitor[c]
  /\ status[c] = "refused" => native[c] # "running"
  /\ worker[c] # "none" => native[c] = "destroyed"
  /\ pc[c] = "create" \/ native[c] # "none" => initOnce /\ initErr = "nil"
  /\ pc[c] = "over" => native[c] \in {"none", "destroyed"} /\ body[c] = "closed"
  /\ pc[c] # "nothing"
  /\ pc[c] = "have" /\ status[c] = "refused" => native[c] = "destroyed"

\* It does not refer to the RoundTripper.
Apart(c) ==
  /\ pc[c] \notin {"once", "create", "start", "select", "have", "closing"}
  /\ native[c] \in {"none", "destroyed"}
  /\ worker[c] # "onDone" /\ ~monitor[c]

\* The types of what they share.
Shared ==
  /\ setup \in AllSetups /\ initOnce \in BOOLEAN /\ held \in BOOLEAN
  /\ initErr \in {"nil", "no library", "no start"}
  /\ engine \in {"none", "up", "gone"} /\ executor \in {"none", "up", "gone"}
  /\ closing \in {"no", "workers", "done"}

\* What the finalizer finds and leaves.
Taking ==
  /\ initOnce /\ initErr = "nil" =>
         /\ engine = "up" \/ closing # "no"
         /\ executor = "up" \/ (closing = "done" /\ Own("executor"))
  /\ closing # "no" => ~held /\ initOnce /\ initErr = "nil"
  /\ closing = "workers" => Own("executor")

\* The invariant call by call.
CallByCall ==
  /\ Shared /\ PerCall /\ Taking
  /\ \A c \in Callers :
       /\ CallOK(c)
       /\ closing # "no" => Apart(c)
       /\ closing = "done" /\ Own("executor") => worker[c] = "none"

LEMMA ByCall == IInv <=> CallByCall
<1>1. TypeOK <=> Shared /\ PerCall
  BY DEF TypeOK, Shared, PerCall, Labels, Natives, Statuses, Workers
<1>2. Calls /\ Requests /\ Finalizer /\ Settled
      <=> /\ Taking
          /\ \A c \in Callers :
               /\ CallOK(c)
               /\ closing # "no" => Apart(c)
               /\ closing = "done" /\ Own("executor") => worker[c] = "none"
  BY Zenon DEF Calls, Requests, Finalizer, Settled, Unreferenced, Taking, CallOK,
     Apart, done
<1>. QED BY <1>1, <1>2 DEF IInv, CallByCall

\* A step of one call keeps the invariant when it does so at that call.
LEMMA LocalKeeps ==
  ASSUME IInv, NEW c \in Callers, UNCHANGED sharedVars, PerCall', Others(c),
         CallOK(c)',
         closing # "no" => Apart(c)' /\ worker'[c] \in {worker[c], "none"}
  PROVE  IInv'
<1>1. /\ Shared' /\ Taking' /\ UNCHANGED <<closing, setup, initOnce, initErr>>
      /\ Own("executor")' <=> Own("executor")
  BY ByCall DEF CallByCall, sharedVars, Shared, Taking, Own
<1>2. ASSUME NEW d \in Callers
      PROVE  /\ CallOK(d)'
             /\ closing' # "no" => Apart(d)'
             /\ (closing = "done" /\ Own("executor"))' => worker'[d] = "none"
  <2>1. CASE d = c
    BY <1>1, <2>1, ByCall DEF CallByCall
  <2>2. CASE d # c
    <3>1. /\ pc'[d] = pc[d] /\ ctx'[d] = ctx[d] /\ body'[d] = body[d]
          /\ native'[d] = native[d] /\ failed'[d] = failed[d]
          /\ status'[d] = status[d] /\ monitor'[d] = monitor[d]
          /\ worker'[d] = worker[d]
      BY <2>2 DEF Others
    <3>2. /\ CallOK(d)
          /\ closing # "no" => Apart(d)
          /\ closing = "done" /\ Own("executor") => worker[d] = "none"
      BY ByCall DEF CallByCall
    <3>3. CallOK(d)'
      BY <1>1, <3>1, <3>2 DEF CallOK
    <3>4. closing' # "no" => Apart(d)'
      BY <1>1, <3>1, <3>2 DEF Apart
    <3>. QED BY <1>1, <3>1, <3>2, <3>3, <3>4
  <2>. QED BY <2>1, <2>2
<1>3. CallByCall'
  BY <1>1, <1>2 DEF CallByCall
<1>. QED BY <1>3, ByCall, PTL

\* An entry of a function is replaced.
LEMMA Put ==
  ASSUME NEW S, NEW f \in [Callers -> S], NEW c \in Callers, NEW v \in S
  PROVE  /\ [f EXCEPT ![c] = v] \in [Callers -> S]
         /\ [f EXCEPT ![c] = v][c] = v
         /\ \A d \in Callers : d # c => [f EXCEPT ![c] = v][d] = f[d]
  OBVIOUS

\* A call begins.
LEMMA RoundTripKeeps ==
  ASSUME IInv, NEW c \in Callers, RoundTrip(c)
  PROVE  IInv'
<1>1. /\ PerCall /\ CallOK(c)
      /\ closing # "no" => Apart(c) /\ ~held
  BY ByCall DEF CallByCall, Taking
<1>2. UNCHANGED sharedVars
  BY DEF RoundTrip, sharedVars
<1>3. CASE ctx[c]
  <2>1. /\ pc' = [pc EXCEPT ![c] = "over"]
        /\ body' = [body EXCEPT ![c] = "closed"]
        /\ UNCHANGED <<ctx, native, failed, status, monitor, worker>>
    BY <1>3 DEF RoundTrip, Goto, Becomes, CloseBody, Error, Fails, callVars,
       requestVars
  <2>2. PerCall' /\ Others(c) /\ pc'[c] = "over" /\ body'[c] = "closed"
    BY <1>1, <2>1, Put DEF PerCall, Others, Labels, Natives, Statuses, Workers
  <2>3. CallOK(c)'
    BY <1>3, <1>1, <1>2, <2>1, <2>2 DEF RoundTrip, CallOK, sharedVars
  <2>4. closing # "no" => Apart(c)' /\ worker'[c] \in {worker[c], "none"}
    BY <1>3, <1>1, <2>1, <2>2 DEF RoundTrip, Apart
  <2>. QED BY <1>2, <2>2, <2>3, <2>4, LocalKeeps
<1>4. CASE ~ctx[c]
  <2>1. /\ pc' = [pc EXCEPT ![c] = "once"]
        /\ UNCHANGED <<ctx, body, native, failed, status, monitor, worker>>
    BY <1>4 DEF RoundTrip, Goto, Becomes, CloseBody, Error, Fails, callVars,
       requestVars
  <2>2. PerCall' /\ Others(c) /\ pc'[c] = "once"
    BY <1>1, <2>1, Put DEF PerCall, Others, Labels, Natives, Statuses, Workers
  <2>3. CallOK(c)'
    BY <1>4, <1>1, <1>2, <2>1, <2>2 DEF RoundTrip, CallOK, sharedVars
  <2>4. closing # "no" => Apart(c)' /\ worker'[c] \in {worker[c], "none"}
    BY <1>4, <1>1, <2>1, <2>2 DEF RoundTrip, Apart
  <2>. QED BY <1>2, <2>2, <2>3, <2>4, LocalKeeps
<1>. QED BY <1>3, <1>4 DEF RoundTrip, Becomes

\* A call goes on after that, or fails as it did.
LEMMA InitializedKeeps ==
  ASSUME IInv, NEW c \in Callers, Initialized(c)
  PROVE  IInv'
<1>1. /\ PerCall /\ CallOK(c)
      /\ closing # "no" => Apart(c) /\ ~held
  BY ByCall DEF CallByCall, Taking
<1>2. UNCHANGED sharedVars
  BY DEF Initialized, sharedVars
<1>3. CASE initErr # "nil"
  <2>1. /\ pc' = [pc EXCEPT ![c] = "over"]
        /\ body' = [body EXCEPT ![c] = "closed"]
        /\ UNCHANGED <<ctx, native, failed, status, monitor, worker>>
    BY <1>3 DEF Initialized, Goto, Becomes, CloseBody, Error, Fails, callVars,
       requestVars
  <2>2. PerCall' /\ Others(c) /\ pc'[c] = "over" /\ body'[c] = "closed"
    BY <1>1, <2>1, Put DEF PerCall, Others, Labels, Natives, Statuses, Workers
  <2>3. CallOK(c)'
    BY <1>3, <1>1, <1>2, <2>1, <2>2 DEF Initialized, CallOK, sharedVars
  <2>4. closing # "no" => Apart(c)' /\ worker'[c] \in {worker[c], "none"}
    BY <1>3, <1>1, <2>1, <2>2 DEF Initialized, Apart
  <2>. QED BY <1>2, <2>2, <2>3, <2>4, LocalKeeps
<1>4. CASE initErr = "nil"
  <2>1. /\ pc' = [pc EXCEPT ![c] = "create"]
        /\ UNCHANGED <<ctx, body, native, failed, status, monitor, worker>>
    BY <1>4 DEF Initialized, Goto, Becomes, CloseBody, Error, Fails, callVars,
       requestVars
  <2>2. PerCall' /\ Others(c) /\ pc'[c] = "create"
    BY <1>1, <2>1, Put DEF PerCall, Others, Labels, Natives, Statuses, Workers
  <2>3. CallOK(c)'
    BY <1>4, <1>1, <1>2, <2>1, <2>2 DEF Initialized, CallOK, sharedVars
  <2>4. closing # "no" => Apart(c)' /\ worker'[c] \in {worker[c], "none"}
    BY <1>4, <1>1, <2>1, <2>2 DEF Initialized, Apart
  <2>. QED BY <1>2, <2>2, <2>3, <2>4, LocalKeeps
<1>. QED BY <1>3, <1>4 DEF Initialized, Becomes

\* The request is made, or fails.
LEMMA NewRequestKeeps ==
  ASSUME IInv, NEW c \in Callers, NewRequest(c)
  PROVE  IInv'
<1>1. /\ PerCall /\ CallOK(c)
      /\ closing # "no" => Apart(c) /\ ~held
  BY ByCall DEF CallByCall, Taking
<1>2. UNCHANGED sharedVars
  BY DEF NewRequest, sharedVars
<1>3. CASE Becomes(c, "created") /\ Goto(c, "start") /\ UNCHANGED <<failed, body>>
  <2>1. /\ native' = [native EXCEPT ![c] = "created"]
        /\ pc' = [pc EXCEPT ![c] = "start"]
        /\ UNCHANGED <<ctx, body, failed, status, monitor, worker>>
    BY <1>3 DEF NewRequest, Goto, Becomes, CloseBody, Error, Fails, callVars,
       requestVars
  <2>2. PerCall' /\ Others(c) /\ native'[c] = "created" /\ pc'[c] = "start"
    BY <1>1, <2>1, Put DEF PerCall, Others, Labels, Natives, Statuses, Workers
  <2>3. CallOK(c)'
    BY <1>3, <1>1, <1>2, <2>1, <2>2 DEF NewRequest, CallOK, sharedVars
  <2>4. closing # "no" => Apart(c)' /\ worker'[c] \in {worker[c], "none"}
    BY <1>3, <1>1, <2>1, <2>2 DEF NewRequest, Apart
  <2>. QED BY <1>2, <2>2, <2>3, <2>4, LocalKeeps
<1>4. CASE Fails(c)
  <2>1. /\ failed' = [failed EXCEPT ![c] = TRUE]
        /\ native' = [native EXCEPT ![c] = "over"]
        /\ body' = [body EXCEPT ![c] = "closed"]
        /\ pc' = [pc EXCEPT ![c] = "closing"]
        /\ UNCHANGED <<ctx, status, monitor, worker>>
    BY <1>4 DEF NewRequest, Goto, Becomes, CloseBody, Error, Fails, callVars,
       requestVars
  <2>2. PerCall' /\ Others(c) /\ failed'[c] = TRUE /\ native'[c] = "over" /\
     body'[c] = "closed" /\ pc'[c] = "closing"
    BY <1>1, <2>1, Put DEF PerCall, Others, Labels, Natives, Statuses, Workers
  <2>3. CallOK(c)'
    BY <1>4, <1>1, <1>2, <2>1, <2>2 DEF NewRequest, CallOK, sharedVars
  <2>4. closing # "no" => Apart(c)' /\ worker'[c] \in {worker[c], "none"}
    BY <1>4, <1>1, <2>1, <2>2 DEF NewRequest, Apart
  <2>. QED BY <1>2, <2>2, <2>3, <2>4, LocalKeeps
<1>. QED BY <1>3, <1>4 DEF NewRequest, Becomes

\* It is started, or fails.
LEMMA StartKeeps ==
  ASSUME IInv, NEW c \in Callers, Start(c)
  PROVE  IInv'
<1>1. /\ PerCall /\ CallOK(c)
      /\ closing # "no" => Apart(c) /\ ~held
  BY ByCall DEF CallByCall, Taking
<1>2. UNCHANGED sharedVars
  BY DEF Start, sharedVars
<1>3. CASE Becomes(c, "running") /\ Goto(c, "select") /\ UNCHANGED <<failed, body>>
           /\ monitor' = [monitor EXCEPT ![c] = TRUE]
  <2>1. /\ native' = [native EXCEPT ![c] = "running"]
        /\ pc' = [pc EXCEPT ![c] = "select"]
        /\ monitor' = [monitor EXCEPT ![c] = TRUE]
        /\ UNCHANGED <<ctx, body, failed, status, worker>>
    BY <1>3 DEF Start, Goto, Becomes, CloseBody, Error, Fails, callVars, requestVars
  <2>2. PerCall' /\ Others(c) /\ native'[c] = "running" /\ pc'[c] = "select" /\
     monitor'[c] = TRUE
    BY <1>1, <2>1, Put DEF PerCall, Others, Labels, Natives, Statuses, Workers
  <2>3. CallOK(c)'
    BY <1>3, <1>1, <1>2, <2>1, <2>2 DEF Start, CallOK, sharedVars
  <2>4. closing # "no" => Apart(c)' /\ worker'[c] \in {worker[c], "none"}
    BY <1>3, <1>1, <2>1, <2>2 DEF Start, Apart
  <2>. QED BY <1>2, <2>2, <2>3, <2>4, LocalKeeps
<1>4. CASE Fails(c) /\ UNCHANGED monitor
  <2>1. /\ failed' = [failed EXCEPT ![c] = TRUE]
        /\ native' = [native EXCEPT ![c] = "over"]
        /\ body' = [body EXCEPT ![c] = "closed"]
        /\ pc' = [pc EXCEPT ![c] = "closing"]
        /\ UNCHANGED <<ctx, status, monitor, worker>>
    BY <1>4 DEF Start, Goto, Becomes, CloseBody, Error, Fails, callVars, requestVars
  <2>2. PerCall' /\ Others(c) /\ failed'[c] = TRUE /\ native'[c] = "over" /\
     body'[c] = "closed" /\ pc'[c] = "closing"
    BY <1>1, <2>1, Put DEF PerCall, Others, Labels, Natives, Statuses, Workers
  <2>3. CallOK(c)'
    BY <1>4, <1>1, <1>2, <2>1, <2>2 DEF Start, CallOK, sharedVars
  <2>4. closing # "no" => Apart(c)' /\ worker'[c] \in {worker[c], "none"}
    BY <1>4, <1>1, <2>1, <2>2 DEF Start, Apart
  <2>. QED BY <1>2, <2>2, <2>3, <2>4, LocalKeeps
<1>. QED BY <1>3, <1>4 DEF Start, Becomes

\* It has a response, or is done without one.
LEMMA SelectReadyKeeps ==
  ASSUME IInv, NEW c \in Callers, SelectReady(c)
  PROVE  IInv'
<1>1. /\ PerCall /\ CallOK(c)
      /\ closing # "no" => Apart(c) /\ ~held
  BY ByCall DEF CallByCall, Taking
<1>2. UNCHANGED sharedVars
  BY DEF SelectReady, sharedVars
<1>3. CASE status[c] # "none"
  <2>1. /\ pc' = [pc EXCEPT ![c] = "have"]
        /\ UNCHANGED <<ctx, body, native, failed, status, monitor, worker>>
    BY <1>3 DEF SelectReady, Goto, Becomes, CloseBody, Error, Fails, callVars,
       requestVars
  <2>2. PerCall' /\ Others(c) /\ pc'[c] = "have"
    BY <1>1, <2>1, Put DEF PerCall, Others, Labels, Natives, Statuses, Workers
  <2>3. CallOK(c)'
    BY <1>3, <1>1, <1>2, <2>1, <2>2 DEF SelectReady, CallOK, sharedVars, ready, done
  <2>4. closing # "no" => Apart(c)' /\ worker'[c] \in {worker[c], "none"}
    BY <1>3, <1>1, <2>1, <2>2 DEF SelectReady, Apart
  <2>. QED BY <1>2, <2>2, <2>3, <2>4, LocalKeeps
<1>4. CASE status[c] = "none"
  <2>1. /\ pc' = [pc EXCEPT ![c] = "closing"]
        /\ failed' = [failed EXCEPT ![c] = TRUE]
        /\ UNCHANGED <<ctx, body, native, status, monitor, worker>>
    BY <1>4 DEF SelectReady, Goto, Becomes, CloseBody, Error, Fails, callVars,
       requestVars
  <2>2. PerCall' /\ Others(c) /\ pc'[c] = "closing" /\ failed'[c] = TRUE
    BY <1>1, <2>1, Put DEF PerCall, Others, Labels, Natives, Statuses, Workers
  <2>3. CallOK(c)'
    BY <1>4, <1>1, <1>2, <2>1, <2>2 DEF SelectReady, CallOK, sharedVars, ready, done
  <2>4. closing # "no" => Apart(c)' /\ worker'[c] \in {worker[c], "none"}
    BY <1>4, <1>1, <2>1, <2>2 DEF SelectReady, Apart
  <2>. QED BY <1>2, <2>2, <2>3, <2>4, LocalKeeps
<1>. QED BY <1>3, <1>4 DEF SelectReady, Becomes

\* The context is done first.
LEMMA SelectContextKeeps ==
  ASSUME IInv, NEW c \in Callers, SelectContext(c)
  PROVE  IInv'
<1>1. /\ PerCall /\ CallOK(c)
      /\ closing # "no" => Apart(c) /\ ~held
  BY ByCall DEF CallByCall, Taking
<1>2. UNCHANGED sharedVars
  BY DEF SelectContext, sharedVars
<1>3. /\ pc' = [pc EXCEPT ![c] = "closing"]
      /\ failed' = [failed EXCEPT ![c] = TRUE]
      /\ UNCHANGED <<ctx, body, native, status, monitor, worker>>
  BY DEF SelectContext, Goto, Becomes, CloseBody, Error, Fails, callVars,
     requestVars
<1>4. PerCall' /\ Others(c) /\ pc'[c] = "closing" /\ failed'[c] = TRUE
  BY <1>1, <1>3, Put DEF PerCall, Others, Labels, Natives, Statuses, Workers
<1>5. CallOK(c)'
  BY <1>1, <1>2, <1>3, <1>4 DEF SelectContext, CallOK, sharedVars
<1>6. closing # "no" => Apart(c)' /\ worker'[c] \in {worker[c], "none"}
  BY <1>1, <1>3, <1>4 DEF SelectContext, Apart
<1>. QED BY <1>2, <1>4, <1>5, <1>6, LocalKeeps

\* A call waits for the clean-up.
LEMMA AwaitDoneKeeps ==
  ASSUME IInv, NEW c \in Callers, AwaitDone(c)
  PROVE  IInv'
<1>1. /\ PerCall /\ CallOK(c)
      /\ closing # "no" => Apart(c) /\ ~held
  BY ByCall DEF CallByCall, Taking
<1>2. UNCHANGED sharedVars
  BY DEF AwaitDone, sharedVars
<1>3. /\ pc' = [pc EXCEPT ![c] = "over"]
      /\ UNCHANGED <<ctx, body, native, failed, status, monitor, worker>>
  BY <1>1 DEF AwaitDone, Goto, Becomes, CloseBody, Error, Fails, callVars,
     requestVars, CallOK
<1>4. PerCall' /\ Others(c) /\ pc'[c] = "over"
  BY <1>1, <1>3, Put DEF PerCall, Others, Labels, Natives, Statuses, Workers
<1>5. CallOK(c)'
  BY <1>1, <1>2, <1>3, <1>4 DEF AwaitDone, CallOK, sharedVars, done
<1>6. closing # "no" => Apart(c)' /\ worker'[c] \in {worker[c], "none"}
  BY <1>1, <1>3, <1>4 DEF AwaitDone, Apart
<1>. QED BY <1>2, <1>4, <1>5, <1>6, LocalKeeps

\* A Read ends the response.
LEMMA ReadEndsKeeps ==
  ASSUME IInv, NEW c \in Callers, ReadEnds(c)
  PROVE  IInv'
<1>1. /\ PerCall /\ CallOK(c)
      /\ closing # "no" => Apart(c) /\ ~held
  BY ByCall DEF CallByCall, Taking
<1>2. UNCHANGED sharedVars
  BY DEF ReadEnds, sharedVars
<1>3. /\ pc' = [pc EXCEPT ![c] = "closing"]
      /\ failed' = [failed EXCEPT ![c] = TRUE]
      /\ UNCHANGED <<ctx, body, native, status, monitor, worker>>
  BY DEF ReadEnds, Goto, Becomes, CloseBody, Error, Fails, callVars, requestVars
<1>4. PerCall' /\ Others(c) /\ pc'[c] = "closing" /\ failed'[c] = TRUE
  BY <1>1, <1>3, Put DEF PerCall, Others, Labels, Natives, Statuses, Workers
<1>5. CallOK(c)'
  BY <1>1, <1>2, <1>3, <1>4 DEF ReadEnds, CallOK, sharedVars
<1>6. closing # "no" => Apart(c)' /\ worker'[c] \in {worker[c], "none"}
  BY <1>1, <1>3, <1>4 DEF ReadEnds, Apart
<1>. QED BY <1>2, <1>4, <1>5, <1>6, LocalKeeps

\* The response is closed.
LEMMA CloseKeeps ==
  ASSUME IInv, NEW c \in Callers, Close(c)
  PROVE  IInv'
<1>1. /\ PerCall /\ CallOK(c)
      /\ closing # "no" => Apart(c) /\ ~held
  BY ByCall DEF CallByCall, Taking
<1>2. UNCHANGED sharedVars
  BY DEF Close, sharedVars
<1>3. /\ pc' = [pc EXCEPT ![c] = "closing"]
      /\ failed' = [failed EXCEPT ![c] = TRUE]
      /\ UNCHANGED <<ctx, body, native, status, monitor, worker>>
  BY DEF Close, Goto, Becomes, CloseBody, Error, Fails, callVars, requestVars
<1>4. PerCall' /\ Others(c) /\ pc'[c] = "closing" /\ failed'[c] = TRUE
  BY <1>1, <1>3, Put DEF PerCall, Others, Labels, Natives, Statuses, Workers
<1>5. CallOK(c)'
  BY <1>1, <1>2, <1>3, <1>4 DEF Close, CallOK, sharedVars
<1>6. closing # "no" => Apart(c)' /\ worker'[c] \in {worker[c], "none"}
  BY <1>1, <1>3, <1>4 DEF Close, Apart
<1>. QED BY <1>2, <1>4, <1>5, <1>6, LocalKeeps

\* The monitor cancels the request, or leaves with it.
LEMMA MonitorContextKeeps ==
  ASSUME IInv, NEW c \in Callers, MonitorContext(c)
  PROVE  IInv'
<1>1. /\ PerCall /\ CallOK(c)
      /\ closing # "no" => Apart(c) /\ ~held
  BY ByCall DEF CallByCall, Taking
<1>2. UNCHANGED sharedVars
  BY DEF MonitorContext, sharedVars
<1>3. CASE UNCHANGED failed
  <2>1. /\ monitor' = [monitor EXCEPT ![c] = FALSE]
        /\ UNCHANGED <<pc, ctx, body, native, failed, status, worker>>
    BY <1>3 DEF MonitorContext, Goto, Becomes, CloseBody, Error, Fails, callVars,
       requestVars
  <2>2. PerCall' /\ Others(c) /\ monitor'[c] = FALSE
    BY <1>1, <2>1, Put DEF PerCall, Others, Labels, Natives, Statuses, Workers
  <2>3. CallOK(c)'
    BY <1>3, <1>1, <1>2, <2>1, <2>2 DEF MonitorContext, CallOK, sharedVars
  <2>4. closing # "no" => Apart(c)' /\ worker'[c] \in {worker[c], "none"}
    BY <1>3, <1>1, <2>1, <2>2 DEF MonitorContext, Apart
  <2>. QED BY <1>2, <2>2, <2>3, <2>4, LocalKeeps
<1>4. CASE Error(c)
  <2>1. /\ monitor' = [monitor EXCEPT ![c] = FALSE]
        /\ failed' = [failed EXCEPT ![c] = TRUE]
        /\ UNCHANGED <<pc, ctx, body, native, status, worker>>
    BY <1>4 DEF MonitorContext, Goto, Becomes, CloseBody, Error, Fails, callVars,
       requestVars
  <2>2. PerCall' /\ Others(c) /\ monitor'[c] = FALSE /\ failed'[c] = TRUE
    BY <1>1, <2>1, Put DEF PerCall, Others, Labels, Natives, Statuses, Workers
  <2>3. CallOK(c)'
    BY <1>4, <1>1, <1>2, <2>1, <2>2 DEF MonitorContext, CallOK, sharedVars
  <2>4. closing # "no" => Apart(c)' /\ worker'[c] \in {worker[c], "none"}
    BY <1>4, <1>1, <2>1, <2>2 DEF MonitorContext, Apart
  <2>. QED BY <1>2, <2>2, <2>3, <2>4, LocalKeeps
<1>. QED BY <1>3, <1>4 DEF MonitorContext, Becomes

\* The cancellation runs.
LEMMA CancelRunsKeeps ==
  ASSUME IInv, NEW c \in Callers, CancelRuns(c)
  PROVE  IInv'
<1>1. /\ PerCall /\ CallOK(c)
      /\ closing # "no" => Apart(c) /\ ~held
  BY ByCall DEF CallByCall, Taking
<1>2. UNCHANGED sharedVars
  BY DEF CancelRuns, sharedVars
<1>3. /\ native' = [native EXCEPT ![c] = "cancelled"]
      /\ body' = [body EXCEPT ![c] = "closed"]
      /\ UNCHANGED <<pc, ctx, failed, status, monitor, worker>>
  BY DEF CancelRuns, Goto, Becomes, CloseBody, Error, Fails, callVars, requestVars
<1>4. PerCall' /\ Others(c) /\ native'[c] = "cancelled" /\ body'[c] = "closed"
  BY <1>1, <1>3, Put DEF PerCall, Others, Labels, Natives, Statuses, Workers
<1>5. CallOK(c)'
  BY <1>1, <1>2, <1>3, <1>4 DEF CancelRuns, CallOK, sharedVars
<1>6. closing # "no" => Apart(c)' /\ worker'[c] \in {worker[c], "none"}
  BY <1>1, <1>3, <1>4 DEF CancelRuns, Apart
<1>. QED BY <1>2, <1>4, <1>5, <1>6, LocalKeeps

\* A redirect is refused.
LEMMA onRedirectKeeps ==
  ASSUME IInv, NEW c \in Callers, onRedirect(c)
  PROVE  IInv'
<1>1. /\ PerCall /\ CallOK(c)
      /\ closing # "no" => Apart(c) /\ ~held
  BY ByCall DEF CallByCall, Taking
<1>2. UNCHANGED sharedVars
  BY DEF onRedirect, sharedVars
<1>3. /\ native' = [native EXCEPT ![c] = "cancelled"]
      /\ body' = [body EXCEPT ![c] = "closed"]
      /\ status' = [status EXCEPT ![c] = "refused"]
      /\ failed' = [failed EXCEPT ![c] = TRUE]
      /\ UNCHANGED <<pc, ctx, monitor, worker>>
  BY DEF onRedirect, Goto, Becomes, CloseBody, Error, Fails, callVars, requestVars
<1>4. PerCall' /\ Others(c) /\ native'[c] = "cancelled" /\ body'[c] = "closed" /\
   status'[c] = "refused" /\ failed'[c] = TRUE
  BY <1>1, <1>3, Put DEF PerCall, Others, Labels, Natives, Statuses, Workers
<1>5. CallOK(c)'
  BY <1>1, <1>2, <1>3, <1>4 DEF onRedirect, CallOK, sharedVars
<1>6. closing # "no" => Apart(c)' /\ worker'[c] \in {worker[c], "none"}
  BY <1>1, <1>3, <1>4 DEF onRedirect, Apart
<1>. QED BY <1>2, <1>4, <1>5, <1>6, LocalKeeps

\* The response has come.
LEMMA onResponseKeeps ==
  ASSUME IInv, NEW c \in Callers, onResponse(c)
  PROVE  IInv'
<1>1. /\ PerCall /\ CallOK(c)
      /\ closing # "no" => Apart(c) /\ ~held
  BY ByCall DEF CallByCall, Taking
<1>2. UNCHANGED sharedVars
  BY DEF onResponse, sharedVars
<1>3. /\ status' = [status EXCEPT ![c] = "final"]
      /\ UNCHANGED <<pc, ctx, body, native, failed, monitor, worker>>
  BY DEF onResponse, Goto, Becomes, CloseBody, Error, Fails, callVars, requestVars
<1>4. PerCall' /\ Others(c) /\ status'[c] = "final"
  BY <1>1, <1>3, Put DEF PerCall, Others, Labels, Natives, Statuses, Workers
<1>5. CallOK(c)'
  BY <1>1, <1>2, <1>3, <1>4 DEF onResponse, CallOK, sharedVars
<1>6. closing # "no" => Apart(c)' /\ worker'[c] \in {worker[c], "none"}
  BY <1>1, <1>3, <1>4 DEF onResponse, Apart
<1>. QED BY <1>2, <1>4, <1>5, <1>6, LocalKeeps

\* The terminal callback.
LEMMA finishKeeps ==
  ASSUME IInv, NEW c \in Callers, finish(c)
  PROVE  IInv'
<1>1. /\ PerCall /\ CallOK(c)
      /\ closing # "no" => Apart(c) /\ ~held
  BY ByCall DEF CallByCall, Taking
<1>2. UNCHANGED sharedVars
  BY DEF finish, sharedVars
<1>3. /\ native' = [native EXCEPT ![c] = "over"]
      /\ body' = [body EXCEPT ![c] = "closed"]
      /\ failed' = [failed EXCEPT ![c] = TRUE]
      /\ UNCHANGED <<pc, ctx, status, monitor, worker>>
  BY DEF finish, Goto, Becomes, CloseBody, Error, Fails, callVars, requestVars
<1>4. PerCall' /\ Others(c) /\ native'[c] = "over" /\ body'[c] = "closed" /\
   failed'[c] = TRUE
  BY <1>1, <1>3, Put DEF PerCall, Others, Labels, Natives, Statuses, Workers
<1>5. CallOK(c)'
  BY <1>1, <1>2, <1>3, <1>4 DEF finish, CallOK, sharedVars
<1>6. closing # "no" => Apart(c)' /\ worker'[c] \in {worker[c], "none"}
  BY <1>1, <1>3, <1>4 DEF finish, Apart
<1>. QED BY <1>2, <1>4, <1>5, <1>6, LocalKeeps

\* The native request is destroyed.
LEMMA cleanupKeeps ==
  ASSUME IInv, NEW c \in Callers, cleanup(c)
  PROVE  IInv'
<1>1. /\ PerCall /\ CallOK(c)
      /\ closing # "no" => Apart(c) /\ ~held
  BY ByCall DEF CallByCall, Taking
<1>2. UNCHANGED sharedVars
  BY DEF cleanup, sharedVars
<1>3. /\ native' = [native EXCEPT ![c] = "destroyed"]
      /\ worker' = [worker EXCEPT ![c] = "onDone"]
      /\ UNCHANGED <<pc, ctx, body, failed, status, monitor>>
  BY DEF cleanup, Goto, Becomes, CloseBody, Error, Fails, callVars, requestVars
<1>4. PerCall' /\ Others(c) /\ native'[c] = "destroyed" /\ worker'[c] = "onDone"
  BY <1>1, <1>3, Put DEF PerCall, Others, Labels, Natives, Statuses, Workers
<1>5. CallOK(c)'
  BY <1>1, <1>2, <1>3, <1>4 DEF cleanup, CallOK, sharedVars
<1>6. closing # "no" => Apart(c)' /\ worker'[c] \in {worker[c], "none"}
  BY <1>1, <1>3, <1>4 DEF cleanup, Apart
<1>. QED BY <1>2, <1>4, <1>5, <1>6, LocalKeeps

\* The last function of the request.
LEMMA onDoneKeeps ==
  ASSUME IInv, NEW c \in Callers, onDone(c)
  PROVE  IInv'
<1>1. /\ PerCall /\ CallOK(c)
      /\ closing # "no" => Apart(c) /\ ~held
  BY ByCall DEF CallByCall, Taking
<1>2. UNCHANGED sharedVars
  BY DEF onDone, sharedVars
<1>3. /\ worker' = [worker EXCEPT ![c] = "returning"]
      /\ UNCHANGED <<pc, ctx, body, native, failed, status, monitor>>
  BY DEF onDone, Goto, Becomes, CloseBody, Error, Fails, callVars, requestVars
<1>4. PerCall' /\ Others(c) /\ worker'[c] = "returning"
  BY <1>1, <1>3, Put DEF PerCall, Others, Labels, Natives, Statuses, Workers
<1>5. CallOK(c)'
  BY <1>1, <1>2, <1>3, <1>4 DEF onDone, CallOK, sharedVars
<1>6. closing # "no" => Apart(c)' /\ worker'[c] \in {worker[c], "none"}
  BY <1>1, <1>3, <1>4 DEF onDone, Apart
<1>. QED BY <1>2, <1>4, <1>5, <1>6, LocalKeeps

\* Its worker returns.
LEMMA WorkerDoneKeeps ==
  ASSUME IInv, NEW c \in Callers, WorkerDone(c)
  PROVE  IInv'
<1>1. /\ PerCall /\ CallOK(c)
      /\ closing # "no" => Apart(c) /\ ~held
  BY ByCall DEF CallByCall, Taking
<1>2. UNCHANGED sharedVars
  BY DEF WorkerDone, sharedVars
<1>3. /\ worker' = [worker EXCEPT ![c] = "none"]
      /\ UNCHANGED <<pc, ctx, body, native, failed, status, monitor>>
  BY DEF WorkerDone, Goto, Becomes, CloseBody, Error, Fails, callVars, requestVars
<1>4. PerCall' /\ Others(c) /\ worker'[c] = "none"
  BY <1>1, <1>3, Put DEF PerCall, Others, Labels, Natives, Statuses, Workers
<1>5. CallOK(c)'
  BY <1>1, <1>2, <1>3, <1>4 DEF WorkerDone, CallOK, sharedVars
<1>6. closing # "no" => Apart(c)' /\ worker'[c] \in {worker[c], "none"}
  BY <1>1, <1>3, <1>4 DEF WorkerDone, Apart
<1>. QED BY <1>2, <1>4, <1>5, <1>6, LocalKeeps

\* A context is done.
LEMMA ContextDoneKeeps ==
  ASSUME IInv, NEW c \in Callers, ContextDone(c)
  PROVE  IInv'
<1>1. /\ PerCall /\ CallOK(c)
      /\ closing # "no" => Apart(c) /\ ~held
  BY ByCall DEF CallByCall, Taking
<1>2. UNCHANGED sharedVars
  BY DEF ContextDone, sharedVars
<1>3. /\ ctx' = [ctx EXCEPT ![c] = TRUE]
      /\ UNCHANGED <<pc, body, native, failed, status, monitor, worker>>
  BY DEF ContextDone, Goto, Becomes, CloseBody, Error, Fails, callVars, requestVars
<1>4. PerCall' /\ Others(c) /\ ctx'[c] = TRUE
  BY <1>1, <1>3, Put DEF PerCall, Others, Labels, Natives, Statuses, Workers
<1>5. CallOK(c)'
  BY <1>1, <1>2, <1>3, <1>4 DEF ContextDone, CallOK, sharedVars
<1>6. closing # "no" => Apart(c)' /\ worker'[c] \in {worker[c], "none"}
  BY <1>1, <1>3, <1>4 DEF ContextDone, Apart
<1>. QED BY <1>2, <1>4, <1>5, <1>6, LocalKeeps

\* A response is dropped.
LEMMA DropResponseKeeps ==
  ASSUME IInv, NEW c \in Callers, DropResponse(c)
  PROVE  IInv'
<1>1. /\ PerCall /\ CallOK(c)
      /\ closing # "no" => Apart(c) /\ ~held
  BY ByCall DEF CallByCall, Taking
<1>2. UNCHANGED sharedVars
  BY DEF DropResponse, sharedVars
<1>3. /\ pc' = [pc EXCEPT ![c] = "dropped"]
      /\ UNCHANGED <<ctx, body, native, failed, status, monitor, worker>>
  BY DEF DropResponse, Goto, Becomes, CloseBody, Error, Fails, callVars, requestVars
<1>4. PerCall' /\ Others(c) /\ pc'[c] = "dropped"
  BY <1>1, <1>3, Put DEF PerCall, Others, Labels, Natives, Statuses, Workers
<1>5. CallOK(c)'
  BY <1>1, <1>2, <1>3, <1>4 DEF DropResponse, CallOK, sharedVars
<1>6. closing # "no" => Apart(c)' /\ worker'[c] \in {worker[c], "none"}
  BY <1>1, <1>3, <1>4 DEF DropResponse, Apart
<1>. QED BY <1>2, <1>4, <1>5, <1>6, LocalKeeps

-----------------------------------------------------------------------------
(* Reachability.                                                           *)

\* What the finalizer waits for, as a condition on the calls: a root leads to
\* the RoundTripper in two steps at most.
LEMMA Reaching ==
  ASSUME ~Reachable
  PROVE  ~held /\ \A c \in Callers : Apart(c)
<1>1. ASSUME NEW o \in Follow(Roots), NEW x \in RefersTo(o)
      PROVE  x \in Follow(Follow(Roots))
  BY <1>1 DEF Follow
<1>2. Roots \subseteq Follow(Roots) /\ Follow(Roots) \subseteq Follow(Follow(Roots))
  BY DEF Follow
<1>3. ~held
  <2>1. held => T \in Roots
    BY DEF Roots
  <2>. QED BY <1>2, <2>1 DEF Reachable
<1>4. ASSUME NEW c \in Callers
      PROVE  Apart(c)
  <2>1. T \in RefersTo(response(c))
    BY DEF RefersTo
  <2>2. response(c) \in RefersTo(request(c))
    <3>1. request(c) # response(c)
      BY DEF request, response
    <3>. QED BY <3>1 DEF RefersTo
  <2>3. T \notin Roots /\ response(c) \notin Follow(Roots) /\ request(c) \notin Roots
    <3>1. response(c) \notin Follow(Roots)
      BY <1>1, <2>1 DEF Reachable
    <3>2. request(c) \notin Roots
      BY <2>2, <3>1 DEF Follow
    <3>. QED BY <1>2, <3>1, <3>2 DEF Reachable
  <2>4. response(c) \notin Roots
    BY <1>2, <2>3
  <2>5. pc[c] # "once"
    BY <2>3 DEF Roots
  <2>6. pc[c] \notin {"create", "have"} /\ ~monitor[c]
    BY <2>4 DEF Roots
  <2>7. /\ pc[c] \notin {"start", "select", "closing"}
        /\ native[c] \in {"none", "destroyed"} /\ worker[c] # "onDone"
    BY <2>3 DEF Roots
  <2>. QED BY <2>5, <2>6, <2>7 DEF Apart
<1>. QED BY <1>3, <1>4

\* Without roots nothing leads there.
LEMMA NotReaching ==
  ASSUME ~held, \A c \in Callers : Apart(c)
  PROVE  ~Reachable
<1>1. Roots = {}
  BY DEF Roots, Apart
<1>2. Follow({}) = {}
  BY DEF Follow
<1>. QED BY <1>1, <1>2 DEF Reachable

-----------------------------------------------------------------------------
(* Steps of all calls together.                                            *)

\* The engine and the executor are made, once.
LEMMA initializeKeeps ==
  ASSUME IInv, NEW c \in Callers, initialize(c)
  PROVE  IInv'
<1>1. /\ Shared /\ PerCall /\ Taking /\ closing = "no" /\ ~initOnce
      /\ \A d \in Callers : CallOK(d)
  BY ByCall DEF CallByCall, Taking, initialize
<1>2. /\ UNCHANGED <<setup, closing, held>> /\ initOnce' = TRUE
      /\ UNCHANGED <<pc, ctx, body, native, failed, status, monitor, worker>>
  BY DEF initialize, callVars, requestVars
<1>3. \/ initErr' = setup.engine /\ setup.engine \in {"no library", "no start"}
         /\ UNCHANGED <<engine, executor>>
      \/ engine' = "up" /\ executor' = "up" /\ UNCHANGED initErr
  BY DEF initialize
<1>4. Shared'
  BY <1>1, <1>2, <1>3 DEF Shared
<1>5. PerCall'
  BY <1>1, <1>2 DEF PerCall
<1>6. Taking'
  BY <1>1, <1>2, <1>3 DEF Taking
<1>7. ASSUME NEW d \in Callers
      PROVE  CallOK(d)'
  BY <1>1, <1>2 DEF CallOK
<1>8. CallByCall'
  BY <1>1, <1>2, <1>4, <1>5, <1>6, <1>7 DEF CallByCall
<1>. QED BY <1>8, ByCall, PTL

\* What changes neither the calls nor the initialization.
LEMMA SharedKeeps ==
  ASSUME IInv, UNCHANGED <<setup, initOnce, initErr, callVars, requestVars>>,
         Shared', Taking',
         closing' # "no" => \A c \in Callers : Apart(c),
         closing' = "done" /\ Own("executor") => \A c \in Callers : worker[c] = "none"
  PROVE  IInv'
<1>1. PerCall /\ \A c \in Callers : CallOK(c)
  BY ByCall DEF CallByCall
<1>2. UNCHANGED <<pc, ctx, body, native, failed, status, monitor, worker>>
  BY DEF callVars, requestVars
<1>3. PerCall'
  BY <1>1, <1>2 DEF PerCall
<1>4. ASSUME NEW c \in Callers
      PROVE  /\ CallOK(c)' /\ (Apart(c)' <=> Apart(c))
             /\ Own("executor")' <=> Own("executor")
  BY <1>1, <1>2 DEF CallOK, Apart, Own
<1>5. CallByCall'
  BY <1>2, <1>3, <1>4 DEF CallByCall
<1>. QED BY <1>5, ByCall, PTL

\* The user drops the RoundTripper.
LEMMA ForgetKeeps ==
  ASSUME IInv, Forget
  PROVE  IInv'
<1>1. /\ Shared /\ Taking
      /\ closing # "no" => \A c \in Callers : Apart(c)
      /\ closing = "done" /\ Own("executor") => \A c \in Callers : worker[c] = "none"
  BY ByCall DEF CallByCall
<1>2. Shared' /\ Taking'
  BY <1>1 DEF Forget, Shared, Taking, Own
<1>. QED BY <1>1, <1>2, SharedKeeps DEF Forget

\* The finalizer takes the engine, ...
LEMMA closeKeeps ==
  ASSUME IInv, close
  PROVE  IInv'
<1>1. Shared /\ Taking
  BY ByCall DEF CallByCall
<1>2. ~held /\ \A c \in Callers : Apart(c)
  BY Reaching DEF close
<1>3. /\ closing = "no" /\ initOnce /\ initErr = "nil"
      /\ engine' \in {"gone", engine}
      /\ closing' = IF Own("executor") THEN "workers" ELSE "done"
      /\ UNCHANGED <<setup, initOnce, initErr, executor, held>>
  BY DEF close
<1>4. Own("executor")' <=> Own("executor")
  BY <1>3 DEF Own
<1>5. Shared'
  BY <1>1, <1>3 DEF Shared
<1>6. Taking'
  BY <1>1, <1>2, <1>3, <1>4 DEF Taking
<1>. QED BY <1>2, <1>3, <1>5, <1>6, SharedKeeps DEF close

\* ... and the executor once its workers have returned.
LEMMA closeWorkersKeeps ==
  ASSUME IInv, closeWorkers
  PROVE  IInv'
<1>1. /\ Shared /\ Taking /\ closing = "workers"
      /\ \A c \in Callers : Apart(c)
  BY ByCall DEF CallByCall, closeWorkers
<1>2. /\ executor' = "gone" /\ closing' = "done"
      /\ \A c \in Callers : worker[c] = "none"
      /\ UNCHANGED <<setup, initOnce, initErr, engine, held>>
  BY DEF closeWorkers
<1>3. Shared'
  BY <1>1, <1>2 DEF Shared
<1>4. Own("executor")' <=> Own("executor")
  BY <1>2 DEF Own
<1>5. Own("executor")
  BY <1>1 DEF Taking
<1>6. Taking'
  BY <1>1, <1>2, <1>4, <1>5 DEF Taking
<1>. QED BY <1>1, <1>2, <1>3, <1>6, SharedKeeps DEF closeWorkers

-----------------------------------------------------------------------------
(* The theorems.                                                           *)

LEMMA InitIInv ==
  ASSUME SetupsAssumption, Init
  PROVE  IInv
<1>1. Shared
  BY DEF SetupsAssumption, Init, Shared
<1>2. PerCall
  BY DEF Init, PerCall, Labels, Natives, Statuses, Workers
<1>3. Taking
  BY DEF Init, Taking
<1>4. ASSUME NEW c \in Callers
      PROVE  CallOK(c)
  BY DEF Init, CallOK
<1>. QED BY <1>1, <1>2, <1>3, <1>4, ByCall DEF CallByCall, Init

LEMMA StepIInv ==
  ASSUME IInv, [Next]_vars
  PROVE  IInv'
<1>1. CASE UNCHANGED vars
  BY <1>1, SharedKeeps, ByCall DEF vars, sharedVars, CallByCall, Shared, Taking, Own
<1>2. ASSUME NEW c \in Callers,
             \/ RoundTrip(c) \/ initialize(c) \/ Initialized(c)
             \/ NewRequest(c) \/ Start(c)
             \/ SelectReady(c) \/ SelectContext(c) \/ AwaitDone(c)
      PROVE  IInv'
  BY <1>2, RoundTripKeeps, initializeKeeps, InitializedKeeps, NewRequestKeeps,
     StartKeeps, SelectReadyKeeps, SelectContextKeeps, AwaitDoneKeeps
<1>3. ASSUME NEW c \in Callers,
             \/ ReadEnds(c) \/ Close(c) \/ MonitorContext(c)
             \/ CancelRuns(c) \/ onRedirect(c) \/ onResponse(c)
             \/ finish(c) \/ cleanup(c) \/ onDone(c) \/ WorkerDone(c)
             \/ ContextDone(c) \/ DropResponse(c)
      PROVE  IInv'
  BY <1>3, ReadEndsKeeps, CloseKeeps, MonitorContextKeeps, CancelRunsKeeps,
     onRedirectKeeps, onResponseKeeps, finishKeeps, cleanupKeeps, onDoneKeeps,
     WorkerDoneKeeps, ContextDoneKeeps, DropResponseKeeps
<1>4. CASE Forget \/ close \/ closeWorkers
  BY <1>4, ForgetKeeps, closeKeeps, closeWorkersKeeps
<1>. QED BY <1>1, <1>2, <1>3, <1>4 DEF Next

\* The inductive invariant: a call is where its request is, who is past
\* initialize finds what it has made, and what the finalizer has seen without a
\* reference stays so.
THEOREM Invariance == ASSUME SetupsAssumption PROVE Spec => []IInv
<1>1. Init => IInv
  BY InitIInv
<1>2. IInv /\ [Next]_vars => IInv'
  BY StepIInv
<1>. QED BY <1>1, <1>2, PTL DEF Spec

\* Every variable stays within its type.
THEOREM TypeCorrect == ASSUME SetupsAssumption PROVE Spec => []TypeOK
<1>1. IInv => TypeOK
  BY DEF IInv
<1>. QED BY <1>1, Invariance, PTL

\* A call that is over has its native request destroyed and its body closed, so
\* that an engine which was lent may be shut down; so has one that was given a
\* refused redirect; and no call returns neither a response nor an error.
THEOREM CallsSettle == ASSUME SetupsAssumption PROVE Spec => []Settled
<1>1. IInv => Settled
  BY DEF IInv
<1>. QED BY <1>1, Invariance, PTL

\* A native request or a function of it that is there keeps the finalizer away.
LEMMA Outliving ==
  ASSUME IInv
  PROVE  Outlives
<1>1. Taking
  BY ByCall DEF CallByCall
<1>2. ASSUME NEW c \in Callers
      PROVE  /\ native[c] \notin {"none", "destroyed"} =>
                    engine = "up" /\ executor = "up"
             /\ worker[c] # "none" => executor = "up"
  <2>1. /\ CallOK(c)
        /\ closing # "no" => Apart(c)
        /\ closing = "done" /\ Own("executor") => worker[c] = "none"
    BY ByCall DEF CallByCall
  <2>2. native[c] # "none" => initOnce /\ initErr = "nil"
    BY <2>1 DEF CallOK
  <2>3. worker[c] # "none" => native[c] # "none"
    BY <2>1 DEF CallOK
  <2>4. native[c] \notin {"none", "destroyed"} => closing = "no"
    BY <2>1 DEF Apart
  <2>. QED BY <1>1, <2>1, <2>2, <2>3, <2>4 DEF Taking
<1>3. ASSUME ~held,
             \A c \in Callers : /\ pc[c] \in {"idle", "over", "dropped"}
                                /\ native[c] \in {"none", "destroyed"}
                                /\ worker[c] = "none" /\ ~monitor[c]
      PROVE  ~Reachable
  BY <1>3, NotReaching DEF Apart
<1>. QED BY <1>2, <1>3 DEF Outlives

\* The finalizer of a RoundTripper takes neither the engine nor the executor from
\* a native request or from its last function, whatever was dropped before; and
\* it may run once all calls have come to their end.
THEOREM EngineOutlivesRequests == ASSUME SetupsAssumption PROVE Spec => []Outlives
<1>1. IInv => Outlives
  BY Outliving
<1>. QED BY <1>1, Invariance, PTL

=============================================================================
