---------------------------- MODULE MCTransport ----------------------------
(***************************************************************************)
(* Model-checking instance of the parts of a streaming request: its serial *)
(* executor, the request, and the provider of its upload.  A behaviour     *)
(* exercises one part; the others stay in an initial state, in which none  *)
(* of their fair actions is enabled.                                       *)
(***************************************************************************)
EXTENDS StreamingRequest, Integers

CONSTANTS Submitters, MaxSubmitted,
          Stoppers, BodySize, room, MaxAttempts, MaxBodies

VARIABLES
    part,
    executorQueue, running, submitted, begun, launch, loop,
    reader, closed, length, readLen, opened, position, closes, uploadPc, local,
    attempts, report, stopper, taken

\* Without Content-Length, and with one shorter than the body.
Lengths == {-1, 3}

Executor == INSTANCE SerialExecutor WITH queue <- executorQueue
Upload   == INSTANCE UploadProvider WITH pc <- uploadPc

ASSUME PartsAssumption ==
    /\ Executor!BoundAssumption
    /\ Upload!ConstantsAssumption

executorVars == <<executorQueue, running, submitted, begun, launch, loop>>
uploadVars ==
    <<reader, closed, length, readLen, opened, position, closes, uploadPc,
      local, attempts, report, stopper, taken>>
all == <<part, vars, executorVars, uploadVars>>

SumInit ==
    /\ part \in {"executor", "request", "upload"}
    /\ Init /\ Executor!Init /\ Upload!Init
    /\ part # "upload" => length = -1

SumNext ==
    /\ UNCHANGED part
    /\ \/ /\ part = "executor" /\ Executor!Next
          /\ UNCHANGED <<vars, uploadVars>>
       \/ /\ part = "request" /\ Next
          /\ UNCHANGED <<executorVars, uploadVars>>
       \/ /\ part = "upload" /\ Upload!Next
          /\ UNCHANGED <<vars, executorVars>>

SumSpec ==
    /\ SumInit /\ [][SumNext]_all
    /\ Executor!Fairness /\ Fairness /\ Upload!Fairness

\* Every variable of every part stays within its type.
TypesOK == Executor!TypeOK /\ TypeOK /\ Upload!TypeOK

\* The executor's running says exactly whether a drain loop is there or about to
\* be.
RunningMeansLoop == Executor!RunningMeansLoop

\* The executor runs what is submitted in order, each function once, and leaves
\* nothing in the queue for ever.
SerialSpec == Executor!SerialSpec

\* Every body has one owner, and is closed by it; the native side gets the bytes
\* of one body (OneOwner, CountsOneBody).
OneBody == Upload!OneBody

\* Calls return: those of a request, stop and the uploads it ends.
AllReturn == CallsReturn /\ Upload!StopUnblocks

=============================================================================
