----------------------------- MODULE MCFraming -----------------------------
(***************************************************************************)
(* Model-checking instance of the two framings under which a net.Conn of   *)
(* the package remains a pipe of bytes: PaddingConn and GrpcFraming.  A    *)
(* behaviour exercises one of them; the other stays in its initial state.  *)
(***************************************************************************)
EXTENDS MCPaddingConn

CONSTANTS HeaderSize, MaxMessage, MaxStream, MaxPiece, MaxRoom

VARIABLES
    part,
    grpcSent, pending, uploadErr, grpcWire, closed, grpcHeader, frame, cache,
    readErr, grpcRoom, grpcReceived

Grpc == INSTANCE GrpcFraming WITH
    MaxSent <- MaxStream, sent <- grpcSent, wire <- grpcWire,
    header <- grpcHeader, room <- grpcRoom, received <- grpcReceived

grpcVars == <<grpcSent, pending, uploadErr, grpcWire, closed, grpcHeader, frame,
              cache, readErr, grpcRoom, grpcReceived>>

SumInit == part \in {"padding", "grpc"} /\ Init /\ Grpc!Init

SumNext ==
    /\ UNCHANGED part
    /\ \/ part = "padding" /\ Next /\ UNCHANGED grpcVars
       \/ part = "grpc" /\ Grpc!Next /\ UNCHANGED vars

\* The fairness of PaddingConn, where it is exercised.
SumFairness ==
    /\ WF_vars(part = "padding" /\ writeWithPadding)
    /\ SF_vars(part = "padding" /\ \E n \in 1..MaxRead : Read(n))
    /\ WF_vars(part = "padding" /\ Progress)
    /\ SF_vars(part = "padding" /\ room > 0 /\ Progress)

SumSpec == SumInit /\ [][SumNext]_<<part, vars, grpcVars>> /\ SumFairness

\* Every variable of both stays within its type.
TypesOK == TypeOK /\ Grpc!TypeOK

\* What was delivered and what is under way is the stream, for both framings
\* and wherever in a frame a Read has stopped (NothingLost, Resumes).
FramesLoseNothing == NothingLost /\ Grpc!Resumes

\* Both framings are pipes of bytes.
FramedPipes == PipeSpec /\ Grpc!PipeSpec

=============================================================================
