---------------------------- MODULE MCPaddingConn ----------------------------
(* Model-checking instance of PaddingConn. *)
EXTENDS PaddingConn

NoTimeouts == {}

\* Timeouts that lose nothing: no part of a frame has been consumed.
SafeTimeouts == {"data", "raw", "plain"}

\* Timeouts in the middle of a frame: of a Read that has taken bytes of one,
\* and of a Write that is to produce one.
FrameTimeouts == {"skip", "header", "body", "frame"}

=============================================================================
