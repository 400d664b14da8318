---------------------------- MODULE NativeStream ----------------------------
(***************************************************************************)
(* What Cronet's native bidirectional stream demands of its caller, taken  *)
(* from how the bindings in bidirectional_stream_cgo.go describe and use   *)
(* it: Start before any other operation, at most one read and one write    *)
(* outstanding, Cancel and everything else only before Destroy, Destroy    *)
(* once.  The native side may complete an operation, end the stream, and   *)
(* delete it some time after Destroy, which is only posted.                *)
(*                                                                         *)
(* A buffer given to the native side is named by the goroutine that lent   *)
(* it; held[d] is the lender of the buffer the native side may still touch *)
(* in direction d.                                                         *)
(***************************************************************************)
EXTENDS Naturals

CONSTANTS Threads,      \* goroutines that call Read or Write
          None          \* no goroutine

Dirs == {"read", "write"}

VARIABLES native,       \* life of the native object
          held,         \* direction -> lender of the outstanding buffer
          cancelPosted, \* Cancel was called on a started stream
          eof,          \* the peer's end of stream was reported
          destroys      \* number of Destroy calls

nativeVars == <<native, held, cancelPosted, eof, destroys>>

Init ==
    /\ native = "created"
    /\ held = [d \in Dirs |-> None]
    /\ cancelPosted = FALSE
    /\ eof = FALSE
    /\ destroys = 0

\* A caller may destroy a stream that refuses to start in the same step.
Start ==
    /\ native = "created"
    /\ destroys = 0
    /\ native' \in {"running", "refused"}
    /\ \/ destroys' = 0
       \/ native' = "refused" /\ destroys' = 1
    /\ UNCHANGED <<held, cancelPosted, eof>>

\* A read or a write is posted: one at a time in each direction, no read after
\* the end of the response.
Post(d, t) ==
    /\ native = "running"
    /\ destroys = 0
    /\ held[d] = None
    /\ d = "read" => ~eof
    /\ held' = [held EXCEPT ![d] = t]
    /\ UNCHANGED <<native, cancelPosted, eof, destroys>>

Cancel ==
    /\ native = "running"
    /\ destroys = 0
    /\ cancelPosted' = TRUE
    /\ UNCHANGED <<native, held, eof, destroys>>

Destroy ==
    /\ destroys = 0
    /\ destroys' = 1
    /\ UNCHANGED <<native, held, cancelPosted, eof>>

\* The native side's own steps.
Complete(d) ==
    /\ native = "running"
    /\ held[d] # None
    /\ held' = [held EXCEPT ![d] = None]
    /\ eof' \in {eof, eof \/ d = "read"}
    /\ UNCHANGED <<native, cancelPosted, destroys>>

End ==
    /\ native = "running"
    /\ native' = "ended"
    /\ held' = [d \in Dirs |-> None]
    /\ UNCHANGED <<cancelPosted, eof, destroys>>

Delete ==
    /\ destroys = 1
    /\ native # "deleted"
    /\ native' = "deleted"
    /\ held' = [d \in Dirs |-> None]
    /\ UNCHANGED <<cancelPosted, eof, destroys>>

Next ==
    \/ Start
    \/ \E d \in Dirs : Complete(d) \/ \E t \in Threads : Post(d, t)
    \/ Cancel
    \/ Destroy
    \/ End
    \/ Delete

Spec == Init /\ [][Next]_nativeVars

=============================================================================
