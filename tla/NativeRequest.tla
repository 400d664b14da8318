--------------------------- MODULE NativeRequest ---------------------------
(***************************************************************************)
(* What Cronet's native URLRequest demands of its caller, taken from how   *)
(* streaming_request.go uses it: Start once; at most one response buffer   *)
(* lent; every upload call answered through its sink before the request    *)
(* and its upload provider are destroyed; Destroy once, of a request that  *)
(* was never started or whose terminal callback has run; nothing after it. *)
(***************************************************************************)
EXTENDS Naturals

VARIABLES life,     \* of the native object
          lent,     \* it holds a buffer to read into
          sinks     \* upload calls not yet answered

nativeVars == <<life, lent, sinks>>

Init == life = "created" /\ lent = FALSE /\ sinks = 0

Start == life = "created" /\ life' = "started" /\ UNCHANGED <<lent, sinks>>

Read ==
    /\ life = "started" /\ ~lent
    /\ lent' = TRUE
    /\ UNCHANGED <<life, sinks>>

Cancel == life = "started" /\ life' = "cancelled" /\ UNCHANGED <<lent, sinks>>

Answer ==
    /\ life # "destroyed" /\ sinks = 1
    /\ sinks' = 0
    /\ UNCHANGED <<life, lent>>

Destroy ==
    /\ life \in {"created", "over"} /\ ~lent /\ sinks = 0
    /\ life' = "destroyed"
    /\ UNCHANGED <<lent, sinks>>

\* The native side's own steps: a buffer comes back, an upload call is made,
\* the request has come to its end, the terminal callback has run.
ReturnBuffer ==
    /\ lent
    /\ lent' = FALSE
    /\ UNCHANGED <<life, sinks>>

Ask ==
    /\ life = "started" /\ sinks = 0
    /\ sinks' = 1
    /\ UNCHANGED <<life, lent>>

End ==
    /\ life \in {"started", "cancelled"}
    /\ life' = "ended"
    /\ lent' \in {lent, FALSE}
    /\ UNCHANGED sinks

Over == life = "ended" /\ life' = "over" /\ UNCHANGED <<lent, sinks>>

Next ==
    \/ Start \/ Read \/ Cancel \/ Answer \/ Destroy
    \/ ReturnBuffer \/ Ask \/ End \/ Over

Spec == Init /\ [][Next]_nativeVars

=============================================================================
