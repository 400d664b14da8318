---------------------------- MODULE SerialQueue ----------------------------
(***************************************************************************)
(* What a serial executor promises: functions run one at a time, in the    *)
(* order in which they were submitted, each once.  Function number i is    *)
(* the i-th that was submitted.                                            *)
(***************************************************************************)
EXTENDS Naturals

VARIABLES submitted, begun, finished

vars == <<submitted, begun, finished>>

Init == submitted = 0 /\ begun = 0 /\ finished = 0

Submit == submitted' = submitted + 1 /\ UNCHANGED <<begun, finished>>

Begin ==
    /\ begun = finished /\ begun < submitted
    /\ begun' = begun + 1
    /\ UNCHANGED <<submitted, finished>>

Finish ==
    /\ finished < begun
    /\ finished' = finished + 1
    /\ UNCHANGED <<submitted, begun>>

Next == Submit \/ Begin \/ Finish

\* In what order and how often functions run.
Order == Init /\ [][Next]_vars

\* And that they do.
Spec == Order /\ WF_vars(Begin)

=============================================================================
