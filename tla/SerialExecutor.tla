--------------------------- MODULE SerialExecutor ---------------------------
(***************************************************************************)
(* streamingExecutor of streaming_request.go.  submit appends under e.mu   *)
(* and, unless a drain loop runs, launches one on the parent executor;     *)
(* the loop takes functions one by one and clears running when it finds    *)
(* the queue empty, in the same section of e.mu.  A function may submit.   *)
(***************************************************************************)
EXTENDS Integers, Sequences

CONSTANTS Submitters,       \* goroutines and native threads that submit
          MaxSubmitted      \* bound on the functions submitted

BoundAssumption == MaxSubmitted \in Nat

\* A drain loop is known by the number of the function that launched it.
Loops == 1..MaxSubmitted

VARIABLES
    queue, running,     \* e.queue, e.running; a function is a number
    submitted, begun,   \* functions submitted; the last one taken
    launch,             \* the loop that a submitter is about to launch, or 0
    loop                \* where each drain loop is

vars == <<queue, running, submitted, begun, launch, loop>>

Init ==
    /\ queue = <<>> /\ running = FALSE
    /\ submitted = 0 /\ begun = 0
    /\ launch = [s \in Submitters |-> 0]
    /\ loop = [l \in Loops |-> "none"]

\* Mutated: every submit launches a loop.
submitAlways(s) ==
    /\ launch[s] = 0 /\ submitted < MaxSubmitted
    /\ submitted' = submitted + 1
    /\ queue' = Append(queue, submitted')
    /\ running' = TRUE
    /\ launch' = [launch EXCEPT ![s] = submitted']
    /\ UNCHANGED <<begun, loop>>

submit(s) ==
    /\ launch[s] = 0 /\ submitted < MaxSubmitted
    /\ submitted' = submitted + 1
    /\ queue' = Append(queue, submitted')
    /\ running' = TRUE
    /\ launch' = IF running THEN launch ELSE [launch EXCEPT ![s] = submitted']
    /\ UNCHANGED <<begun, loop>>

\* go e.parent.Execute(NewRunnable(...))
Launch(s) ==
    /\ launch[s] # 0
    /\ loop' = [loop EXCEPT ![launch[s]] = "take"]
    /\ launch' = [launch EXCEPT ![s] = 0]
    /\ UNCHANGED <<queue, running, submitted, begun>>

Take(l) ==
    /\ loop[l] = "take" /\ queue # <<>>
    /\ begun' = Head(queue)
    /\ queue' = Tail(queue)
    /\ loop' = [loop EXCEPT ![l] = "call"]
    /\ UNCHANGED <<running, submitted, launch>>

\* The function returns.
Finish(l) ==
    /\ loop[l] = "call"
    /\ loop' = [loop EXCEPT ![l] = "take"]
    /\ UNCHANGED <<queue, running, submitted, begun, launch>>

\* A function that is running submits another one.
SubmitWithin(l) ==
    /\ loop[l] = "call" /\ submitted < MaxSubmitted
    /\ submitted' = submitted + 1
    /\ queue' = Append(queue, submitted')
    /\ UNCHANGED <<running, begun, launch, loop>>

\* Mutated: running stays set when the loop ends.
StopRunning(l) ==
    /\ loop[l] = "take" /\ queue = <<>>
    /\ loop' = [loop EXCEPT ![l] = "none"]
    /\ UNCHANGED <<queue, running, submitted, begun, launch>>

Stop(l) ==
    /\ loop[l] = "take" /\ queue = <<>>
    /\ running' = FALSE
    /\ loop' = [loop EXCEPT ![l] = "none"]
    /\ UNCHANGED <<queue, submitted, begun, launch>>

Drain(l) == Take(l) \/ Finish(l) \/ Stop(l)

Next ==
    \/ \E s \in Submitters : submit(s) \/ Launch(s)
    \/ \E l \in Loops : Drain(l) \/ SubmitWithin(l)

\* Loops that were launched run, and the functions they call return.
Fairness ==
    /\ \A s \in Submitters : WF_vars(Launch(s))
    /\ \A l \in Loops : WF_vars(Drain(l))

Spec == Init /\ [][Next]_vars /\ Fairness

-----------------------------------------------------------------------------
(* Properties.                                                             *)

\* Every variable stays within its type, and the queue holds what was submitted
\* and not taken.
TypeOK ==
    /\ queue \in Seq(Loops) /\ running \in BOOLEAN
    /\ submitted \in 0..MaxSubmitted /\ begun \in 0..MaxSubmitted
    /\ Len(queue) = submitted - begun
    /\ launch \in [Submitters -> 0..MaxSubmitted]
    /\ loop \in [Loops -> {"none", "take", "call"}]

Active == {l \in Loops : loop[l] # "none"}
Launching == {s \in Submitters : launch[s] # 0}

\* running says exactly whether a loop is there or about to be: a submit that
\* finds it set may leave its function to that loop, and one that finds it
\* clear must not.
RunningMeansLoop ==
    /\ running <=> Active \cup Launching # {}
    /\ Active = {} \/ Launching = {}
    /\ \A l, m \in Active : l = m
    /\ \A s, t \in Launching : s = t

Calling == \E l \in Loops : loop[l] = "call"

\* What makes the above inductive: the queue continues the order of submission.
IInv ==
    /\ TypeOK
    /\ RunningMeansLoop
    /\ \A i \in 1..Len(queue) : queue[i] = begun + i
    /\ Calling => begun > 0

Serial == INSTANCE SerialQueue WITH
    finished <- IF Calling THEN begun - 1 ELSE begun

\* The executor runs what is submitted one at a time, in order, each once, and
\* leaves nothing in the queue for ever.
SerialSpec == Serial!Spec

=============================================================================
