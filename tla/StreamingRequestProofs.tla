----------------------- MODULE StreamingRequestProofs -----------------------
(***************************************************************************)
(* Safety of StreamingRequest for any readers, callers of close and sizes. *)
(* First what submitting and running do to the queue, so that the lemmas   *)
(* about the actions need not look into it; then IInv, one lemma for each  *)
(* action; then, under IInv, each action as a step of NativeRequest.       *)
(***************************************************************************)
EXTENDS StreamingRequest, TLAPS

USE DEF Singles, Finishers

\* TypeOK, in parts.
QueueTyped == queue \in Seq(Tasks)
FlagsTyped ==
  /\ started \in BOOLEAN /\ terminal \in BOOLEAN /\ readPending \in BOOLEAN
  /\ cleanupQueued \in BOOLEAN /\ stopped \in BOOLEAN /\ lent \in BOOLEAN
  /\ uploading \in BOOLEAN
CountersTyped ==
  /\ activeUploads \in 0..1 /\ pending \in 0..MaxChunk /\ readCh \in 0..1
  /\ done \in 0..1 /\ sinks \in 0..1
LabelsTyped ==
  /\ err \in Errors
  /\ life \in {"created", "started", "cancelled", "ended", "over", "destroyed"}
  /\ head \in {"waiting", "redirecting", "responded"}
  /\ app \in {"new", "created", "initFailed", "starting", "startFailed",
              "live", "over"}
  /\ result \in {"none", "ok", "error"}
  /\ pc \in [Readers \cup Closers -> {"idle", "look", "wait", "closing",
                                      "closed"}]

\* A submitted task comes last.
LEMMA SubmitAppends ==
  ASSUME QueueTyped, NEW t \in Tasks, Submit(t)
  PROVE  /\ queue' \in Seq(Tasks)
         /\ Len(queue) \in Nat /\ Len(queue') = Len(queue) + 1
         /\ DOMAIN queue = 1..Len(queue) /\ DOMAIN queue' = 1..Len(queue')
         /\ \A i \in 1..Len(queue) : queue'[i] = queue[i]
         /\ queue'[Len(queue) + 1] = t
  BY DEF QueueTyped, Submit

\* The function that runs came first, and what it submits comes last.
LEMMA RunShifts ==
  ASSUME QueueTyped, NEW do \in Dos, NEW more \in Seq(Tasks), Runs(do, more)
  PROVE  /\ queue' \in Seq(Tasks)
         /\ Len(queue) \in Nat \ {0} /\ Len(more) \in Nat
         /\ Len(queue') = Len(queue) - 1 + Len(more)
         /\ DOMAIN queue = 1..Len(queue) /\ DOMAIN queue' = 1..Len(queue')
         /\ Head(queue) = queue[1] /\ queue[1] \in Tasks /\ queue[1].do = do
         /\ \A i \in 1..(Len(queue) - 1) : queue'[i] = queue[i + 1]
         /\ \A i \in 1..Len(more) : queue'[Len(queue) - 1 + i] = more[i]
<1>1. /\ queue \in Seq(Tasks) /\ queue # <<>> /\ Head(queue).do = do
      /\ queue' = Tail(queue) \o more
  BY DEF QueueTyped, Runs, Due
<1>2. /\ Len(queue) \in Nat \ {0} /\ DOMAIN queue = 1..Len(queue)
      /\ Head(queue) = queue[1] /\ queue[1] \in Tasks
  BY <1>1
<1>3. /\ Tail(queue) \in Seq(Tasks) /\ Len(Tail(queue)) = Len(queue) - 1
      /\ \A i \in 1..(Len(queue) - 1) : Tail(queue)[i] = queue[i + 1]
  BY <1>1
<1>4. Len(more) \in Nat
  OBVIOUS
<1>5. /\ queue' \in Seq(Tasks) /\ Len(queue') = Len(queue) - 1 + Len(more)
      /\ DOMAIN queue' = 1..Len(queue')
  BY <1>1, <1>3
<1>6. \A i \in 1..(Len(queue) - 1) : queue'[i] = Tail(queue)[i]
  BY <1>1, <1>2, <1>3, <1>4
<1>7. \A i \in 1..Len(more) : queue'[Len(queue) - 1 + i] = more[i]
  BY <1>1, <1>2, <1>3, <1>4
<1>. QED BY <1>1, <1>2, <1>3, <1>4, <1>5, <1>6, <1>7

\* What a submit does to the predicates about the queue.
LEMMA SubmitEffect ==
  ASSUME QueueTyped, NEW t \in Tasks, Submit(t)
  PROVE  /\ queue' \in Seq(Tasks)
         /\ \A d \in Dos : Queued(d)' <=> Queued(d) \/ d = t.do
         /\ \A d \in Dos : Once(d) /\ (d = t.do => ~Queued(d)) => Once(d)'
         /\ \A d \in Dos : /\ BeforeEnd(d) /\ d # "OnTerminal"
                           /\ d = t.do => ~Queued("OnTerminal")
                           => BeforeEnd(d)'
         /\ Reasons /\ t.err # "none" => Reasons'
         /\ Reasons /\ t.do \notin Finishers => Reasons'
<1>. DEFINE n == Len(queue)
<1>1. /\ queue' \in Seq(Tasks) /\ n \in Nat /\ Len(queue') = n + 1
      /\ DOMAIN queue = 1..n /\ DOMAIN queue' = 1..(n + 1)
      /\ \A i \in 1..n : queue'[i] = queue[i]
      /\ queue'[n + 1] = t
  BY SubmitAppends
<1>. HIDE DEF n
<1>2. \A d \in Dos : Queued(d)' <=> Queued(d) \/ d = t.do
  <2>. TAKE d \in Dos
  <2>1. Queued(d) => Queued(d)'
    BY <1>1 DEF Queued
  <2>2. d = t.do => Queued(d)'
    <3>1. n + 1 \in 1..(n + 1)
      BY <1>1
    <3>. QED BY <3>1, <1>1 DEF Queued
  <2>3. Queued(d)' => Queued(d) \/ d = t.do
    BY <1>1 DEF Queued
  <2>. QED BY <2>1, <2>2, <2>3
<1>3. \A d \in Dos : Once(d) /\ (d = t.do => ~Queued(d)) => Once(d)'
  BY <1>1 DEF Once, Queued
<1>4. \A d \in Dos : /\ BeforeEnd(d) /\ d # "OnTerminal"
                     /\ d = t.do => ~Queued("OnTerminal")
                     => BeforeEnd(d)'
  BY <1>1 DEF BeforeEnd, Queued
<1>5. Reasons /\ t.err # "none" => Reasons'
  BY <1>1 DEF Reasons
<1>6. Reasons /\ t.do \notin Finishers => Reasons'
  BY <1>1 DEF Reasons
<1>. QED BY <1>1, <1>2, <1>3, <1>4, <1>5, <1>6

\* What running a function that submits nothing does to them.
LEMMA RunEffect ==
  ASSUME QueueTyped, NEW do \in Dos, Runs(do, <<>>)
  PROVE  /\ queue' \in Seq(Tasks)
         /\ Queued(do) /\ Head(queue) \in Tasks /\ Head(queue).do = do
         /\ \A d \in Dos \ {do} : Queued(d)' <=> Queued(d)
         /\ Queued(do)' => Queued(do)
         /\ Once(do) => ~Queued(do)'
         /\ \A d \in Dos : Once(d) => Once(d)'
         /\ \A d \in Dos : BeforeEnd(d) => BeforeEnd(d)'
         /\ \A d \in Dos : BeforeEnd(d) /\ do = "OnTerminal" => ~Queued(d)
         /\ Reasons => Reasons'
         /\ Reasons /\ do \in Finishers => Head(queue).err # "none"
<1>. DEFINE n == Len(queue) - 1
<1>1. /\ queue' \in Seq(Tasks) /\ n \in Nat /\ Len(queue') = n
      /\ DOMAIN queue = 1..(n + 1) /\ DOMAIN queue' = 1..n
      /\ Head(queue) = queue[1] /\ queue[1] \in Tasks /\ queue[1].do = do
      /\ \A i \in 1..n : queue'[i] = queue[i + 1]
  <2>. DEFINE more == <<>>
  <2>1. more \in Seq(Tasks) /\ Len(more) = 0 /\ Runs(do, more)
    OBVIOUS
  <2>. HIDE DEF more
  <2>2. /\ queue' \in Seq(Tasks) /\ Len(queue) \in Nat \ {0}
        /\ Len(queue') = Len(queue) - 1 + 0
        /\ DOMAIN queue = 1..Len(queue) /\ DOMAIN queue' = 1..Len(queue')
        /\ Head(queue) = queue[1] /\ queue[1] \in Tasks /\ queue[1].do = do
        /\ \A i \in 1..(Len(queue) - 1) : queue'[i] = queue[i + 1]
    BY <2>1, RunShifts, Zenon
  <2>3. Len(queue) - 1 + 0 = n /\ n \in Nat /\ Len(queue) = n + 1
    BY <2>2
  <2>. QED BY <2>2, <2>3, Zenon
<1>. HIDE DEF n
<1>a. /\ 1 \in 1..(n + 1) /\ \A i \in 1..n : i + 1 \in 1..(n + 1)
      /\ \A i \in 1..(n + 1) : i = 1 \/ (i - 1 \in 1..n /\ queue'[i - 1] = queue[i])
  BY <1>1
<1>2. Queued(do)
  BY <1>1, <1>a DEF Queued
<1>3. \A d \in Dos \ {do} : Queued(d)' <=> Queued(d)
  <2>. TAKE d \in Dos \ {do}
  <2>1. Queued(d)' => Queued(d)
    BY SMTT(20), <1>1, <1>a DEF Queued
  <2>2. Queued(d) => Queued(d)'
    BY <1>1, <1>a DEF Queued
  <2>. QED BY <2>1, <2>2
<1>4. Once(do) => ~Queued(do)'
  BY SMTT(20), <1>1, <1>a DEF Once, Queued
<1>5. \A d \in Dos : Once(d) => Once(d)'
  <2>. SUFFICES ASSUME NEW d \in Dos, Once(d), NEW i \in 1..n, NEW j \in 1..n,
                       queue'[i].do = d, queue'[j].do = d
                PROVE  i = j
    BY <1>1 DEF Once
  <2>1. queue[i + 1].do = d /\ queue[j + 1].do = d
    BY <1>1
  <2>2. i + 1 = j + 1
    BY <1>1, <1>a, <2>1 DEF Once
  <2>. QED BY <2>2
<1>6. \A d \in Dos : BeforeEnd(d) => BeforeEnd(d)'
  <2>. SUFFICES ASSUME NEW d \in Dos, BeforeEnd(d), NEW i \in 1..n, NEW j \in 1..n,
                       queue'[i].do = d, queue'[j].do = "OnTerminal"
                PROVE  i < j
    BY <1>1 DEF BeforeEnd
  <2>1. queue[i + 1].do = d /\ queue[j + 1].do = "OnTerminal"
    BY <1>1
  <2>2. i + 1 < j + 1
    BY <1>1, <1>a, <2>1 DEF BeforeEnd
  <2>. QED BY <1>1, <2>2
<1>7. \A d \in Dos : BeforeEnd(d) /\ do = "OnTerminal" => ~Queued(d)
  BY <1>1, <1>a DEF BeforeEnd, Queued
<1>8. Reasons => Reasons'
  BY <1>1, <1>a DEF Reasons
<1>9. Reasons /\ do \in Finishers => Head(queue).err # "none"
  BY <1>1, <1>a DEF Reasons
<1>. QED BY <1>1, <1>2, <1>3, <1>4, <1>5, <1>6, <1>7, <1>8, <1>9

\* What running a function that submits another does to them.
LEMMA RunMoreEffect ==
  ASSUME QueueTyped, NEW do \in Dos, NEW t \in Tasks, Runs(do, <<t>>),
         t.do \in {"startRead", "cleanup"}, t.do # do
  PROVE  /\ queue' \in Seq(Tasks)
         /\ Queued(do) /\ Head(queue) \in Tasks /\ Head(queue).do = do
         /\ \A d \in Dos \ {do, t.do} : Queued(d)' <=> Queued(d)
         /\ Queued(t.do)'
         /\ Queued(do)' => Queued(do)
         /\ Once(do) => ~Queued(do)'
         /\ \A d \in Dos : Once(d) /\ (d = t.do => ~Queued(d)) => Once(d)'
         /\ \A d \in Dos \ {t.do} : BeforeEnd(d) => BeforeEnd(d)'
         /\ \A d \in Dos : BeforeEnd(d) /\ do = "OnTerminal" => ~Queued(d)
         /\ Reasons => Reasons'
         /\ Reasons /\ do \in Finishers => Head(queue).err # "none"
<1>. DEFINE n == Len(queue) - 1
<1>1. /\ queue' \in Seq(Tasks) /\ n \in Nat /\ Len(queue') = n + 1
      /\ DOMAIN queue = 1..(n + 1) /\ DOMAIN queue' = 1..(n + 1)
      /\ Head(queue) = queue[1] /\ queue[1] \in Tasks /\ queue[1].do = do
      /\ \A i \in 1..n : queue'[i] = queue[i + 1]
      /\ queue'[n + 1] = t
  <2>. DEFINE more == <<t>>
  <2>1. /\ more \in Seq(Tasks) /\ Len(more) = 1 /\ Runs(do, more)
        /\ 1 \in 1..Len(more) /\ more[1] = t
    OBVIOUS
  <2>. HIDE DEF more
  <2>2. /\ queue' \in Seq(Tasks) /\ Len(queue) \in Nat \ {0}
        /\ Len(queue') = Len(queue) - 1 + 1
        /\ DOMAIN queue = 1..Len(queue) /\ DOMAIN queue' = 1..Len(queue')
        /\ Head(queue) = queue[1] /\ queue[1] \in Tasks /\ queue[1].do = do
        /\ \A i \in 1..(Len(queue) - 1) : queue'[i] = queue[i + 1]
        /\ queue'[Len(queue) - 1 + 1] = t
    BY <2>1, RunShifts, Zenon
  <2>3. Len(queue) - 1 + 1 = n + 1 /\ n \in Nat /\ Len(queue) = n + 1
    BY <2>2
  <2>. QED BY <2>2, <2>3, Zenon
<1>. HIDE DEF n
<1>a. /\ 1 \in 1..(n + 1) /\ n + 1 \in 1..(n + 1)
      /\ \A i \in 1..n : i \in 1..(n + 1) /\ i + 1 \in 1..(n + 1)
      /\ \A i \in 1..(n + 1) : i = 1 \/ (i - 1 \in 1..n /\ queue'[i - 1] = queue[i])
      /\ \A i \in 1..(n + 1) : i = n + 1 \/ i \in 1..n
  BY <1>1
<1>c. \A i \in 1..(n + 1) : queue'[i].do # t.do =>
          i + 1 \in 1..(n + 1) /\ queue[i + 1] = queue'[i]
  BY <1>1, <1>a
<1>2. Queued(do)
  BY <1>1, <1>a DEF Queued
<1>3. \A d \in Dos \ {do, t.do} : Queued(d)' <=> Queued(d)
  <2>. TAKE d \in Dos \ {do, t.do}
  <2>1. Queued(d)' => Queued(d)
    BY <1>1, <1>c DEF Queued
  <2>2. Queued(d) => Queued(d)'
    BY <1>1, <1>a DEF Queued
  <2>. QED BY <2>1, <2>2
<1>b. Queued(t.do)'
  BY <1>1, <1>a DEF Queued
<1>4. Once(do) => ~Queued(do)'
  <2>. SUFFICES ASSUME Once(do), NEW i \in 1..(n + 1), queue'[i].do = do
                PROVE  FALSE
    BY <1>1 DEF Queued
  <2>1. i + 1 \in 1..(n + 1) /\ queue[i + 1].do = do
    BY <1>c
  <2>2. i + 1 = 1
    BY <1>1, <1>a, <2>1 DEF Once
  <2>. QED BY <2>2
<1>5. \A d \in Dos : Once(d) /\ (d = t.do => ~Queued(d)) => Once(d)'
  <2>. SUFFICES ASSUME NEW d \in Dos, Once(d), d = t.do => ~Queued(d),
                       NEW i \in 1..(n + 1), NEW j \in 1..(n + 1),
                       queue'[i].do = d, queue'[j].do = d
                PROVE  i = j
    BY <1>1 DEF Once
  <2>1. CASE d = t.do
    <3>1. \A k \in 1..(n + 1) : queue[k].do # d
      BY <1>1, <2>1 DEF Queued
    <3>2. \A k \in 1..n : queue'[k].do # d
      BY <1>1, <1>a, <3>1
    <3>. QED BY <1>a, <3>2
  <2>2. CASE d # t.do
    <3>1. /\ i + 1 \in 1..(n + 1) /\ queue[i + 1].do = d
          /\ j + 1 \in 1..(n + 1) /\ queue[j + 1].do = d
      BY <1>c, <2>2
    <3>2. i + 1 = j + 1
      BY <1>1, <3>1 DEF Once
    <3>. QED BY <3>2
  <2>. QED BY <2>1, <2>2
<1>6. \A d \in Dos \ {t.do} : BeforeEnd(d) => BeforeEnd(d)'
  <2>. SUFFICES ASSUME NEW d \in Dos \ {t.do}, BeforeEnd(d),
                       NEW i \in 1..(n + 1), NEW j \in 1..(n + 1),
                       queue'[i].do = d, queue'[j].do = "OnTerminal"
                PROVE  i < j
    BY <1>1 DEF BeforeEnd
  <2>1. /\ i + 1 \in 1..(n + 1) /\ queue[i + 1].do = d
        /\ j + 1 \in 1..(n + 1) /\ queue[j + 1].do = "OnTerminal"
    BY <1>c
  <2>2. i + 1 < j + 1
    BY <1>1, <2>1 DEF BeforeEnd
  <2>. QED BY <2>2
<1>7. \A d \in Dos : BeforeEnd(d) /\ do = "OnTerminal" => ~Queued(d)
  BY <1>1, <1>a DEF BeforeEnd, Queued
<1>8. Reasons => Reasons'
  <2>. SUFFICES ASSUME Reasons, NEW i \in 1..(n + 1),
                       queue'[i].do \in Finishers
                PROVE  queue'[i].err # "none"
    BY <1>1 DEF Reasons
  <2>1. i + 1 \in 1..(n + 1) /\ queue[i + 1] = queue'[i]
    BY <1>c
  <2>. QED BY <1>1, <2>1 DEF Reasons
<1>9. Reasons /\ do \in Finishers => Head(queue).err # "none"
  BY <1>1, <1>a DEF Reasons
<1>. QED BY <1>1, <1>2, <1>3, <1>b, <1>4, <1>5, <1>6, <1>7, <1>8, <1>9

\* What the rest of this module knows about the queue.
LEMMA Same ==
  ASSUME QueueTyped, Queue, UNCHANGED queue
  PROVE  /\ queue' \in Seq(Tasks) /\ Queue'
         /\ \A d \in Dos : Queued(d)' <=> Queued(d)
  BY DEF QueueTyped, Queue, Queued, Once, BeforeEnd, Reasons

LEMMA Submitted ==
  ASSUME QueueTyped, Queue, NEW t \in Tasks, Submit(t),
         t.do \in Singles
            => ~Queued(t.do),
         t.do \in {"OnReadCompleted", "upload"} => ~Queued("OnTerminal"),
         t.do \in Finishers => t.err # "none"
  PROVE  /\ queue' \in Seq(Tasks) /\ Queue'
         /\ \A d \in Dos : Queued(d)' <=> Queued(d) \/ d = t.do
<1>1. /\ queue' \in Seq(Tasks)
      /\ \A d \in Dos : Queued(d)' <=> Queued(d) \/ d = t.do
  BY SubmitEffect
<1>2. \A d \in Singles : Once(d)'
  <2>. TAKE d \in Singles
  <2>1. d \in Dos /\ Once(d) /\ (d = t.do => ~Queued(d))
    BY DEF Dos, Queue
  <2>. QED BY <2>1, SubmitEffect
<1>3. BeforeEnd("upload")' /\ BeforeEnd("OnReadCompleted")'
  <2>1. BeforeEnd("upload")'
    <3>1. "upload" \in Dos /\ BeforeEnd("upload") /\ "upload" # "OnTerminal"
          /\ ("upload" = t.do => ~Queued("OnTerminal"))
      BY DEF Dos, Queue
    <3>. QED BY <3>1, SubmitEffect
  <2>2. BeforeEnd("OnReadCompleted")'
    <3>1. "OnReadCompleted" \in Dos /\ BeforeEnd("OnReadCompleted")
          /\ "OnReadCompleted" # "OnTerminal"
          /\ ("OnReadCompleted" = t.do => ~Queued("OnTerminal"))
      BY DEF Dos, Queue
    <3>. QED BY <3>1, SubmitEffect
  <2>. QED BY <2>1, <2>2
<1>4. Reasons'
  BY SubmitEffect DEF Queue
<1>. QED BY <1>1, <1>2, <1>3, <1>4 DEF Queue

LEMMA Ran ==
  ASSUME QueueTyped, Queue, NEW do \in Dos, Runs(do, <<>>)
  PROVE  /\ queue' \in Seq(Tasks) /\ Queue'
         /\ Queued(do) /\ Head(queue) \in Tasks /\ Head(queue).do = do
         /\ do \in Finishers => Head(queue).err # "none"
         /\ \A d \in Dos \ {do} : Queued(d)' <=> Queued(d)
         /\ do \in Singles
               => ~Queued(do)'
         /\ do = "OnTerminal" => ~Queued("upload") /\ ~Queued("OnReadCompleted")
<1>1. /\ queue' \in Seq(Tasks)
      /\ Queued(do) /\ Head(queue) \in Tasks /\ Head(queue).do = do
      /\ \A d \in Dos \ {do} : Queued(d)' <=> Queued(d)
      /\ Reasons'
      /\ do \in Finishers => Head(queue).err # "none"
  BY RunEffect DEF Queue
<1>2. \A d \in Singles : Once(d)'
  <2>. TAKE d \in Singles
  <2>1. d \in Dos /\ Once(d)
    BY DEF Dos, Queue
  <2>. QED BY <2>1, RunEffect
<1>3. BeforeEnd("upload")' /\ BeforeEnd("OnReadCompleted")'
  <2>1. {"upload", "OnReadCompleted"} \subseteq Dos
    BY DEF Dos
  <2>. QED BY <2>1, RunEffect DEF Queue
<1>4. do \in Singles => ~Queued(do)'
  BY RunEffect DEF Queue
<1>5. do = "OnTerminal" => ~Queued("upload") /\ ~Queued("OnReadCompleted")
  <2>1. {"upload", "OnReadCompleted"} \subseteq Dos
    BY DEF Dos
  <2>. QED BY <2>1, RunEffect DEF Queue
<1>. QED BY <1>1, <1>2, <1>3, <1>4, <1>5 DEF Queue

LEMMA RanMore ==
  ASSUME QueueTyped, Queue, NEW do \in Dos, NEW t \in Tasks, Runs(do, <<t>>),
         t.do \in {"startRead", "cleanup"}, t.do # do,
         t.do = "cleanup" => ~Queued("cleanup")
  PROVE  /\ queue' \in Seq(Tasks) /\ Queue'
         /\ Queued(do) /\ Head(queue) \in Tasks /\ Head(queue).do = do
         /\ do \in Finishers => Head(queue).err # "none"
         /\ \A d \in Dos \ {do, t.do} : Queued(d)' <=> Queued(d)
         /\ Queued(t.do)'
         /\ do \in Singles
               => ~Queued(do)'
         /\ do = "OnTerminal" => ~Queued("upload") /\ ~Queued("OnReadCompleted")
<1>1. /\ queue' \in Seq(Tasks)
      /\ Queued(do) /\ Head(queue) \in Tasks /\ Head(queue).do = do
      /\ \A d \in Dos \ {do, t.do} : Queued(d)' <=> Queued(d)
      /\ Queued(t.do)'
      /\ Reasons'
      /\ do \in Finishers => Head(queue).err # "none"
  BY RunMoreEffect DEF Queue
<1>2. \A d \in Singles : Once(d)'
  <2>. TAKE d \in Singles
  <2>1. d \in Dos /\ Once(d) /\ (d = t.do => ~Queued(d))
    BY DEF Dos, Queue
  <2>. QED BY <2>1, RunMoreEffect
<1>3. BeforeEnd("upload")' /\ BeforeEnd("OnReadCompleted")'
  <2>1. {"upload", "OnReadCompleted"} \subseteq Dos \ {t.do}
    BY DEF Dos
  <2>. QED BY <2>1, RunMoreEffect DEF Queue
<1>4. do \in Singles => ~Queued(do)'
  BY RunMoreEffect DEF Queue
<1>5. do = "OnTerminal" => ~Queued("upload") /\ ~Queued("OnReadCompleted")
  <2>1. {"upload", "OnReadCompleted"} \subseteq Dos
    BY DEF Dos
  <2>. QED BY <2>1, RunMoreEffect DEF Queue
<1>. QED BY <1>1, <1>2, <1>3, <1>4, <1>5 DEF Queue

\* What finish does, of whichever function it is a part.
LEMMA FinishRan ==
  ASSUME IInv,
         NEW do \in {"finish", "start", "cancel", "OnTerminal"},
         NEW e \in Errors \ {"none"}, finish(do, e)
  PROVE  /\ queue' \in Seq(Tasks) /\ Queue' /\ Queued(do)
         /\ \A d \in Dos \ {do, "cleanup"} : Queued(d)' <=> Queued(d)
         /\ Queued("cleanup")' <=>
               Queued("cleanup") \/ (~terminal /\ activeUploads = 0)
         /\ do = "OnTerminal" => /\ ~Queued("OnTerminal")' /\ ~Queued("upload")
                                /\ ~Queued("OnReadCompleted")
         /\ terminal' = TRUE /\ err' \in Errors \ {"none"}
         /\ terminal => UNCHANGED <<err, stopped>>
         /\ stopped' \in BOOLEAN /\ cleanupQueued' \in BOOLEAN
         /\ cleanupQueued' <=> cleanupQueued \/ (~terminal /\ activeUploads = 0)
<1>. DEFINE t == Plain("cleanup")
<1>1. t \in Tasks /\ t.do = "cleanup"
  BY ConstantsAssumption DEF Plain, Task, Tasks, Dos, Errors, ConstantsAssumption
<1>2. QueueTyped /\ Queue /\ do \in Dos /\ do # "cleanup" /\ "cleanup" \in Dos
  BY DEF IInv, TypeOK, QueueTyped, Dos
<1>3. Queued("cleanup") => cleanupQueued /\ terminal
  BY DEF IInv, Cleanup
<1>4. terminal \in BOOLEAN /\ cleanupQueued \in BOOLEAN /\ stopped \in BOOLEAN
  BY DEF IInv, TypeOK
<1>5. cleanupQueued => terminal
  BY DEF IInv, Cleanup
<1>6. terminal => err # "none"
  BY DEF IInv, Life
<1>7. err \in Errors
  BY DEF IInv, TypeOK
<1>8. CASE terminal
  <2>1. Runs(do, <<>>) /\ UNCHANGED <<terminal, cleanupQueued, err, stopped>>
    BY <1>8 DEF finish
  <2>. QED BY <1>2, <1>4, <1>6, <1>7, <1>8, <2>1, Ran
<1>9. CASE ~terminal /\ activeUploads = 0
  <2>1. /\ Runs(do, <<t>>) /\ terminal' = TRUE /\ err' = First(e)
        /\ stopped' = TRUE /\ cleanupQueued' = TRUE
    BY <1>9 DEF finish
  <2>2. err' \in Errors \ {"none"}
    BY <1>7, <2>1 DEF First
  <2>. HIDE DEF t
  <2>3. /\ queue' \in Seq(Tasks) /\ Queue' /\ Queued(do)
        /\ \A d \in Dos \ {do, "cleanup"} : Queued(d)' <=> Queued(d)
        /\ Queued("cleanup")'
        /\ do = "OnTerminal" => /\ ~Queued("OnTerminal")' /\ ~Queued("upload")
                               /\ ~Queued("OnReadCompleted")
    BY <1>1, <1>2, <1>3, <1>9, <2>1, RanMore
  <2>. QED BY <1>9, <2>1, <2>2, <2>3
<1>10. CASE ~terminal /\ activeUploads # 0
  <2>1. /\ Runs(do, <<>>) /\ terminal' = TRUE /\ err' = First(e)
        /\ stopped' = TRUE /\ cleanupQueued' = FALSE
    BY <1>10 DEF finish
  <2>2. err' \in Errors \ {"none"}
    BY <1>7, <2>1 DEF First
  <2>. QED BY <1>2, <1>3, <1>5, <1>10, <2>1, <2>2, Ran
<1>. QED BY <1>8, <1>9, <1>10

\* What a function that finishes the request was created with is an error.
LEMMA HeadReason ==
  ASSUME IInv, NEW do \in Finishers, Due(do)
  PROVE  Head(queue).err \in Errors \ {"none"}
<1>1. queue \in Seq(Tasks) /\ queue # <<>> /\ Head(queue).do = do /\ Reasons
  BY DEF IInv, TypeOK, Queue, Due
<1>2. 1 \in DOMAIN queue /\ Head(queue) = queue[1] /\ queue[1] \in Tasks
  BY <1>1
<1>. QED BY <1>1, <1>2 DEF Reasons, Tasks

\* An action of the queue, if it submits anything.
LEMMA MaybeSubmitted ==
  ASSUME QueueTyped, Queue, NEW t \in Tasks, Submit(t) \/ UNCHANGED queue,
         t.do \in {"finish", "start", "startRead", "cancel"},
         t.do \in {"finish", "cancel"} => t.err # "none"
  PROVE  /\ queue' \in Seq(Tasks) /\ Queue'
         /\ \A d \in Dos \ {t.do} : Queued(d)' <=> Queued(d)
         /\ Queued(t.do) \/ Submit(t) => Queued(t.do)'
         /\ Queued(t.do)' => Queued(t.do) \/ ~UNCHANGED queue
<1>1. t.do \in Dos
  BY DEF Dos
<1>2. CASE UNCHANGED queue
  <2>1. /\ queue' \in Seq(Tasks) /\ Queue'
        /\ \A d \in Dos : Queued(d)' <=> Queued(d)
    BY <1>2, Same
  <2>2. ~Submit(t)
    BY <1>2, SubmitAppends
  <2>. QED BY <1>1, <1>2, <2>1, <2>2
<1>3. CASE Submit(t)
  <2>1. /\ queue' \in Seq(Tasks) /\ Queue'
        /\ \A d \in Dos : Queued(d)' <=> Queued(d) \/ d = t.do
    BY <1>3, Submitted
  <2>2. ~UNCHANGED queue
    BY <1>3, SubmitAppends
  <2>. QED BY <1>1, <2>1, <2>2
<1>. QED BY <1>2, <1>3

-----------------------------------------------------------------------------
(* The actions keep the invariant.                                         *)

USE DEF serialVars, streamVars, nativeVars, callVars

\* A step of a caller alone.
LEMMA Aside ==
  ASSUME IInv, TypeOK', app' \notin {"new", "created"} \/ app' = app,
         UNCHANGED <<queue, serialVars, err, pending, done, nativeVars, uploading>>
  PROVE  IInv'
<1>1. QueueTyped /\ Queue /\ UNCHANGED queue
  BY DEF IInv, TypeOK, QueueTyped
<1>2. Queue' /\ \A d \in Dos : Queued(d)' <=> Queued(d)
  BY <1>1, Same
<1>3. Birth' /\ Life' /\ Cleanup' /\ Uploads' /\ Buffer' /\ ReadFlow'
  BY <1>2 DEF IInv, Birth, Life, Cleanup, Uploads, Buffer, ReadFlow, Dos
<1>. QED BY <1>2, <1>3 DEF IInv

\* The request is created, or its initialisation fails.
LEMMA CreateKeeps ==
  ASSUME IInv, Create
  PROVE  IInv'
<1>t. QueueTyped /\ Queue
  BY DEF IInv, TypeOK, QueueTyped
<1>. DEFINE t == Task("finish", "init", 0)
<1>a. t \in Tasks /\ t.do = "finish" /\ t.err = "init"
  BY ConstantsAssumption DEF Task, Tasks, Dos, Errors, ConstantsAssumption
<1>b. UNCHANGED queue \/ Submit(t)
  BY <1>t DEF Create, Plain, IInv, Life, Uploads, Buffer
<1>. HIDE DEF t
<1>q. /\ queue' \in Seq(Tasks) /\ Queue'
      /\ \A d \in Dos \ {"finish"} : Queued(d)' <=> Queued(d)
      /\ Queued("finish") \/ Submit(t) => Queued("finish")'
      /\ Queued("finish")' => Queued("finish") \/ ~UNCHANGED queue
  BY <1>t, <1>a, <1>b, MaybeSubmitted
<1>1. TypeOK'
  BY <1>q, ConstantsAssumption DEF IInv, Create, TypeOK, Dos, ConstantsAssumption, Errors
<1>2. Birth'
  BY <1>q DEF IInv, Create, Birth, Dos
<1>3. Life'
  BY <1>q DEF IInv, Create, Life, Dos
<1>4. Cleanup'
  BY <1>q DEF IInv, Create, Cleanup, Dos
<1>5. Uploads'
  BY <1>q DEF IInv, Create, Uploads, Dos
<1>6. Buffer'
  BY <1>q DEF IInv, Create, Buffer, Dos
<1>7. ReadFlow'
  BY <1>q DEF IInv, Create, ReadFlow, Dos
<1>. QED BY <1>q, <1>1, <1>2, <1>3, <1>4, <1>5, <1>6, <1>7 DEF IInv

\* The caller starts the request.
LEMMA StartKeeps ==
  ASSUME IInv, start
  PROVE  IInv'
<1>t. QueueTyped /\ Queue
  BY DEF IInv, TypeOK, QueueTyped
<1>. DEFINE t == Task("start", "none", 0)
<1>a. t \in Tasks /\ t.do = "start" /\ t.err = "none"
  BY ConstantsAssumption DEF Task, Tasks, Dos, Errors, ConstantsAssumption
<1>b. Submit(t)
  BY <1>t DEF start, Plain
<1>. HIDE DEF t
<1>q. /\ queue' \in Seq(Tasks) /\ Queue'
      /\ \A d \in Dos : Queued(d)' <=> Queued(d) \/ d = "start"
  BY <1>t, <1>a, <1>b, Submitted
<1>1. TypeOK'
  BY <1>q, ConstantsAssumption DEF IInv, start, TypeOK, Dos, ConstantsAssumption, Errors
<1>2. Birth'
  BY <1>q DEF IInv, start, Birth, Dos
<1>3. Life'
  BY <1>q DEF IInv, start, Life, Dos
<1>4. Cleanup'
  BY <1>q DEF IInv, start, Cleanup, Dos
<1>5. Uploads'
  BY <1>q DEF IInv, start, Uploads, Dos
<1>6. Buffer'
  BY <1>q DEF IInv, start, Buffer, Dos
<1>7. ReadFlow'
  BY <1>q DEF IInv, start, ReadFlow, Dos
<1>. QED BY <1>q, <1>1, <1>2, <1>3, <1>4, <1>5, <1>6, <1>7 DEF IInv

\* The caller learns how the start went.
LEMMA StartReturnsKeeps ==
  ASSUME IInv, StartReturns
  PROVE  IInv'
<1>1. TypeOK'
  BY DEF IInv, StartReturns, TypeOK
<1>. QED BY <1>1, Aside DEF StartReturns

\* The caller of a failed request waits for its end.
LEMMA AwaitDoneKeeps ==
  ASSUME IInv, AwaitDone
  PROVE  IInv'
<1>1. TypeOK'
  BY DEF IInv, AwaitDone, TypeOK
<1>. QED BY <1>1, Aside DEF AwaitDone

\* A reader comes in.
LEMMA ReadKeeps ==
  ASSUME IInv, NEW p \in Readers, Read(p)
  PROVE  IInv'
<1>1. TypeOK'
  BY DEF IInv, Read, TypeOK, Goto
<1>. QED BY <1>1, Aside DEF Read

\* A reader takes what is there, or the error.
LEMMA LookKeeps ==
  ASSUME IInv, NEW p \in Readers, Look(p)
  PROVE  IInv'
<1>t. QueueTyped /\ Queue
  BY DEF IInv, TypeOK, QueueTyped
<1>. DEFINE t == Task("startRead", "none", 0)
<1>a. t \in Tasks /\ t.do = "startRead" /\ t.err = "none"
  BY ConstantsAssumption DEF Task, Tasks, Dos, Errors, ConstantsAssumption
<1>b. UNCHANGED queue \/ Submit(t)
  BY <1>t DEF Look, Plain, IInv, Life, Uploads, Buffer, Goto
<1>. HIDE DEF t
<1>q. /\ queue' \in Seq(Tasks) /\ Queue'
      /\ \A d \in Dos \ {"startRead"} : Queued(d)' <=> Queued(d)
      /\ Queued("startRead") \/ Submit(t) => Queued("startRead")'
      /\ Queued("startRead")' => Queued("startRead") \/ ~UNCHANGED queue
  BY <1>t, <1>a, <1>b, MaybeSubmitted
<1>1. TypeOK'
  BY <1>q, ConstantsAssumption DEF IInv, Look, TypeOK, Dos, ConstantsAssumption, Errors, Goto
<1>2. Birth'
  BY <1>q DEF IInv, Look, Birth, Dos
<1>3. Life'
  BY <1>q DEF IInv, Look, Life, Dos, Goto
<1>4. Cleanup'
  BY <1>q DEF IInv, Look, Cleanup, Dos, Goto
<1>5. Uploads'
  BY <1>q DEF IInv, Look, Uploads, Dos, Goto
<1>6. Buffer'
  BY <1>q DEF IInv, Look, Buffer, Dos, Goto
<1>7. ReadFlow'
  <2>1. pending > 0 /\ err = "none" => pending' > 0 \/ Submit(t)
    <3>1. pending > 0 => pending' \in 0..MaxChunk
      BY ConstantsAssumption DEF IInv, TypeOK, Look, ConstantsAssumption
    <3>2. t = Plain("startRead")
      BY DEF Plain, t
    <3>. QED BY <3>1, <3>2 DEF Look
  <2>2. /\ Queued("startRead") \/ Submit(t) => Queued("startRead")'
        /\ Queued("OnResponseStarted")' <=> Queued("OnResponseStarted")
        /\ Queued("OnTerminal")' <=> Queued("OnTerminal")
    BY <1>q DEF Dos
  <2>3. readPending \/ lent => pending' = 0
    BY DEF IInv, TypeOK, Look, ReadFlow
  <2>4. UNCHANGED <<head, err, readPending, lent>>
    BY DEF Look
  <2>5. pending = 0 \/ pending > 0
    BY ConstantsAssumption DEF IInv, TypeOK, ConstantsAssumption
  <2>6. pending = 0 => UNCHANGED pending
    BY DEF Look
  <2>. QED BY <2>1, <2>2, <2>3, <2>4, <2>5, <2>6 DEF IInv, ReadFlow
<1>. QED BY <1>q, <1>1, <1>2, <1>3, <1>4, <1>5, <1>6, <1>7 DEF IInv

\* A reader is woken.
LEMMA WakeKeeps ==
  ASSUME IInv, NEW p \in Readers, Wake(p)
  PROVE  IInv'
<1>1. TypeOK'
  BY DEF IInv, Wake, TypeOK, Goto
<1>. QED BY <1>1, Aside DEF Wake

\* A reader gives up.
LEMMA ContextDoneKeeps ==
  ASSUME IInv, NEW p \in Readers, ContextDone(p)
  PROVE  IInv'
<1>1. TypeOK'
  BY DEF IInv, ContextDone, TypeOK, Goto
<1>. QED BY <1>1, Aside DEF ContextDone

\* A context cancels the request.
LEMMA CancelKeeps ==
  ASSUME IInv, NEW e \in {"canceled", "deadline"}, cancel(e)
  PROVE  IInv'
<1>t. QueueTyped /\ Queue
  BY DEF IInv, TypeOK, QueueTyped
<1>. DEFINE t == Task("cancel", e, 0)
<1>a. t \in Tasks /\ t.do = "cancel" /\ t.err = e
  BY ConstantsAssumption DEF Task, Tasks, Dos, Errors, ConstantsAssumption
<1>b. UNCHANGED queue \/ Submit(t)
  BY <1>t DEF cancel, Plain, IInv, Life, Uploads, Buffer, cancelWithError
<1>. HIDE DEF t
<1>q. /\ queue' \in Seq(Tasks) /\ Queue'
      /\ \A d \in Dos \ {"cancel"} : Queued(d)' <=> Queued(d)
      /\ Queued("cancel") \/ Submit(t) => Queued("cancel")'
      /\ Queued("cancel")' => Queued("cancel") \/ ~UNCHANGED queue
  BY <1>t, <1>a, <1>b, MaybeSubmitted
<1>1. TypeOK'
  BY <1>q, ConstantsAssumption DEF IInv, cancel, TypeOK, Dos, ConstantsAssumption, Errors,
     cancelWithError
<1>2. Birth'
  BY <1>q DEF IInv, cancel, Birth, Dos
<1>3. Life'
  BY <1>q DEF IInv, cancel, Life, Dos, cancelWithError
<1>4. Cleanup'
  BY <1>q DEF IInv, cancel, Cleanup, Dos, cancelWithError
<1>5. Uploads'
  BY <1>q DEF IInv, cancel, Uploads, Dos, cancelWithError
<1>6. Buffer'
  BY <1>q DEF IInv, cancel, Buffer, Dos, cancelWithError
<1>7. ReadFlow'
  BY <1>q DEF IInv, cancel, ReadFlow, Dos, cancelWithError
<1>. QED BY <1>q, <1>1, <1>2, <1>3, <1>4, <1>5, <1>6, <1>7 DEF IInv

\* The caller closes the request.
LEMMA CloseKeeps ==
  ASSUME IInv, NEW p \in Closers, close(p)
  PROVE  IInv'
<1>t. QueueTyped /\ Queue
  BY DEF IInv, TypeOK, QueueTyped
<1>. DEFINE t == Task("cancel", "canceled", 0)
<1>a. t \in Tasks /\ t.do = "cancel" /\ t.err = "canceled"
  BY ConstantsAssumption DEF Task, Tasks, Dos, Errors, ConstantsAssumption
<1>b. UNCHANGED queue \/ Submit(t)
  BY <1>t DEF close, Plain, IInv, Life, Uploads, Buffer, cancelWithError, Goto
<1>. HIDE DEF t
<1>q. /\ queue' \in Seq(Tasks) /\ Queue'
      /\ \A d \in Dos \ {"cancel"} : Queued(d)' <=> Queued(d)
      /\ Queued("cancel") \/ Submit(t) => Queued("cancel")'
      /\ Queued("cancel")' => Queued("cancel") \/ ~UNCHANGED queue
  BY <1>t, <1>a, <1>b, MaybeSubmitted
<1>1. TypeOK'
  BY <1>q, ConstantsAssumption DEF IInv, close, TypeOK, Dos, ConstantsAssumption, Errors,
     cancelWithError, Goto
<1>2. Birth'
  BY <1>q DEF IInv, close, Birth, Dos
<1>3. Life'
  BY <1>q DEF IInv, close, Life, Dos, cancelWithError, Goto
<1>4. Cleanup'
  BY <1>q DEF IInv, close, Cleanup, Dos, cancelWithError, Goto
<1>5. Uploads'
  BY <1>q DEF IInv, close, Uploads, Dos, cancelWithError, Goto
<1>6. Buffer'
  BY <1>q DEF IInv, close, Buffer, Dos, cancelWithError, Goto
<1>7. ReadFlow'
  BY <1>q DEF IInv, close, ReadFlow, Dos, cancelWithError, Goto
<1>. QED BY <1>q, <1>1, <1>2, <1>3, <1>4, <1>5, <1>6, <1>7 DEF IInv

\* A close returns.
LEMMA CloseReturnsKeeps ==
  ASSUME IInv, NEW p \in Closers, CloseReturns(p)
  PROVE  IInv'
<1>1. TypeOK'
  BY DEF IInv, CloseReturns, TypeOK, Goto
<1>. QED BY <1>1, Aside DEF CloseReturns

\* The upload goroutine has an answer.
LEMMA UploadDoneKeeps ==
  ASSUME IInv, UploadDone
  PROVE  IInv'
<1>t. QueueTyped /\ Queue
  BY DEF IInv, TypeOK, QueueTyped
<1>. DEFINE t == Task("notify", "none", 0)
<1>a. t \in Tasks /\ t.do = "notify" /\ t.err = "none"
  BY ConstantsAssumption DEF Task, Tasks, Dos, Errors, ConstantsAssumption
<1>b. Submit(t) /\ ~Queued("notify")
  BY <1>t DEF UploadDone, Plain, IInv, Life, Uploads, Buffer
<1>. HIDE DEF t
<1>q. /\ queue' \in Seq(Tasks) /\ Queue'
      /\ \A d \in Dos : Queued(d)' <=> Queued(d) \/ d = "notify"
  BY <1>t, <1>a, <1>b, Submitted
<1>1. TypeOK'
  <2>1. FlagsTyped'
    BY DEF IInv, UploadDone, TypeOK, FlagsTyped
  <2>2. CountersTyped'
    BY <1>q DEF IInv, UploadDone, TypeOK, Cleanup, Uploads, Life, Dos,
       CountersTyped
  <2>3. LabelsTyped'
    BY <1>q DEF IInv, UploadDone, TypeOK, Errors, LabelsTyped
  <2>. QED BY <1>q, <2>1, <2>2, <2>3
        DEF TypeOK, FlagsTyped, CountersTyped, LabelsTyped
<1>2. Birth'
  BY <1>q DEF IInv, UploadDone, Birth, Dos
<1>3. Life'
  BY <1>q DEF IInv, UploadDone, Life, Dos
<1>4. Cleanup'
  BY <1>q DEF IInv, UploadDone, Cleanup, Dos
<1>5. Uploads'
  BY <1>q DEF IInv, UploadDone, Uploads, Dos
<1>6. Buffer'
  BY <1>q DEF IInv, UploadDone, Buffer, Dos
<1>7. ReadFlow'
  BY <1>q DEF IInv, UploadDone, ReadFlow, Dos
<1>. QED BY <1>q, <1>1, <1>2, <1>3, <1>4, <1>5, <1>6, <1>7 DEF IInv

\* The native side has read.
LEMMA CompleteReadKeeps ==
  ASSUME IInv, CompleteRead
  PROVE  IInv'
<1>t. QueueTyped /\ Queue
  BY DEF IInv, TypeOK, QueueTyped
<1>s. PICK n \in 0..MaxChunk : Submit(Task("OnReadCompleted", "none", n))
  BY DEF CompleteRead
<1>. DEFINE t == Task("OnReadCompleted", "none", n)
<1>a. t \in Tasks /\ t.do = "OnReadCompleted" /\ t.err = "none"
  BY ConstantsAssumption DEF Task, Tasks, Dos, Errors, ConstantsAssumption
<1>b. Submit(t) /\ ~Queued("OnReadCompleted") /\ ~Queued("OnTerminal")
  BY <1>s, <1>t DEF CompleteRead, Plain, IInv, Life, Uploads, Buffer
<1>. HIDE DEF t
<1>q. /\ queue' \in Seq(Tasks) /\ Queue'
      /\ \A d \in Dos : Queued(d)' <=> Queued(d) \/ d = "OnReadCompleted"
  BY <1>t, <1>a, <1>b, Submitted
<1>1. TypeOK'
  BY <1>q, ConstantsAssumption DEF IInv, CompleteRead, TypeOK, Dos, ConstantsAssumption, Errors
<1>2. Birth'
  BY <1>q DEF IInv, CompleteRead, Birth, Dos
<1>3. Life'
  BY <1>q DEF IInv, CompleteRead, Life, Dos
<1>4. Cleanup'
  BY <1>q DEF IInv, CompleteRead, Cleanup, Dos
<1>5. Uploads'
  BY <1>q DEF IInv, CompleteRead, Uploads, Dos
<1>6. Buffer'
  BY <1>q DEF IInv, CompleteRead, Buffer, Dos
<1>7. ReadFlow'
  BY <1>q DEF IInv, CompleteRead, ReadFlow, Dos
<1>. QED BY <1>q, <1>1, <1>2, <1>3, <1>4, <1>5, <1>6, <1>7 DEF IInv

\* The native side asks for the body.
LEMMA AskUploadKeeps ==
  ASSUME IInv, AskUpload
  PROVE  IInv'
<1>t. QueueTyped /\ Queue
  BY DEF IInv, TypeOK, QueueTyped
<1>. DEFINE t == Task("upload", "none", 0)
<1>a. t \in Tasks /\ t.do = "upload" /\ t.err = "none"
  BY ConstantsAssumption DEF Task, Tasks, Dos, Errors, ConstantsAssumption
<1>b. Submit(t) /\ ~Queued("upload") /\ ~Queued("OnTerminal")
  BY <1>t DEF AskUpload, Plain, IInv, Life, Uploads, Buffer
<1>. HIDE DEF t
<1>q. /\ queue' \in Seq(Tasks) /\ Queue'
      /\ \A d \in Dos : Queued(d)' <=> Queued(d) \/ d = "upload"
  BY <1>t, <1>a, <1>b, Submitted
<1>1. TypeOK'
  BY <1>q, ConstantsAssumption DEF IInv, AskUpload, TypeOK, Dos, ConstantsAssumption, Errors
<1>2. Birth'
  BY <1>q DEF IInv, AskUpload, Birth, Dos
<1>3. Life'
  BY <1>q DEF IInv, AskUpload, Life, Dos
<1>4. Cleanup'
  BY <1>q DEF IInv, AskUpload, Cleanup, Dos, TypeOK, Life, Uploads
<1>5. Uploads'
  BY <1>q DEF IInv, AskUpload, Uploads, Dos, TypeOK, Life
<1>6. Buffer'
  BY <1>q DEF IInv, AskUpload, Buffer, Dos
<1>7. ReadFlow'
  BY <1>q DEF IInv, AskUpload, ReadFlow, Dos
<1>. QED BY <1>q, <1>1, <1>2, <1>3, <1>4, <1>5, <1>6, <1>7 DEF IInv

\* A read is asked for.
LEMMA RunStartReadKeeps ==
  ASSUME IInv, RunStartRead
  PROVE  IInv'
<1>t. QueueTyped /\ Queue
  BY DEF IInv, TypeOK, QueueTyped
<1>q. /\ queue' \in Seq(Tasks) /\ Queue'
      /\ Queued("startRead")
      /\ \A d \in Dos \ {"startRead"} : Queued(d)' <=> Queued(d)
  <2>1. "startRead" \in Dos /\ Runs("startRead", <<>>)
    BY DEF RunStartRead, Dos
  <2>. QED BY <1>t, <2>1, Ran
<1>1. TypeOK'
  <2>1. FlagsTyped'
    BY DEF IInv, RunStartRead, TypeOK, FlagsTyped, startRead, First, fail,
       CancelNative
  <2>2. CountersTyped'
    BY <1>q DEF IInv, RunStartRead, TypeOK, Cleanup, Uploads, Life, Dos,
       CountersTyped, startRead, First, fail, CancelNative
  <2>3. LabelsTyped'
    BY <1>q DEF IInv, RunStartRead, TypeOK, Errors, LabelsTyped, startRead,
       First, fail, CancelNative
  <2>. QED BY <1>q, <2>1, <2>2, <2>3
        DEF TypeOK, FlagsTyped, CountersTyped, LabelsTyped
<1>2. Birth'
  BY <1>q DEF IInv, RunStartRead, Birth, Dos
<1>3. Life'
  BY <1>q DEF IInv, RunStartRead, Life, Dos, startRead, First, fail,
     CancelNative
<1>4. Cleanup'
  BY <1>q DEF IInv, RunStartRead, Cleanup, Dos, startRead, First, fail,
     CancelNative
<1>5. Uploads'
  BY <1>q DEF IInv, RunStartRead, Uploads, Dos, startRead, First, fail,
     CancelNative
<1>6. Buffer'
  BY <1>q DEF IInv, RunStartRead, Buffer, Dos, startRead, First, fail,
     CancelNative
<1>7. ReadFlow'
  BY <1>q DEF IInv, RunStartRead, ReadFlow, Dos, Life, Buffer, TypeOK,
     startRead, First, fail, CancelNative
<1>. QED BY <1>q, <1>1, <1>2, <1>3, <1>4, <1>5, <1>6, <1>7 DEF IInv

\* The native request is destroyed.
LEMMA RunCleanupKeeps ==
  ASSUME IInv, RunCleanup
  PROVE  IInv'
<1>t. QueueTyped /\ Queue
  BY DEF IInv, TypeOK, QueueTyped
<1>q. /\ queue' \in Seq(Tasks) /\ Queue'
      /\ Queued("cleanup") /\ ~Queued("cleanup")'
      /\ \A d \in Dos \ {"cleanup"} : Queued(d)' <=> Queued(d)
  <2>1. "cleanup" \in Dos /\ Runs("cleanup", <<>>)
    BY DEF RunCleanup, Dos
  <2>. QED BY <1>t, <2>1, Ran
<1>1. TypeOK'
  <2>1. FlagsTyped'
    BY DEF IInv, RunCleanup, TypeOK, FlagsTyped
  <2>2. CountersTyped'
    BY <1>q DEF IInv, RunCleanup, TypeOK, Cleanup, Uploads, Life, Dos,
       CountersTyped
  <2>3. LabelsTyped'
    BY <1>q DEF IInv, RunCleanup, TypeOK, Errors, LabelsTyped
  <2>. QED BY <1>q, <2>1, <2>2, <2>3
        DEF TypeOK, FlagsTyped, CountersTyped, LabelsTyped
<1>2. Birth'
  BY <1>q DEF IInv, RunCleanup, Birth, Dos
<1>3. Life'
  <2>1. /\ terminal /\ sinks = 0 /\ ~lent
        /\ life \in {"created", "over", "destroyed"}
        /\ ~Queued("upload") /\ ~Queued("OnTerminal")
    BY <1>q DEF IInv, Cleanup, Uploads, Life
  <2>2. /\ ~Queued("upload")' /\ ~Queued("OnTerminal")'
        /\ Queued("cancel")' <=> Queued("cancel")
    BY <1>q, <2>1 DEF Dos
  <2>. QED BY <2>1, <2>2 DEF IInv, RunCleanup, Life
<1>4. Cleanup'
  BY <1>q DEF IInv, RunCleanup, Cleanup, Dos
<1>5. Uploads'
  BY <1>q DEF IInv, RunCleanup, Uploads, Dos
<1>6. Buffer'
  BY <1>q DEF IInv, RunCleanup, Buffer, Dos
<1>7. ReadFlow'
  BY <1>q DEF IInv, RunCleanup, ReadFlow, Dos
<1>. QED BY <1>q, <1>1, <1>2, <1>3, <1>4, <1>5, <1>6, <1>7 DEF IInv

\* A redirect is followed or refused.
LEMMA OnRedirectReceivedKeeps ==
  ASSUME IInv, OnRedirectReceived
  PROVE  IInv'
<1>t. QueueTyped /\ Queue
  BY DEF IInv, TypeOK, QueueTyped
<1>q. /\ queue' \in Seq(Tasks) /\ Queue'
      /\ Queued("OnRedirectReceived")
      /\ \A d \in Dos \ {"OnRedirectReceived"} : Queued(d)' <=> Queued(d)
  <2>1. "OnRedirectReceived" \in Dos /\ Runs("OnRedirectReceived", <<>>)
    BY DEF OnRedirectReceived, Dos
  <2>. QED BY <1>t, <2>1, Ran
<1>1. TypeOK'
  <2>1. FlagsTyped'
    BY DEF IInv, OnRedirectReceived, TypeOK, FlagsTyped, First, fail,
       CancelNative
  <2>2. CountersTyped'
    BY <1>q DEF IInv, OnRedirectReceived, TypeOK, Cleanup, Uploads, Life, Dos,
       CountersTyped, First, fail, CancelNative
  <2>3. LabelsTyped'
    BY <1>q DEF IInv, OnRedirectReceived, TypeOK, Errors, LabelsTyped, First,
       fail, CancelNative
  <2>. QED BY <1>q, <2>1, <2>2, <2>3
        DEF TypeOK, FlagsTyped, CountersTyped, LabelsTyped
<1>2. Birth'
  BY <1>q DEF IInv, OnRedirectReceived, Birth, Dos
<1>3. Life'
  BY <1>q DEF IInv, OnRedirectReceived, Life, Dos, First, fail, CancelNative
<1>4. Cleanup'
  BY <1>q DEF IInv, OnRedirectReceived, Cleanup, Dos, First, fail, CancelNative
<1>5. Uploads'
  BY <1>q DEF IInv, OnRedirectReceived, Uploads, Dos, First, fail, CancelNative
<1>6. Buffer'
  BY <1>q DEF IInv, OnRedirectReceived, Buffer, Dos, First, fail, CancelNative
<1>7. ReadFlow'
  BY <1>q DEF IInv, OnRedirectReceived, ReadFlow, Dos, First, fail, CancelNative
<1>. QED BY <1>q, <1>1, <1>2, <1>3, <1>4, <1>5, <1>6, <1>7 DEF IInv

\* The response has come.
LEMMA OnResponseStartedKeeps ==
  ASSUME IInv, OnResponseStarted
  PROVE  IInv'
<1>t. QueueTyped /\ Queue
  BY DEF IInv, TypeOK, QueueTyped
<1>q. /\ queue' \in Seq(Tasks) /\ Queue'
      /\ Queued("OnResponseStarted")
      /\ \A d \in Dos \ {"OnResponseStarted"} : Queued(d)' <=> Queued(d)
  <2>1. "OnResponseStarted" \in Dos /\ Runs("OnResponseStarted", <<>>)
    BY DEF OnResponseStarted, Dos
  <2>. QED BY <1>t, <2>1, Ran
<1>1. TypeOK'
  <2>1. FlagsTyped'
    BY DEF IInv, OnResponseStarted, TypeOK, FlagsTyped, startRead, First, fail,
       CancelNative
  <2>2. CountersTyped'
    BY <1>q DEF IInv, OnResponseStarted, TypeOK, Cleanup, Uploads, Life, Dos,
       CountersTyped, startRead, First, fail, CancelNative
  <2>3. LabelsTyped'
    BY <1>q DEF IInv, OnResponseStarted, TypeOK, Errors, LabelsTyped,
       startRead, First, fail, CancelNative
  <2>. QED BY <1>q, <2>1, <2>2, <2>3
        DEF TypeOK, FlagsTyped, CountersTyped, LabelsTyped
<1>2. Birth'
  BY <1>q DEF IInv, OnResponseStarted, Birth, Dos
<1>3. Life'
  BY <1>q DEF IInv, OnResponseStarted, Life, Dos, startRead, First, fail,
     CancelNative
<1>4. Cleanup'
  BY <1>q DEF IInv, OnResponseStarted, Cleanup, Dos, startRead, First, fail,
     CancelNative
<1>5. Uploads'
  BY <1>q DEF IInv, OnResponseStarted, Uploads, Dos, startRead, First, fail,
     CancelNative
<1>6. Buffer'
  BY <1>q DEF IInv, OnResponseStarted, Buffer, Dos, startRead, First, fail,
     CancelNative
<1>7. ReadFlow'
  BY <1>q DEF IInv, OnResponseStarted, ReadFlow, Dos, Life, Buffer, TypeOK,
     startRead, First, fail, CancelNative
<1>. QED BY <1>q, <1>1, <1>2, <1>3, <1>4, <1>5, <1>6, <1>7 DEF IInv

\* An upload call is handed to its goroutine.
LEMMA UploadCallKeeps ==
  ASSUME IInv, UploadCall
  PROVE  IInv'
<1>t. QueueTyped /\ Queue
  BY DEF IInv, TypeOK, QueueTyped
<1>q. /\ queue' \in Seq(Tasks) /\ Queue'
      /\ Queued("upload") /\ ~Queued("upload")'
      /\ \A d \in Dos \ {"upload"} : Queued(d)' <=> Queued(d)
  <2>1. "upload" \in Dos /\ Runs("upload", <<>>)
    BY DEF UploadCall, Dos
  <2>. QED BY <1>t, <2>1, Ran
<1>1. TypeOK'
  <2>1. FlagsTyped'
    BY DEF IInv, UploadCall, TypeOK, FlagsTyped
  <2>2. CountersTyped'
    BY <1>q DEF IInv, UploadCall, TypeOK, Cleanup, Uploads, Life, Dos,
       CountersTyped
  <2>3. LabelsTyped'
    BY <1>q DEF IInv, UploadCall, TypeOK, Errors, LabelsTyped
  <2>. QED BY <1>q, <2>1, <2>2, <2>3
        DEF TypeOK, FlagsTyped, CountersTyped, LabelsTyped
<1>2. Birth'
  BY <1>q DEF IInv, UploadCall, Birth, Dos
<1>3. Life'
  BY <1>q DEF IInv, UploadCall, Life, Dos
<1>4. Cleanup'
  BY <1>q DEF IInv, UploadCall, Cleanup, Dos
<1>5. Uploads'
  BY <1>q DEF IInv, UploadCall, Uploads, Dos
<1>6. Buffer'
  BY <1>q DEF IInv, UploadCall, Buffer, Dos
<1>7. ReadFlow'
  BY <1>q DEF IInv, UploadCall, ReadFlow, Dos
<1>. QED BY <1>q, <1>1, <1>2, <1>3, <1>4, <1>5, <1>6, <1>7 DEF IInv

\* The native side has a response.
LEMMA RespondKeeps ==
  ASSUME IInv, Respond
  PROVE  IInv'
<1>t. QueueTyped /\ Queue
  BY DEF IInv, TypeOK, QueueTyped
<1>s. PICK do \in {"OnRedirectReceived", "OnResponseStarted"} :
         /\ Submit(Task(do, "none", 0))
         /\ do = "OnResponseStarted" \/ head' = "redirecting"
         /\ head' \in {"redirecting", "responded"}
  BY DEF Respond, Plain
<1>. DEFINE t == Task(do, "none", 0)
<1>a. t \in Tasks /\ t.do = do /\ t.err = "none"
  BY ConstantsAssumption DEF Task, Tasks, Dos, Errors, ConstantsAssumption
<1>b. Submit(t)
  BY <1>s
<1>. HIDE DEF t
<1>r. /\ queue' \in Seq(Tasks) /\ Queue'
      /\ \A d \in Dos : Queued(d)' <=> Queued(d) \/ d = do
  BY <1>t, <1>a, <1>b, Submitted
<1>q. /\ queue' \in Seq(Tasks) /\ Queue'
      /\ \A d \in Dos \ {"OnRedirectReceived", "OnResponseStarted"} :
            Queued(d)' <=> Queued(d)
      /\ Queued("OnResponseStarted")' \/ head' = "redirecting"
      /\ head' \in {"redirecting", "responded"}
  BY <1>r, <1>s DEF Dos
<1>1. TypeOK'
  BY <1>q, ConstantsAssumption DEF IInv, Respond, TypeOK, Dos, ConstantsAssumption, Errors
<1>2. Birth'
  BY <1>q DEF IInv, Respond, Birth, Dos
<1>3. Life'
  BY <1>q DEF IInv, Respond, Life, Dos
<1>4. Cleanup'
  BY <1>q DEF IInv, Respond, Cleanup, Dos
<1>5. Uploads'
  BY <1>q DEF IInv, Respond, Uploads, Dos
<1>6. Buffer'
  BY <1>q DEF IInv, Respond, Buffer, Dos
<1>7. ReadFlow'
  BY <1>q DEF IInv, Respond, ReadFlow, Dos
<1>. QED BY <1>q, <1>1, <1>2, <1>3, <1>4, <1>5, <1>6, <1>7 DEF IInv

\* The native request comes to its end.
LEMMA EndKeeps ==
  ASSUME IInv, End
  PROVE  IInv'
<1>t. QueueTyped /\ Queue
  BY DEF IInv, TypeOK, QueueTyped
<1>s. PICK e \in {"canceled", "failed", "EOF"} : Submit(Task("OnTerminal", e, 0))
  BY DEF End, Plain
<1>. DEFINE t == Task("OnTerminal", e, 0)
<1>a. t \in Tasks /\ t.do = "OnTerminal" /\ t.err = e
  BY ConstantsAssumption DEF Task, Tasks, Dos, Errors, ConstantsAssumption
<1>b. Submit(t) /\ ~Queued("OnTerminal")
  BY <1>s DEF End, IInv, Life
<1>. HIDE DEF t
<1>q. /\ queue' \in Seq(Tasks) /\ Queue'
      /\ \A d \in Dos : Queued(d)' <=> Queued(d) \/ d = "OnTerminal"
  BY <1>t, <1>a, <1>b, Submitted
<1>1. TypeOK'
  BY <1>q, ConstantsAssumption DEF IInv, End, TypeOK, Dos, ConstantsAssumption, Errors
<1>2. Birth'
  BY <1>q DEF IInv, End, Birth, Dos
<1>3. Life'
  BY <1>q DEF IInv, End, Life, Dos
<1>4. Cleanup'
  BY <1>q DEF IInv, End, Cleanup, Dos
<1>5. Uploads'
  BY <1>q DEF IInv, End, Uploads, Dos
<1>6. Buffer'
  BY <1>q DEF IInv, End, Buffer, Dos
<1>7. ReadFlow'
  BY <1>q DEF IInv, End, ReadFlow, Dos
<1>. QED BY <1>q, <1>1, <1>2, <1>3, <1>4, <1>5, <1>6, <1>7 DEF IInv

\* The result of a read comes in.
LEMMA OnReadCompletedKeeps ==
  ASSUME IInv, OnReadCompleted
  PROVE  IInv'
<1>t. QueueTyped /\ Queue
  BY DEF IInv, TypeOK, QueueTyped
<1>d. "OnReadCompleted" \in Dos /\ "startRead" \in Dos
  BY DEF Dos
<1>. DEFINE t == Plain("startRead")
<1>q. /\ queue' \in Seq(Tasks) /\ Queue'
      /\ Queued("OnReadCompleted") /\ ~Queued("OnReadCompleted")'
      /\ \A d \in Dos \ {"OnReadCompleted", "startRead"} : Queued(d)' <=> Queued(d)
      /\ pending' \in 0..MaxChunk
      /\ pending' = 0 => Queued("startRead")'
  <2>1. /\ Runs("OnReadCompleted", IF Head(queue).n = 0 THEN <<t>> ELSE <<>>)
        /\ pending' = Head(queue).n
    BY DEF OnReadCompleted
  <2>2. t \in Tasks /\ t.do = "startRead"
    BY ConstantsAssumption DEF Plain, Task, Tasks, Dos, Errors, ConstantsAssumption
  <2>. HIDE DEF t
  <2>3. CASE Head(queue).n = 0
    <3>1. Runs("OnReadCompleted", <<t>>)
      BY <2>1, <2>3
    <3>2. pending' \in 0..MaxChunk
      BY <2>1, <2>3, ConstantsAssumption DEF ConstantsAssumption
    <3>. QED BY <1>t, <1>d, <2>1, <2>2, <2>3, <3>1, <3>2, RanMore
  <2>4. CASE Head(queue).n # 0
    <3>1. Runs("OnReadCompleted", <<>>)
      BY <2>1, <2>4
    <3>2. Head(queue) \in Tasks
      BY <1>t, <1>d, <3>1, Ran
    <3>3. pending' \in 0..MaxChunk
      BY <2>1, <3>2 DEF Tasks
    <3>. QED BY <1>t, <1>d, <2>1, <2>4, <3>1, <3>3, Ran
  <2>. QED BY <2>3, <2>4
<1>1. TypeOK'
  <2>1. FlagsTyped'
    BY DEF IInv, OnReadCompleted, TypeOK, FlagsTyped
  <2>2. CountersTyped'
    BY <1>q DEF IInv, OnReadCompleted, TypeOK, Cleanup, Uploads, Life, Dos,
       CountersTyped
  <2>3. LabelsTyped'
    BY <1>q DEF IInv, OnReadCompleted, TypeOK, Errors, LabelsTyped
  <2>. QED BY <1>q, <2>1, <2>2, <2>3
        DEF TypeOK, FlagsTyped, CountersTyped, LabelsTyped
<1>2. Birth'
  BY <1>q DEF IInv, OnReadCompleted, Birth, Dos
<1>3. Life'
  BY <1>q DEF IInv, OnReadCompleted, Life, Dos
<1>4. Cleanup'
  BY <1>q DEF IInv, OnReadCompleted, Cleanup, Dos
<1>5. Uploads'
  BY <1>q DEF IInv, OnReadCompleted, Uploads, Dos
<1>6. Buffer'
  BY <1>q DEF IInv, OnReadCompleted, Buffer, Dos
<1>7. ReadFlow'
  BY <1>q DEF IInv, OnReadCompleted, ReadFlow, Dos
<1>. QED BY <1>q, <1>1, <1>2, <1>3, <1>4, <1>5, <1>6, <1>7 DEF IInv

\* A callback is dropped.
LEMMA DroppedOnRedirectReceivedKeeps ==
  ASSUME IInv, Dropped("OnRedirectReceived")
  PROVE  IInv'
<1>t. QueueTyped /\ Queue
  BY DEF IInv, TypeOK, QueueTyped
<1>q. /\ queue' \in Seq(Tasks) /\ Queue'
      /\ Queued("OnRedirectReceived")
      /\ \A d \in Dos \ {"OnRedirectReceived"} : Queued(d)' <=> Queued(d)
  <2>1. "OnRedirectReceived" \in Dos /\ Runs("OnRedirectReceived", <<>>)
    BY DEF Dropped, Dos
  <2>. QED BY <1>t, <2>1, Ran
<1>1. TypeOK'
  <2>1. FlagsTyped'
    BY DEF IInv, Dropped, TypeOK, FlagsTyped
  <2>2. CountersTyped'
    BY <1>q DEF IInv, Dropped, TypeOK, Cleanup, Uploads, Life, Dos,
       CountersTyped
  <2>3. LabelsTyped'
    BY <1>q DEF IInv, Dropped, TypeOK, Errors, LabelsTyped
  <2>. QED BY <1>q, <2>1, <2>2, <2>3
        DEF TypeOK, FlagsTyped, CountersTyped, LabelsTyped
<1>2. Birth'
  BY <1>q DEF IInv, Dropped, Birth, Dos
<1>3. Life'
  BY <1>q DEF IInv, Dropped, Life, Dos, Dropped
<1>4. Cleanup'
  BY <1>q DEF IInv, Dropped, Cleanup, Dos, Dropped
<1>5. Uploads'
  BY <1>q DEF IInv, Dropped, Uploads, Dos, Dropped
<1>6. Buffer'
  BY <1>q DEF IInv, Dropped, Buffer, Dos, Dropped
<1>7. ReadFlow'
  BY <1>q DEF IInv, Dropped, ReadFlow, Dos, Dropped
<1>. QED BY <1>q, <1>1, <1>2, <1>3, <1>4, <1>5, <1>6, <1>7 DEF IInv

\* A callback is dropped.
LEMMA DroppedOnResponseStartedKeeps ==
  ASSUME IInv, Dropped("OnResponseStarted")
  PROVE  IInv'
<1>t. QueueTyped /\ Queue
  BY DEF IInv, TypeOK, QueueTyped
<1>q. /\ queue' \in Seq(Tasks) /\ Queue'
      /\ Queued("OnResponseStarted")
      /\ \A d \in Dos \ {"OnResponseStarted"} : Queued(d)' <=> Queued(d)
  <2>1. "OnResponseStarted" \in Dos /\ Runs("OnResponseStarted", <<>>)
    BY DEF Dropped, Dos
  <2>. QED BY <1>t, <2>1, Ran
<1>1. TypeOK'
  <2>1. FlagsTyped'
    BY DEF IInv, Dropped, TypeOK, FlagsTyped
  <2>2. CountersTyped'
    BY <1>q DEF IInv, Dropped, TypeOK, Cleanup, Uploads, Life, Dos,
       CountersTyped
  <2>3. LabelsTyped'
    BY <1>q DEF IInv, Dropped, TypeOK, Errors, LabelsTyped
  <2>. QED BY <1>q, <2>1, <2>2, <2>3
        DEF TypeOK, FlagsTyped, CountersTyped, LabelsTyped
<1>2. Birth'
  BY <1>q DEF IInv, Dropped, Birth, Dos
<1>3. Life'
  BY <1>q DEF IInv, Dropped, Life, Dos, Dropped
<1>4. Cleanup'
  BY <1>q DEF IInv, Dropped, Cleanup, Dos, Dropped
<1>5. Uploads'
  BY <1>q DEF IInv, Dropped, Uploads, Dos, Dropped
<1>6. Buffer'
  BY <1>q DEF IInv, Dropped, Buffer, Dos, Dropped
<1>7. ReadFlow'
  BY <1>q DEF IInv, Dropped, ReadFlow, Dos, Life, Buffer, TypeOK, Dropped
<1>. QED BY <1>q, <1>1, <1>2, <1>3, <1>4, <1>5, <1>6, <1>7 DEF IInv

\* A callback is dropped.
LEMMA DroppedOnReadCompletedKeeps ==
  ASSUME IInv, Dropped("OnReadCompleted")
  PROVE  IInv'
<1>t. QueueTyped /\ Queue
  BY DEF IInv, TypeOK, QueueTyped
<1>q. /\ queue' \in Seq(Tasks) /\ Queue'
      /\ Queued("OnReadCompleted") /\ ~Queued("OnReadCompleted")'
      /\ \A d \in Dos \ {"OnReadCompleted"} : Queued(d)' <=> Queued(d)
  <2>1. "OnReadCompleted" \in Dos /\ Runs("OnReadCompleted", <<>>)
    BY DEF Dropped, Dos
  <2>. QED BY <1>t, <2>1, Ran
<1>1. TypeOK'
  <2>1. FlagsTyped'
    BY DEF IInv, Dropped, TypeOK, FlagsTyped
  <2>2. CountersTyped'
    BY <1>q DEF IInv, Dropped, TypeOK, Cleanup, Uploads, Life, Dos,
       CountersTyped
  <2>3. LabelsTyped'
    BY <1>q DEF IInv, Dropped, TypeOK, Errors, LabelsTyped
  <2>. QED BY <1>q, <2>1, <2>2, <2>3
        DEF TypeOK, FlagsTyped, CountersTyped, LabelsTyped
<1>2. Birth'
  BY <1>q DEF IInv, Dropped, Birth, Dos
<1>3. Life'
  BY <1>q DEF IInv, Dropped, Life, Dos, Dropped
<1>4. Cleanup'
  BY <1>q DEF IInv, Dropped, Cleanup, Dos, Dropped
<1>5. Uploads'
  BY <1>q DEF IInv, Dropped, Uploads, Dos, Dropped
<1>6. Buffer'
  BY <1>q DEF IInv, Dropped, Buffer, Dos, Dropped
<1>7. ReadFlow'
  BY <1>q DEF IInv, Dropped, ReadFlow, Dos, Dropped
<1>. QED BY <1>q, <1>1, <1>2, <1>3, <1>4, <1>5, <1>6, <1>7 DEF IInv

\* The sink is told, and cleanup tried again.
LEMMA RunNotifyKeeps ==
  ASSUME IInv, RunNotify
  PROVE  IInv'
<1>t. QueueTyped /\ Queue
  BY DEF IInv, TypeOK, QueueTyped
<1>k. cleanupQueued \in BOOLEAN /\ terminal \in BOOLEAN
  BY DEF IInv, TypeOK
<1>d. /\ "notify" \in Dos /\ "cleanup" \in Dos
      /\ Queued("cleanup") => cleanupQueued
  BY DEF IInv, Cleanup, Dos
<1>. DEFINE now == terminal /\ activeUploads' = 0 /\ ~cleanupQueued
            t == Plain("cleanup")
<1>q. /\ queue' \in Seq(Tasks) /\ Queue' /\ Queued("notify") /\ ~Queued("notify")'
      /\ \A d \in Dos \ {"notify", "cleanup"} : Queued(d)' <=> Queued(d)
      /\ Queued("cleanup")' <=> Queued("cleanup") \/ now
      /\ cleanupQueued' = (cleanupQueued \/ now)
      /\ activeUploads' = activeUploads - 1
  <2>1. /\ Runs("notify", IF now THEN <<t>> ELSE <<>>)
        /\ cleanupQueued' = (cleanupQueued \/ now)
        /\ activeUploads' = activeUploads - 1
    BY DEF RunNotify
  <2>2. t \in Tasks /\ t.do = "cleanup"
    BY ConstantsAssumption DEF Plain, Task, Tasks, Dos, Errors, ConstantsAssumption
  <2>3. CASE now
    <3>1. Runs("notify", <<t>>) /\ ~Queued("cleanup")
      BY <1>d, <2>1, <2>3
    <3>. HIDE DEF t
    <3>. QED BY <1>t, <1>d, <2>1, <2>2, <2>3, <3>1, RanMore
  <2>4. CASE ~now
    <3>1. Runs("notify", <<>>)
      BY <2>1, <2>4
    <3>2. /\ queue' \in Seq(Tasks) /\ Queue'
          /\ Queued("notify") /\ ~Queued("notify")'
          /\ \A d \in Dos \ {"notify"} : Queued(d)' <=> Queued(d)
      BY <1>t, <1>d, <3>1, Ran
    <3>. QED BY <1>d, <2>1, <2>4, <3>2
  <2>. QED BY <2>3, <2>4
<1>. HIDE DEF now, t
<1>n. now <=> terminal /\ activeUploads' = 0 /\ ~cleanupQueued
  BY DEF now
<1>1. TypeOK'
  <2>1. FlagsTyped'
    BY <1>q DEF IInv, RunNotify, TypeOK, FlagsTyped
  <2>2. CountersTyped'
    BY <1>q DEF IInv, RunNotify, TypeOK, Cleanup, Uploads, Life, Dos,
       CountersTyped
  <2>3. LabelsTyped'
    BY <1>q DEF IInv, RunNotify, TypeOK, Errors, LabelsTyped
  <2>. QED BY <1>q, <2>1, <2>2, <2>3
        DEF TypeOK, FlagsTyped, CountersTyped, LabelsTyped
<1>2. Birth'
  BY <1>q DEF IInv, RunNotify, Birth, Dos
<1>3. Life'
  BY <1>q DEF IInv, RunNotify, Life, Dos
<1>4. Cleanup'
  BY <1>q DEF IInv, RunNotify, Cleanup, Dos, TypeOK, Life, Uploads
<1>5. Uploads'
  BY <1>q DEF IInv, RunNotify, Uploads, Dos
<1>6. Buffer'
  BY <1>q DEF IInv, RunNotify, Buffer, Dos
<1>7. ReadFlow'
  BY <1>q DEF IInv, RunNotify, ReadFlow, Dos
<1>. QED BY <1>q, <1>1, <1>2, <1>3, <1>4, <1>5, <1>6, <1>7 DEF IInv

\* The terminal callback.
LEMMA OnTerminalKeeps ==
  ASSUME IInv, OnTerminal
  PROVE  IInv'
<1>t. QueueTyped /\ Queue
  BY DEF IInv, TypeOK, QueueTyped
<1>k. /\ terminal \in BOOLEAN /\ cleanupQueued \in BOOLEAN /\ stopped \in BOOLEAN
      /\ err \in Errors /\ (terminal => err # "none")
      /\ "OnTerminal" \in Dos /\ "cleanup" \in Dos /\ "OnTerminal" # "cleanup"
  BY DEF IInv, TypeOK, Life, Dos
<1>q. /\ queue' \in Seq(Tasks) /\ Queue' /\ Queued("OnTerminal")
      /\ \A d \in Dos \ {"OnTerminal", "cleanup"} : Queued(d)' <=> Queued(d)
      /\ Queued("cleanup")' <=>
            Queued("cleanup") \/ (~terminal /\ terminal' /\ activeUploads = 0)
      /\ cleanupQueued' <=>
            cleanupQueued \/ (~terminal /\ terminal' /\ activeUploads = 0)
      /\ cleanupQueued' \in BOOLEAN /\ terminal' \in BOOLEAN /\ stopped' \in BOOLEAN
      /\ terminal => terminal'
      /\ terminal' => err' # "none"
      /\ err' \in Errors /\ (err # "none" => err' # "none")
      /\ ~Queued("OnTerminal")' /\ ~Queued("upload") /\ ~Queued("OnReadCompleted")
  <2>1. finish("OnTerminal", Head(queue).err) /\ Due("OnTerminal")
    BY DEF OnTerminal, finish
  <2>2. Head(queue).err \in Errors \ {"none"}
    BY <2>1, HeadReason
  <2>. QED BY <1>k, <2>1, <2>2, FinishRan
<1>1. TypeOK'
  <2>1. FlagsTyped'
    BY <1>q DEF IInv, OnTerminal, TypeOK, FlagsTyped
  <2>2. CountersTyped'
    BY <1>q DEF IInv, OnTerminal, TypeOK, Cleanup, Uploads, Life, Dos,
       CountersTyped
  <2>3. LabelsTyped'
    BY <1>q DEF IInv, OnTerminal, TypeOK, Errors, LabelsTyped
  <2>. QED BY <1>q, <2>1, <2>2, <2>3
        DEF TypeOK, FlagsTyped, CountersTyped, LabelsTyped
<1>2. Birth'
  BY <1>q DEF IInv, OnTerminal, Birth, Dos
<1>3. Life'
  <2>1. /\ life = "ended" /\ ~terminal /\ started /\ ~lent
    BY <1>q DEF IInv, Life, Buffer
  <2>2. terminal' /\ life' = "over" /\ UNCHANGED <<started, lent, sinks, head>>
    BY <2>1 DEF OnTerminal, finish
  <2>3. ~Queued("upload")'
    BY <1>q DEF Dos
  <2>. QED BY <1>q, <2>1, <2>2, <2>3 DEF Life
<1>4. Cleanup'
  BY <1>q DEF IInv, OnTerminal, Cleanup, Dos, TypeOK, Life, Uploads
<1>5. Uploads'
  BY <1>q DEF IInv, OnTerminal, Uploads, Dos
<1>6. Buffer'
  BY <1>q DEF IInv, OnTerminal, Buffer, Dos
<1>7. ReadFlow'
  <2>1. ~terminal /\ UNCHANGED <<readPending, lent, pending>>
    BY <1>q DEF IInv, Life, OnTerminal
  <2>2. err' # "none"
    BY <1>q, <2>1 DEF OnTerminal, finish
  <2>. QED BY <2>1, <2>2 DEF IInv, ReadFlow
<1>. QED BY <1>q, <1>1, <1>2, <1>3, <1>4, <1>5, <1>6, <1>7 DEF IInv

\* A request that could not be initialised finishes.
LEMMA RunFinishKeeps ==
  ASSUME IInv, RunFinish
  PROVE  IInv'
<1>t. QueueTyped /\ Queue
  BY DEF IInv, TypeOK, QueueTyped
<1>k. /\ terminal \in BOOLEAN /\ cleanupQueued \in BOOLEAN /\ stopped \in BOOLEAN
      /\ err \in Errors /\ (terminal => err # "none")
      /\ "finish" \in Dos /\ "cleanup" \in Dos /\ "finish" # "cleanup"
  BY DEF IInv, TypeOK, Life, Dos
<1>q. /\ queue' \in Seq(Tasks) /\ Queue' /\ Queued("finish")
      /\ \A d \in Dos \ {"finish", "cleanup"} : Queued(d)' <=> Queued(d)
      /\ Queued("cleanup")' <=>
            Queued("cleanup") \/ (~terminal /\ terminal' /\ activeUploads = 0)
      /\ cleanupQueued' <=>
            cleanupQueued \/ (~terminal /\ terminal' /\ activeUploads = 0)
      /\ cleanupQueued' \in BOOLEAN /\ terminal' \in BOOLEAN /\ stopped' \in BOOLEAN
      /\ terminal => terminal'
      /\ terminal' => err' # "none"
      /\ err' \in Errors /\ (err # "none" => err' # "none")
  <2>1. finish("finish", "init") /\ "init" \in Errors \ {"none"}
    BY DEF RunFinish, Errors
  <2>. QED BY <1>k, <2>1, FinishRan
<1>1. TypeOK'
  <2>1. FlagsTyped'
    BY <1>q DEF IInv, RunFinish, TypeOK, FlagsTyped
  <2>2. CountersTyped'
    BY <1>q DEF IInv, RunFinish, TypeOK, Cleanup, Uploads, Life, Dos,
       CountersTyped
  <2>3. LabelsTyped'
    BY <1>q DEF IInv, RunFinish, TypeOK, Errors, LabelsTyped
  <2>. QED BY <1>q, <2>1, <2>2, <2>3
        DEF TypeOK, FlagsTyped, CountersTyped, LabelsTyped
<1>2. Birth'
  BY <1>q DEF IInv, RunFinish, Birth, Dos
<1>3. Life'
  BY <1>q DEF IInv, RunFinish, Life, Dos, TypeOK, Buffer, Birth, Uploads
<1>4. Cleanup'
  <2>1. ~started => /\ sinks = 0 \/ terminal
                    /\ activeUploads = 0 \/ terminal
    BY DEF IInv, Life, Uploads, TypeOK
  <2>2. ~terminal => done # 1 /\ ~cleanupQueued
    BY DEF IInv, Cleanup
  <2>3. UNCHANGED <<done, sinks>> /\ (life' = "destroyed" <=> life = "destroyed")
    BY DEF RunFinish, CancelNative
  <2>4. terminal /\ ~terminal' => FALSE
    BY <1>q
  <2>5. ~terminal /\ terminal' => ~started
    BY <1>q DEF IInv, Birth
  <2>6. done \in 0..1
    BY DEF IInv, TypeOK
  <2>. QED BY <1>q, <2>1, <2>2, <2>3, <2>4, <2>5, <2>6 DEF IInv, Cleanup
<1>5. Uploads'
  BY <1>q DEF IInv, RunFinish, Uploads, Dos
<1>6. Buffer'
  BY <1>q DEF IInv, RunFinish, Buffer, Dos
<1>7. ReadFlow'
  BY <1>q DEF IInv, RunFinish, ReadFlow, Dos
<1>. QED BY <1>q, <1>1, <1>2, <1>3, <1>4, <1>5, <1>6, <1>7 DEF IInv

\* The native request is started, unless it is too late.
LEMMA RunStartKeeps ==
  ASSUME IInv, RunStart
  PROVE  IInv'
<1>t. QueueTyped /\ Queue
  BY DEF IInv, TypeOK, QueueTyped
<1>k. /\ terminal \in BOOLEAN /\ cleanupQueued \in BOOLEAN /\ stopped \in BOOLEAN
      /\ err \in Errors /\ (terminal => err # "none")
      /\ "start" \in Dos /\ "cleanup" \in Dos /\ "start" # "cleanup"
  BY DEF IInv, TypeOK, Life, Dos
<1>q. /\ queue' \in Seq(Tasks) /\ Queue' /\ Queued("start")
      /\ \A d \in Dos \ {"start", "cleanup"} : Queued(d)' <=> Queued(d)
      /\ Queued("cleanup")' <=>
            Queued("cleanup") \/ (~terminal /\ terminal' /\ activeUploads = 0)
      /\ cleanupQueued' <=>
            cleanupQueued \/ (~terminal /\ terminal' /\ activeUploads = 0)
      /\ cleanupQueued' \in BOOLEAN /\ terminal' \in BOOLEAN /\ stopped' \in BOOLEAN
      /\ terminal => terminal'
      /\ terminal' => err' # "none"
      /\ err' \in Errors /\ (err # "none" => err' # "none")
  <2>1. CASE /\ Runs("start", <<>>)
             /\ UNCHANGED <<terminal, cleanupQueued, err, stopped>>
    BY <1>t, <1>k, <2>1, Ran
  <2>2. CASE finish("start", "start")
    <3>1. "start" \in Errors \ {"none"}
      BY DEF Errors
    <3>. QED BY <1>k, <2>2, <3>1, FinishRan
  <2>. QED BY <2>1, <2>2 DEF RunStart
<1>1. TypeOK'
  <2>1. FlagsTyped'
    BY <1>q DEF IInv, RunStart, TypeOK, FlagsTyped
  <2>2. CountersTyped'
    BY <1>q DEF IInv, RunStart, TypeOK, Cleanup, Uploads, Life, Dos,
       CountersTyped
  <2>3. LabelsTyped'
    BY <1>q DEF IInv, RunStart, TypeOK, Errors, LabelsTyped
  <2>. QED BY <1>q, <2>1, <2>2, <2>3
        DEF TypeOK, FlagsTyped, CountersTyped, LabelsTyped
<1>2. Birth'
  BY <1>q DEF IInv, RunStart, Birth, Dos
<1>3. Life'
  BY <1>q DEF IInv, RunStart, Life, Dos
<1>4. Cleanup'
  BY <1>q DEF IInv, RunStart, Cleanup, Dos, TypeOK, Life, Uploads
<1>5. Uploads'
  BY <1>q DEF IInv, RunStart, Uploads, Dos
<1>6. Buffer'
  BY <1>q DEF IInv, RunStart, Buffer, Dos
<1>7. ReadFlow'
  BY <1>q DEF IInv, RunStart, ReadFlow, Dos
<1>. QED BY <1>q, <1>1, <1>2, <1>3, <1>4, <1>5, <1>6, <1>7 DEF IInv

\* The native request is cancelled, or never started.
LEMMA RunCancelKeeps ==
  ASSUME IInv, RunCancel
  PROVE  IInv'
<1>t. QueueTyped /\ Queue
  BY DEF IInv, TypeOK, QueueTyped
<1>k. /\ terminal \in BOOLEAN /\ cleanupQueued \in BOOLEAN /\ stopped \in BOOLEAN
      /\ err \in Errors /\ (terminal => err # "none")
      /\ "cancel" \in Dos /\ "cleanup" \in Dos /\ "cancel" # "cleanup"
  BY DEF IInv, TypeOK, Life, Dos
<1>q. /\ queue' \in Seq(Tasks) /\ Queue' /\ Queued("cancel")
      /\ \A d \in Dos \ {"cancel", "cleanup"} : Queued(d)' <=> Queued(d)
      /\ Queued("cleanup")' <=>
            Queued("cleanup") \/ (~terminal /\ terminal' /\ activeUploads = 0)
      /\ cleanupQueued' <=>
            cleanupQueued \/ (~terminal /\ terminal' /\ activeUploads = 0)
      /\ cleanupQueued' \in BOOLEAN /\ terminal' \in BOOLEAN /\ stopped' \in BOOLEAN
      /\ terminal => terminal'
      /\ terminal' => err' # "none"
      /\ err' \in Errors /\ (err # "none" => err' # "none")
  <2>1. CASE Runs("cancel", <<>>) /\ UNCHANGED <<terminal, cleanupQueued, err>>
             /\ stopped' \in BOOLEAN
    BY <1>t, <1>k, <2>1, Ran
  <2>2. CASE finish("cancel", Head(queue).err)
    <3>1. Head(queue).err \in Errors \ {"none"}
      BY <2>2, HeadReason DEF finish
    <3>. QED BY <1>k, <2>2, <3>1, FinishRan
  <2>3. \/ Runs("cancel", <<>>) /\ UNCHANGED <<terminal, cleanupQueued, err>>
             /\ stopped' \in BOOLEAN
        \/ finish("cancel", Head(queue).err)
    BY <1>k DEF RunCancel
  <2>. QED BY <2>1, <2>2, <2>3
<1>1. TypeOK'
  <2>1. FlagsTyped'
    BY <1>q DEF IInv, RunCancel, TypeOK, FlagsTyped, CancelNative
  <2>2. CountersTyped'
    BY <1>q DEF IInv, RunCancel, TypeOK, Cleanup, Uploads, Life, Dos,
       CountersTyped, CancelNative
  <2>3. LabelsTyped'
    BY <1>q DEF IInv, RunCancel, TypeOK, Errors, LabelsTyped, CancelNative
  <2>. QED BY <1>q, <2>1, <2>2, <2>3
        DEF TypeOK, FlagsTyped, CountersTyped, LabelsTyped
<1>2. Birth'
  BY <1>q DEF IInv, RunCancel, Birth, Dos
<1>3. Life'
  <2>1. /\ UNCHANGED <<started, lent, sinks, head>>
        /\ life' = life \/ (life = "started" /\ life' = "cancelled")
        /\ ~terminal /\ terminal' => ~started /\ life' = life
    BY DEF RunCancel, CancelNative
  <2>2. err # "none"
    BY <1>q DEF IInv, Life
  <2>3. \A d \in {"cancel", "OnTerminal", "upload"} : Queued(d)' => Queued(d)
    BY <1>q DEF Dos
  <2>4. Queued("OnTerminal") => Queued("OnTerminal")'
    BY <1>q DEF Dos
  <2>5. ~started => life \in {"created", "destroyed"}
    BY DEF IInv, Life
  <2>. QED BY <1>q, <2>1, <2>2, <2>3, <2>4, <2>5 DEF IInv, Life
<1>4. Cleanup'
  <2>1. ~started => /\ sinks = 0 \/ terminal
                    /\ activeUploads = 0 \/ terminal
    BY DEF IInv, Life, Uploads, TypeOK
  <2>2. ~terminal => done # 1 /\ ~cleanupQueued
    BY DEF IInv, Cleanup
  <2>3. UNCHANGED <<done, sinks>> /\ (life' = "destroyed" <=> life = "destroyed")
    BY DEF RunCancel, CancelNative
  <2>4. terminal /\ ~terminal' => FALSE
    BY <1>q
  <2>5. ~terminal /\ terminal' => ~started
    BY DEF RunCancel
  <2>6. done \in 0..1
    BY DEF IInv, TypeOK
  <2>. QED BY <1>q, <2>1, <2>2, <2>3, <2>4, <2>5, <2>6 DEF IInv, Cleanup
<1>5. Uploads'
  BY <1>q DEF IInv, RunCancel, Uploads, Dos
<1>6. Buffer'
  <2>1. UNCHANGED <<readPending, lent>> /\ (life' = "ended" => life = "ended")
    BY DEF RunCancel, CancelNative
  <2>2. Queued("OnReadCompleted")' <=> Queued("OnReadCompleted")
    BY <1>q DEF Dos
  <2>. QED BY <2>1, <2>2 DEF IInv, Buffer
<1>7. ReadFlow'
  BY <1>q DEF IInv, RunCancel, ReadFlow, Dos
<1>. QED BY <1>q, <1>1, <1>2, <1>3, <1>4, <1>5, <1>6, <1>7 DEF IInv

-----------------------------------------------------------------------------
\* Nothing has happened yet.
LEMMA InitIInv ==
  ASSUME Init
  PROVE  IInv
<1>1. FlagsTyped
  BY DEF Init, FlagsTyped
<1>2. QueueTyped
  BY DEF Init, QueueTyped
<1>3. LabelsTyped
  BY DEF Init, LabelsTyped, Errors
<1>4. CountersTyped
  BY ConstantsAssumption DEF Init, CountersTyped, ConstantsAssumption
<1>5. DOMAIN queue = {} /\ \A d : ~Queued(d)
  <2>1. DOMAIN queue = {}
    BY DEF Init
  <2>. QED BY <2>1 DEF Queued
<1>6. Queue
  BY <1>5 DEF Queue, Once, BeforeEnd, Reasons
<1>7. Birth /\ Life /\ Cleanup /\ Uploads /\ Buffer /\ ReadFlow
  BY <1>5 DEF Init, Birth, Life, Cleanup, Uploads, Buffer, ReadFlow
<1>. QED BY <1>1, <1>2, <1>3, <1>4, <1>6, <1>7
       DEF IInv, TypeOK, QueueTyped, FlagsTyped, CountersTyped, LabelsTyped

\* Every step keeps the invariant.
LEMMA StepIInv ==
  ASSUME IInv, [Next]_vars
  PROVE  IInv'
<1>1. CASE Create \/ Caller
  BY <1>1, CreateKeeps, StartKeeps, StartReturnsKeeps, AwaitDoneKeeps DEF Caller
<1>2. ASSUME NEW p \in Readers, Read(p) \/ Look(p) \/ Wake(p) \/ ContextDone(p)
      PROVE  IInv'
  BY <1>2, ReadKeeps, LookKeeps, WakeKeeps, ContextDoneKeeps
<1>3. ASSUME NEW e \in {"canceled", "deadline"}, cancel(e)
      PROVE  IInv'
  BY <1>3, CancelKeeps
<1>4. ASSUME NEW p \in Closers, close(p) \/ CloseReturns(p)
      PROVE  IInv'
  BY <1>4, CloseKeeps, CloseReturnsKeeps
<1>5. CASE Run
  <2>1. CASE \/ RunFinish \/ RunStart \/ RunStartRead
             \/ RunCancel \/ RunCleanup \/ RunNotify
    BY <2>1, RunFinishKeeps, RunStartKeeps, RunStartReadKeeps, RunCancelKeeps,
       RunCleanupKeeps, RunNotifyKeeps
  <2>2. CASE RunCallback
    BY <2>2, OnRedirectReceivedKeeps, OnResponseStartedKeeps,
       OnReadCompletedKeeps,
       DroppedOnRedirectReceivedKeeps, DroppedOnResponseStartedKeeps,
       DroppedOnReadCompletedKeeps, OnTerminalKeeps, UploadCallKeeps
       DEF RunCallback
  <2>. QED BY <1>5, <2>1, <2>2 DEF Run
<1>6. CASE UploadDone
  BY <1>6, UploadDoneKeeps
<1>7. CASE Respond \/ CompleteRead \/ AskUpload \/ End
  BY <1>7, RespondKeeps, CompleteReadKeeps, AskUploadKeeps, EndKeeps
<1>8. CASE UNCHANGED vars
  <2>1. TypeOK' /\ UNCHANGED <<queue, serialVars, err, pending, done, nativeVars,
                              uploading, app>>
    BY <1>8 DEF IInv, TypeOK, vars
  <2>. QED BY <2>1, Aside
<1>. QED BY <1>1, <1>2, <1>3, <1>4, <1>5, <1>6, <1>7, <1>8 DEF Next

\* The queue, the flags of the serial functions and the native request agree.
THEOREM Invariance == Spec => []IInv
<1>1. Init => IInv
  BY InitIInv
<1>2. IInv /\ [Next]_vars => IInv'
  BY StepIInv
<1>. QED BY <1>1, <1>2, PTL DEF Spec

\* Every variable stays within its type: done is closed at most once, and one
\* upload call is active at most.
THEOREM TypeCorrect == Spec => []TypeOK
<1>1. IInv => TypeOK
  BY DEF IInv
<1>. QED BY <1>1, Invariance, PTL

\* No read is outstanding while bytes wait, and a response does not stall.
THEOREM ReadsFlow == Spec => []ReadFlow
<1>1. IInv => ReadFlow
  BY DEF IInv
<1>. QED BY <1>1, Invariance, PTL

-----------------------------------------------------------------------------
\* Steps that the native request does not see.
LEMMA HiddenSteps ==
  ASSUME \/ Create \/ Caller \/ UploadDone \/ Respond \/ CompleteRead
         \/ \E p \in Readers : Read(p) \/ Look(p) \/ Wake(p) \/ ContextDone(p)
         \/ \E e \in {"canceled", "deadline"} : cancel(e)
         \/ \E p \in Closers : close(p) \/ CloseReturns(p)
         \/ RunFinish \/ UploadCall
  PROVE  UNCHANGED <<life, lent, sinks>>
  BY DEF Create, Caller, start, StartReturns, AwaitDone, UploadDone, Respond,
         CompleteRead, Read, Look, Wake, ContextDone, cancel, close, CloseReturns,
         RunFinish, UploadCall, nativeVars

\* Steps that start, cancel and destroy the native request.
LEMMA LifeSteps ==
  ASSUME IInv, RunStart \/ RunCancel \/ RunCleanup
  PROVE  Native!Next \/ UNCHANGED <<life, lent, sinks>>
<1>1. CASE RunStart
  <2>1. ~terminal /\ ~started => life = "created"
    BY DEF IInv, Life
  <2>2. UNCHANGED <<lent, sinks>>
    BY <1>1 DEF RunStart
  <2>3. UNCHANGED life \/ (~terminal /\ ~started /\ life' = "started")
    BY <1>1 DEF RunStart
  <2>. QED BY <2>1, <2>2, <2>3 DEF Native!Next, Native!Start
<1>2. CASE RunCancel
  <2>1. UNCHANGED <<lent, sinks>> /\ (UNCHANGED life \/ CancelNative)
    BY <1>2 DEF RunCancel
  <2>. QED BY <2>1 DEF CancelNative, Native!Next, Native!Cancel
<1>3. CASE RunCleanup
  <2>1. "cleanup" \in Dos /\ QueueTyped /\ Queue /\ Runs("cleanup", <<>>)
    BY <1>3 DEF RunCleanup, IInv, TypeOK, QueueTyped, Dos
  <2>2. Queued("cleanup")
    BY <2>1, Ran
  <2>3. life \in {"created", "over"} /\ ~lent /\ sinks = 0 /\ lent \in BOOLEAN
    BY <2>2 DEF IInv, TypeOK, Cleanup, Life
  <2>. QED BY <1>3, <2>3 DEF RunCleanup, Native!Next, Native!Destroy
<1>. QED BY <1>1, <1>2, <1>3

\* Steps that lend the buffer, or fail the request.
LEMMA ReadSteps ==
  ASSUME IInv,
         RunStartRead \/ OnResponseStarted \/ OnRedirectReceived
  PROVE  Native!Next \/ UNCHANGED <<life, lent, sinks>>
<1>1. UNCHANGED sinks
  BY DEF RunStartRead, OnResponseStarted, OnRedirectReceived
<1>2. \/ UNCHANGED <<life, lent>>
      \/ CancelNative /\ UNCHANGED lent
      \/ ~readPending /\ life = "started" /\ lent' = TRUE /\ UNCHANGED life
  BY DEF RunStartRead, OnResponseStarted, OnRedirectReceived, startRead, fail
<1>3. lent => readPending
  BY DEF IInv, Buffer
<1>. QED BY <1>1, <1>2, <1>3 DEF CancelNative, Native!Next, Native!Cancel,
            Native!Read

\* Steps that give the buffer back.
LEMMA ReturnSteps ==
  ASSUME IInv,
         \/ OnReadCompleted
         \/ \E do \in Dos : Dropped(do)
  PROVE  Native!Next \/ UNCHANGED <<life, lent, sinks>>
<1>1. /\ UNCHANGED <<life, sinks>> /\ lent \in BOOLEAN
      /\ lent' = FALSE \/ lent' = lent
  <2>1. CASE OnReadCompleted
    BY <2>1 DEF OnReadCompleted, IInv, TypeOK
  <2>2. CASE \E do \in Dos : Dropped(do)
    BY <2>2 DEF Dropped, IInv, TypeOK
  <2>. QED BY <2>1, <2>2
<1>. QED BY <1>1 DEF Native!Next, Native!ReturnBuffer

\* Steps of upload calls.
LEMMA UploadSteps ==
  ASSUME IInv, AskUpload \/ RunNotify
  PROVE  Native!Next
<1>1. CASE AskUpload
  BY <1>1 DEF AskUpload, Native!Next, Native!Ask
<1>2. CASE RunNotify
  <2>1. "notify" \in Dos /\ QueueTyped /\ Queue
    BY DEF IInv, TypeOK, QueueTyped, Dos
  <2>2. Queued("notify")
    <3>1. PICK more \in {<<>>, <<Plain("cleanup")>>} : Runs("notify", more)
      BY <1>2 DEF RunNotify
    <3>2. more \in Seq(Tasks)
      <4>. DEFINE t == Plain("cleanup")
      <4>1. t \in Tasks
        BY ConstantsAssumption DEF Plain, Task, Tasks, Dos, Errors, ConstantsAssumption
      <4>2. more \in {<<>>, <<t>>}
        BY <3>1
      <4>. HIDE DEF t
      <4>3. CASE more = <<>>
        BY <4>3
      <4>4. CASE more = <<t>>
        BY <4>1, <4>4
      <4>. QED BY <4>2, <4>3, <4>4
    <3>3. 1 \in DOMAIN queue /\ queue[1].do = "notify"
      BY <2>1, <3>1, <3>2, RunShifts
    <3>. QED BY <3>3 DEF Queued
  <2>3. activeUploads = 1 /\ sinks = 1
    BY <2>2 DEF IInv, Uploads
  <2>4. life # "destroyed"
    BY <2>3 DEF IInv, Cleanup
  <2>. QED BY <1>2, <2>3, <2>4 DEF RunNotify, Native!Next, Native!Answer
<1>. QED BY <1>1, <1>2

\* Steps of the request's end.
LEMMA EndSteps ==
  ASSUME IInv, End \/ OnTerminal
  PROVE  Native!Next
<1>1. CASE End
  <2>1. lent' \in {lent, FALSE}
    BY <1>1 DEF End, IInv, TypeOK
  <2>. QED BY <1>1, <2>1 DEF End, Native!Next, Native!End
<1>2. CASE OnTerminal
  <2>1. Head(queue).err \in Errors \ {"none"}
    BY <1>2, HeadReason DEF OnTerminal, finish
  <2>2. Queued("OnTerminal")
    BY <1>2, <2>1, FinishRan DEF OnTerminal
  <2>3. life = "ended"
    BY <2>2 DEF IInv, Life
  <2>. QED BY <1>2, <2>3 DEF OnTerminal, Native!Next, Native!Over
<1>. QED BY <1>1, <1>2

\* Every step of the request is one of the native contract, or none of it.
LEMMA ContractStep ==
  ASSUME IInv, [Next]_vars
  PROVE  [Native!Next]_(Native!nativeVars)
<1>. SUFFICES Native!Next \/ UNCHANGED <<life, lent, sinks>>
  BY DEF Native!nativeVars
<1>1. CASE UNCHANGED vars
  BY <1>1 DEF vars, nativeVars
<1>2. CASE Next
  BY <1>2, HiddenSteps, LifeSteps, ReadSteps, ReturnSteps, UploadSteps, EndSteps
     DEF Next, Run, RunCallback, Dos
<1>. QED BY <1>1, <1>2

\* The native request is started once, lent one buffer at a time, destroyed once,
\* and only when it never started or has run its terminal callback, with every
\* upload call answered.
THEOREM ContractHolds == Spec => Contract
<1>1. Init => Native!Init
  BY DEF Init, Native!Init
<1>2. IInv /\ [Next]_vars => [Native!Next]_(Native!nativeVars)
  BY ContractStep
<1>. QED BY <1>1, <1>2, Invariance, PTL DEF Spec, Contract, Native!Spec

=============================================================================
