---------------------------- MODULE SocketDialers ----------------------------
(***************************************************************************)
(* The socket dialers that the engines of NaiveClient and of Browser XHTTP *)
(* call.  A dialer hands a descriptor to the engine: a duplicate of a      *)
(* connection it has made, or one end of a pair of sockets, of which the   *)
(* other end stays with a worker, a relay or a DNS server.  How a pair is  *)
(* made depends on the platform; each of its steps may fail and has to     *)
(* give back what the steps before it have opened.                         *)
(*                                                                         *)
(* The model follows one call from the dial to the end of its worker.      *)
(***************************************************************************)
EXTENDS Naturals, Sequences

CONSTANT Platforms   \* "unix"; "darwin", also unix where UDP loopback is forced;
                     \* "windows" (Go 1.25), "oldWindows"

VARIABLES
    platform, dial,
    plan, step,   \* constructors left to try; the step of the first of them
    pc,           \* control of the call
    open,         \* open descriptors
    twice,        \* a raw descriptor was closed that was not open
    accept,       \* the goroutine of createUnixSocketPair
    worker,       \* what the other end is given to
    copies,       \* the copying goroutines of dialSocket
    registered,   \* socketCloseCallbacks holds the onClose of the call
    cancelled,    \* the context of the worker
    peer          \* the remote end of the connection made

callVars   == <<plan, step, pc, accept>>
workerVars == <<worker, copies, registered, cancelled, peer>>
vars == <<platform, dial, callVars, open, twice, workerVars>>

-----------------------------------------------------------------------------
(* The dialers: whether they dial out, the pair they make, the worker, and *)
(* whether they return an onClose that ends it.                            *)

Dialer(out, pair, work, onClose) ==
    [out |-> out, pair |-> pair, worker |-> work, onClose |-> onClose]

tcpDNS        == Dialer(FALSE, "stream", "serve", FALSE)
tcpDialer     == Dialer(TRUE, "stream", "copy", FALSE)
udpDNS        == Dialer(FALSE, "packet", "servePackets", TRUE)
udpDialer     == Dialer(TRUE, "packet", "copyPackets", TRUE)
dialSocketDNS == tcpDNS
dialSocket    == Dialer(TRUE, "stream", "copyBoth", FALSE)
configureECH  == udpDNS

Dials == {tcpDNS, tcpDialer, udpDNS, udpDialer, dialSocketDNS, dialSocket, configureECH}

-----------------------------------------------------------------------------
(* The constructors.  A step opens and closes descriptors, closes others   *)
(* when it fails, and may start the goroutine that accepts or wait for it. *)

Step(opens, closes, undo) ==
    [opens |-> opens, closes |-> closes, undo |-> undo,
     accepts |-> FALSE, joins |-> FALSE]
Check(undo) == Step({}, {}, undo)

Unix == {"unix", "darwin"}

dupSocketFD ==
    IF platform \in Unix
    THEN <<Check({}), Step({"cronet"}, {}, {})>>
    ELSE <<Step({"file"}, {}, {}), Check({"file"}),
           Step({"cronet"}, {"file"}, {"file"})>>

createSocketpair ==
    <<Step({"cronet", "fd"}, {}, {}), Step({"proxy"}, {"fd"}, {"fd", "cronet"})>>

createTCPLoopbackSocketPair ==
    <<Step({"listener"}, {}, {}), Step({"cronet"}, {}, {"listener"}),
      Check({"cronet", "listener"}),
      Step({"proxy"}, {"listener"}, {"cronet", "listener"})>>

createUnixSocketPair ==
    <<Check({}), Step({"listener"}, {}, {}),
      [Step({"cronet"}, {}, {"listener"}) EXCEPT !.accepts = TRUE],
      [Check({"cronet", "listener"}) EXCEPT !.joins = TRUE]>>

createDgramPair == createSocketpair

\* Resolve, listen, resolve, dial; three calls to connect back; duplicate.
createUDPLoopbackPair ==
    LET both == {"cronetConn", "proxy"} IN
    <<Check({}), Step({"proxy"}, {}, {}), Check({"proxy"}),
      Step({"cronetConn"}, {}, {"proxy"}), Check(both), Check(both), Check(both),
      Step({"cronet"}, {"cronetConn"}, both)>>

createUDPLoopbackPairWindows ==
    LET both == {"cronet", "proxy"} IN
    <<Step({"proxy"}, {}, {}), Step({"cronet"}, {}, {"proxy"}), Check(both),
      Check(both), Check(both), Check(both), Check(both)>>

\* What createSocketPair and createPacketSocketPair try, in order.
createSocketPair ==
    CASE platform = "windows"    -> <<createUnixSocketPair,
                                      createTCPLoopbackSocketPair>>
      [] platform = "oldWindows" -> <<createTCPLoopbackSocketPair>>
      [] platform \in Unix       -> <<createSocketpair>>

createPacketSocketPair ==
    CASE platform = "unix"   -> <<createDgramPair>>
      [] platform = "darwin" -> <<createUDPLoopbackPair>>
      [] OTHER               -> <<createUDPLoopbackPairWindows>>

Pairs == IF dial.pair = "stream" THEN createSocketPair
                                 ELSE createPacketSocketPair

-----------------------------------------------------------------------------
Init ==
    /\ platform \in Platforms /\ dial \in Dials
    /\ plan = <<>> /\ step = 1 /\ pc = "call" /\ accept = "none"
    /\ open = {} /\ twice = FALSE
    /\ worker = "none" /\ copies = {} /\ registered = FALSE
    /\ cancelled = FALSE /\ peer = "up"

\* net.Conn and os.File know that they are closed, descriptors do not.
Raw == {"cronet"}
Close(opens, closes) ==
    /\ open' = (open \cup opens) \ closes
    /\ twice' = (twice \/ ~((closes \cap Raw) \subseteq (open \cup opens)))

\* The dialer dials, or makes a pair at once.  Only a plain socket can be
\* duplicated; not one inside a wrapper.
DialContext(outcome) ==
    /\ pc = "call"
    /\ dial.out \/ outcome = "wrapped"
    /\ open' = IF dial.out /\ outcome # "fails" THEN {"conn"} ELSE {}
    /\ pc' = IF outcome = "fails" THEN "failed" ELSE "make"
    /\ plan' = (IF outcome = "plain" THEN <<dupSocketFD>> ELSE <<>>) \o Pairs
    /\ UNCHANGED <<platform, dial, step, accept, twice, workerVars>>

Duplicating == Head(plan) = dupSocketFD
Current     == Head(plan)[step]

\* A constructor has failed, having closed closes: the next one is tried, and
\* when there is none the call fails.
NextConstructor(closes) ==
    /\ plan' = Tail(plan) /\ step' = 1
    /\ IF Len(plan) > 1
       THEN pc' = "make" /\ Close({}, closes)
       ELSE pc' = "failed" /\ Close({}, closes \cup {"conn"})

StepDone ==
    /\ pc = "make"
    /\ LET last == step = Len(Head(plan)) IN
       /\ step' = IF last THEN step ELSE step + 1
       /\ pc' = IF Current.joins THEN "join"
                ELSE IF ~last THEN "make"
                ELSE IF Duplicating THEN "return" ELSE "start"
       /\ Close(Current.opens,
                Current.closes \cup
                  IF last /\ Duplicating THEN {"conn"} ELSE {})
    /\ accept' = IF Current.accepts THEN "waiting" ELSE accept
    /\ UNCHANGED <<platform, dial, plan, workerVars>>

StepFails ==
    /\ pc = "make"
    /\ IF Current.joins
       THEN /\ pc' = "join" /\ Close({}, Current.undo)
            /\ UNCHANGED <<plan, step>>
       ELSE NextConstructor(Current.undo)
    /\ UNCHANGED <<platform, dial, accept, workerVars>>

\* The goroutine of createUnixSocketPair.
Accept(outcome) ==
    /\ accept = "waiting"
    /\ outcome = "conn" => "listener" \in open
    /\ accept' = outcome
    /\ open' = IF outcome = "conn" THEN open \cup {"proxy"} ELSE open
    /\ UNCHANGED <<platform, dial, plan, step, pc, twice, workerVars>>

\* Mutated: a connection that was accepted although connect failed is left.
JoinForgets ==
    /\ pc = "join" /\ accept # "waiting"
    /\ accept' = "none"
    /\ IF "cronet" \in open /\ accept = "conn"
       THEN pc' = "start" /\ Close({}, {"listener"}) /\ UNCHANGED <<plan, step>>
       ELSE NextConstructor({"listener"} \cup (open \cap {"cronet"}))
    /\ UNCHANGED <<platform, dial, workerVars>>

\* connect has returned; the connection is taken from the goroutine.
Join ==
    /\ pc = "join" /\ accept # "waiting"
    /\ accept' = "none"
    /\ IF "cronet" \in open /\ accept = "conn"
       THEN pc' = "start" /\ Close({}, {"listener"}) /\ UNCHANGED <<plan, step>>
       ELSE NextConstructor({"listener", "proxy"} \cup (open \cap {"cronet"}))
    /\ UNCHANGED <<platform, dial, workerVars>>

StartWorker ==
    /\ pc = "start"
    /\ worker' = dial.worker
    /\ copies' = IF dial.worker = "copyBoth" THEN {"in", "out"} ELSE {}
    /\ pc' = "return"
    /\ UNCHANGED <<platform, dial, plan, step, accept, open, twice, registered,
                   cancelled, peer>>

\* The callback of the engine registers onClose under a number that it hands
\* over with the descriptor; a duplicate has none.
registerSocketClose ==
    /\ pc = "return"
    /\ registered' = (dial.onClose /\ ~Duplicating)
    /\ pc' = "handed"
    /\ UNCHANGED <<platform, dial, plan, step, accept, open, twice, worker,
                   copies, cancelled, peer>>

-----------------------------------------------------------------------------
\* The engine closes its descriptor, then tells with the number.
EngineCloses ==
    /\ pc = "handed" /\ "cronet" \in open
    /\ Close({}, {"cronet"})
    /\ UNCHANGED <<platform, dial, callVars, workerVars>>

notifySocketClose ==
    /\ pc = "handed" /\ "cronet" \notin open /\ registered
    /\ registered' = FALSE /\ cancelled' = TRUE
    /\ UNCHANGED <<platform, dial, callVars, open, twice, worker, copies, peer>>

\* Close of the client.
CancelProxy ==
    /\ cancelled' = TRUE
    /\ UNCHANGED <<platform, dial, callVars, open, twice, worker, copies,
                   registered, peer>>

PeerEnds ==
    /\ "conn" \in open /\ peer' = "ended"
    /\ UNCHANGED <<platform, dial, callVars, open, twice, worker, copies,
                   registered, cancelled>>

-----------------------------------------------------------------------------
EngineGone == pc = "handed" /\ "cronet" \notin open

WorkerEnds ==
    /\ worker' = "none"
    /\ Close({}, {"conn", "proxy"})
    /\ UNCHANGED <<platform, dial, callVars, copies, registered, cancelled, peer>>

\* The context ends a DNS server by closing its socket; a stream also has an
\* end, of which packets have no notion.
ServeEnds ==
    /\ worker \in {"serve", "servePackets"}
    /\ cancelled \/ (worker = "serve" /\ EngineGone)
    /\ WorkerEnds

\* Nothing was asked for fifteen seconds, or something that is no query.
ServeTimesOut == worker \in {"serve", "servePackets"} /\ WorkerEnds

\* bufio.CopyConn and CopyPacketConn: both ends are closed after they return,
\* which is when the context is done, when the sources have ended, or earlier.
\* Only the peer's packets have an end, in an error.
CopyReturns ==
    /\ worker \in {"copy", "copyPackets"}
    /\ cancelled \/ peer = "ended" \/ EngineGone
    /\ WorkerEnds
CopyOver ==
    \/ cancelled
    \/ peer = "ended" /\ (worker = "copy" => EngineGone)

\* One of the two io.Copy of dialSocket.
SourceEnded(c) ==
    \/ "proxy" \notin open
    \/ IF c = "in" THEN peer = "ended" ELSE EngineGone
CopyEnds(c) ==
    /\ c \in copies
    /\ SourceEnded(c) \/ EngineGone \/ peer = "ended"
    /\ copies' = copies \ {c}
    /\ UNCHANGED <<platform, dial, callVars, open, twice, worker, registered,
                   cancelled, peer>>

RelayCloses ==
    /\ worker = "copyBoth"
    /\ copies # {"in", "out"} \/ cancelled
    /\ worker' = "joining"
    /\ Close({}, {"conn", "proxy"})
    /\ UNCHANGED <<platform, dial, callVars, copies, registered, cancelled, peer>>

RelayJoins ==
    /\ worker = "joining" /\ copies = {}
    /\ WorkerEnds

Next ==
    \/ \E outcome \in {"fails", "plain", "wrapped"} : DialContext(outcome)
    \/ StepDone \/ StepFails \/ Join \/ StartWorker \/ registerSocketClose
    \/ \E outcome \in {"conn", "failed"} : Accept(outcome)
    \/ EngineCloses \/ notifySocketClose \/ CancelProxy \/ PeerEnds
    \/ ServeEnds \/ ServeTimesOut \/ CopyReturns
    \/ \E c \in {"in", "out"} : CopyEnds(c)
    \/ RelayCloses \/ RelayJoins

\* The code, and the engine's word that it has closed a descriptor.
Fairness ==
    /\ WF_vars(Join) /\ WF_vars(\E outcome \in {"conn", "failed"} : Accept(outcome))
    /\ WF_vars(notifySocketClose)
    /\ WF_vars(ServeEnds) /\ WF_vars(CopyOver /\ CopyReturns)
    /\ \A c \in {"in", "out"} : WF_vars(SourceEnded(c) /\ CopyEnds(c))
    /\ WF_vars(RelayCloses) /\ WF_vars(RelayJoins)

Spec == Init /\ [][Next]_vars /\ Fairness

-----------------------------------------------------------------------------
Descriptors == {"conn", "cronet", "proxy", "file", "fd", "listener", "cronetConn"}
Workers == {"none", "serve", "servePackets", "copy", "copyPackets", "copyBoth",
            "joining"}

\* Every variable stays within its type.
TypeOK ==
    /\ pc \in {"call", "make", "join", "start", "return", "handed", "failed"}
    /\ open \subseteq Descriptors
    /\ accept \in {"none", "waiting", "conn", "failed"}
    /\ worker \in Workers
    /\ copies \subseteq {"in", "out"}

\* Whichever step of whichever constructor fails, nothing stays open behind a
\* call that fails, and behind one that succeeds only the engine's descriptor
\* and what the worker will close; no descriptor is closed that is not the
\* call's any more, nor an end under a worker that uses it.
NothingLeaks ==
    /\ pc = "failed" => open = {} /\ worker = "none"
    /\ pc \in {"return", "handed"} =>
          open \subseteq {"cronet"} \cup
            (IF worker = "none" THEN {} ELSE {"conn", "proxy"})
    /\ worker \notin {"none", "joining"} =>
          "proxy" \in open /\ (dial.out => "conn" \in open)
    /\ ~twice
    /\ accept # "none" => pc \in {"make", "join"}

\* A worker ends when its client is closed and, but for the relay that waits
\* for its peer, when the engine has closed its end; the goroutine that accepts
\* never holds the call up.
WorkersEnd ==
    /\ (pc = "join") ~> (pc # "join")
    /\ (cancelled /\ worker # "none") ~> (worker = "none")
    /\ (EngineGone /\ worker \notin {"none", "copy"}) ~> (worker = "none")
=============================================================================
