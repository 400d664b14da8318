# Verification of cronet-go

cronet-go wraps Chromium's network stack (Cronet, a native library) for Go. It
turns native, callback-driven objects into Go's blocking interfaces: a
bidirectional stream into a `net.Conn`, a URL request into an
`http.RoundTripper`, a proxy protocol (naive) and a tunnelling protocol (XHTTP)
into dialers. Nearly all of its own logic is about one difficulty: **goroutines
that block, and a native network thread that calls back, share buffers and
objects whose life neither side controls alone**. This directory holds TLA+
models of that logic, TLC configurations that check them, and proofs checked by
TLAPS.

How to run, inside this directory:

    tlc -workers 2 -config NaiveClient.cfg MCNaiveClient.tla
    tlapm BidirectionalConnProofs.tla

`PROJECT.json` lists the components, the runs, for each property a mutated
definition that violates it, the source lines behind every definition
(`map`), the hazards and the theorems.

## 1. The system

### 1.1 Components

**BidirectionalConn** (`bidirectional_conn.go`, registry
`bidirectional_stream_map.go`). A native bidirectional stream as a `net.Conn`.
State: channels `close`, `done`, `readDone`, `writeDone`, `ready`, `handshake`;
unbuffered channels `read` and `write` over which the network thread hands a
completion to the goroutine that asked for it; one-token semaphores per
direction; `cancelled`, `err`, `onTerminate` under a mutex. Operations: `Start`,
`Read`, `Write`, `Close`, deadlines, `setOnTerminate`; callbacks
`OnStreamReady`, `OnResponseHeadersReceived`, `OnReadCompleted`,
`OnWriteCompleted`, `OnSucceeded`, `OnFailed`, `OnCanceled`. Hard: the network
thread blocks in a callback until a goroutine receives; a goroutine that leaves
early (deadline, Close) leaves its buffer with the native side. Correct when: no
call returns while the native side may still touch its slice; a completion
reaches the call that asked for it; the network thread never stays blocked; the
stream is destroyed exactly once; the hook that lets the client shut down runs
once, after that.

**paddingConn, naiveConn** (`naive_conn.go`). The naive protocol's framing: the
first eight writes of each direction travel as length, padding length, data,
padding. State: counters of frames written and read, the unread rest of the
frame (data, padding). Hard: short reads, small buffers, the change from frames
to raw bytes within a Write, calls that fail in the middle, copiers that unwrap
the connection. Correct when: both ends see the byte stream that was written.

**NaiveClient** (`naive_client.go`). Owns engines, sockets and proxy workers.
State: an atomic life cycle (Created, Starting, Running, Closing, Closed), two
channels closed at its transitions, `lifecycleMu`, and three wait groups
(operations, connections, workers). Operations: `Start`, `DialEarly`,
`CloseAllConnections`, `Close`; callbacks: the socket dialers, the hooks of
connections. Hard: `Close` may come at any point of a start or a dial, twice at
once; one of several engines may fail to start. Correct when: no engine is used
after its destruction, Close waits for everything and returns, channels are
closed once.

**Streaming request** (`streaming_request.go`). A native URL request read like a
stream. State: a serial executor (queue and `running` flag); under it the flags
`started`, `terminal`, `readPending`, `activeUploads`, `cleanupQueued`; under
`mu` the first error and the pending bytes; a one-token wake-up channel and
`done`. Operations: `start`, `Read`, `readContext`, `cancel`, `close`; callbacks
`OnRedirectReceived`, `OnResponseStarted`, `OnReadCompleted`, terminal ones; for
uploads `Read` and `Rewind` of a `readerUploadProvider`, which runs the caller's
blocking body on a goroutine of its own. Hard: clean-up must wait for the
terminal callback and for the upload; stop takes the body away from a blocked
read and races a rewind that opens the next. Correct when: no bytes lost, no
stall, nothing native used after its destruction, every body closed once, every
blocked caller woken.

**RoundTripper** (`transport.go`). An engine and an executor, given or made by
the first `RoundTrip` (`initialize`, once); a streaming request for each call;
`urlResponse` as its body, with a goroutine that watches the context. Engine and
executor that it has made are given up by a finalizer. Hard: the finalizer's
only condition is that nobody can reach the RoundTripper, while native requests
are reached through registries; a final answer tells the caller that an engine it
has lent may go. Correct when: engine and executor outlive every request, and
every answer that ends a call comes after the request's clean-up.

**Browser XHTTP client and connections** (`browser_xhttp.go`,
`browser_xhttp_dialer.go`, `browser_xhttp_ech.go`). A tunnel over HTTP requests:
a download request and either a streaming upload or a sequence of numbered
POSTs ("packet up"). State: client life cycle with a set of connections; per
connection `browserBatch` (a bounded buffer between writers and the uploader,
with a `notify` channel replaced at every signal), slots for packets in flight,
deadline contexts that are replaced under waiting calls, an upload context.
Hard: a full batch, deadlines that change under a waiter, numbering, the order in
which Close tears these down. Correct when: packets carry the stream in order
without gaps, writers blocked on a full batch are woken by drain, close and
deadline, close leaves no goroutine.

**Browser duplex request, gRPC framing** (`browser_xhttp_duplex.go`,
`browser_xhttp_grpc.go`). A bidirectional stream used as one HTTP exchange: an
upload worker writes a reader's bytes, callbacks deliver response bytes, a
clean-up goroutine frees the native buffers after both. Hard: destruction waits
for the terminal callback, the worker and the lent buffers; a deadline between
the header and the message of a gRPC frame.

**DNS hijacking** (`naive_dns.go`, `browser_xhttp_ech.go`). Answers the engine's
DNS queries in the process, by packets or by stream. `NaiveClient` wraps the
resolver it was given twice: address queries for the server name are redirected
to the server address or answered with it, HTTPS queries for it (by which
Chromium finds an ECH config) are answered with the configured config or
redirected to another name, and lose address hints. Browser XHTTP answers
everything itself. Hard: what one wrapper changes on the way down has to be put
back on the way up. Correct when: the resolver is never asked what the wrappers
are to keep from it, and the engine gets an answer to its own question that leads
nowhere but to the server.

**Socket pairs and dialers** (`naive_socket_*.go`, `naive_dns_unix.go`,
`naive_dns_windows*.go`, `engine_socket.go`, the dialers in `naive_client.go`,
`browser_xhttp_dialer.go`, `browser_xhttp_ech.go`). The engine asks Go for
descriptors: a duplicate of a connection, or one end of a pair whose other end a
relay or a DNS server serves. Five constructors on four kinds of platform. Hard:
each of their steps may fail; packets have no end, so the engine tells by number
that it has closed a socket. Correct when: nothing leaks whichever step fails,
and workers end.

**Callback registries** (`*_impl_cgo.go`, `*_impl_purego.go`, `*_map.go`,
`engine_cgo.go`, `engine_purego.go`). Maps from addresses of native objects to Go
handlers, one per kind and build. The allocator gives an address out again as
soon as its object is gone. Correct when: a callback runs the handler of its own
object, and no entry outlives its object.

**Library loader** (`internal/cronet/loader_*.go`, `api_purego*.go`). Searches for
the library, loads it once, and fills some two hundred function variables in
order; wrappers call through them. Correct when: no variable is called while it
is nil, whatever the library lacks.

**Engine, data wrappers, build tools** forward calls to the native library or read
tables.

### 1.2 How they interact

    application ── naiveConn ── paddingConn ── BidirectionalConn ── native stream
         │                                        │ onTerminate
         └── NaiveClient: Start / DialEarly / Close ── engines, sockets, workers
    application ── RoundTripper / browser client ── streamingRequest ── native request
                                                      └ readerUploadProvider ── caller's body

Calls go down, callbacks come up on the engine's network thread or through a
serial executor. The contract between a Go object and its native one is stated
on its own (`NativeStream`, `NativeRequest`) and is the abstract specification
which the detailed modules are shown to implement.

## 2. Modules

One critical section is one step; where code between two lock sections can be
interleaved, it is two. A channel that is only closed is a Boolean (or a count,
when closing twice is at issue), a `select` with several ready cases a choice.
Data are reduced to lengths, positions or owners.

### 2.1 NativeStream, BidirectionalConn

`NativeStream` is what the native bidirectional stream demands: one outstanding
operation per direction, no read after the end of the response, nothing after
`Destroy`, `Destroy` once. `held[d]` names the goroutine whose slice the native
side may still touch. It is external: taken from how the bindings declare it and
from how the code uses it.

`BidirectionalConn` follows a call through its phases: `Enter` (semaphore),
`WaitReady`, `Issue` (the section that looks at `cancelled` and posts the native
operation), `Await` (the big `select`), `Expire` (deadline: cancel, then
`Drain`), `Settle`. `terminate` is three steps (`TerminateEnter`,
`TerminateOnce`, `TerminateNotify`), since it closes channels which goroutines
see without the mutex, and it runs on the network thread or on the goroutine
whose `Start` was refused. A callback that hands over a completion is
`OnCompleted` followed by `Deliver` or `Abandon`. `DeadlinePasses` and
`SetDeadline` change the deadline channel at any time; `late` is the deadline
channel that a call has captured.

Checked: `BuffersOwned`, `OfferMeetsOwner`, `HookAfterDestroy`, `Contract`
(`NativeStream!Spec`); live: `NothingBlocks` (calls whose connection is closed or
whose deadline has passed return, the network thread never stays in a callback,
a cancelled stream is released).

### 2.2 NaiveClient

Each goroutine has a label in the code; a section of `lifecycleMu` is one step.
A connection is what `BidirectionalConn` promises: after a close or a failure
its stream is destroyed (`ConnTerminal`) and then its hook runs (`ConnRelease`).
An engine is `none`, `live` or `destroyed`; any of them may fail to start.

Checked: `EngineAlive`, `CloseMeansGone` (with the exact counts of the wait
groups), `NoLateAdd`, and in `TypeOK` that no channel is closed twice; live:
`CallsReturn`.

### 2.3 BytePipe, PaddingConn

`BytePipe` is the abstract specification: bytes are written, and read in order.
`PaddingConn` models a writer and a reader with the real header; a byte is its
position in the stream, padding is 0. The underlying reads return any positive
number of the bytes there are. `TimeoutIn` says in which phases the connection
below may fail and stay usable (`BidirectionalConn.waitReady` does so when it
finds an expired deadline), `Bypass` whether a copier reads below once
`readerReplaceable` holds.

`NothingLost` compares the delivered bytes and the still framed rest of the
wire, decoded by an independent definition of the format (`Unframed`), with the
stream. `PipeSpec` is the refinement, `AllDelivered` its liveness.

### 2.4 SerialQueue, SerialExecutor

`SerialQueue` promises: functions run one at a time, in the order of their
submission, each once, none is left behind. `SerialExecutor` is the slice,
`running` flag and drain loop of `streamingExecutor.submit`.

### 2.5 NativeRequest, StreamingRequest

`NativeRequest` is the contract of the native URL request. `StreamingRequest`
uses the order that `SerialQueue` promises: `queue` holds the functions that were
submitted, and running one is one step (`RunStart`, `RunCancel`, `OnReadCompleted`,
...). Around it are the steps of the calls under `mu`, the upload goroutine and
the network thread (`Respond`, `CompleteRead`, `AskUpload`, `End`), which only
submit.

Checked: `ReadFlow`, `Contract`; live: `CallsReturn` (in the run as `AllReturn`,
together with the liveness of the executor and of uploads).

### 2.6 UploadProvider

The upload goroutine within `Read` and `Rewind`, and concurrent `stop`s. Bodies
are numbered; each has a position and a count of closes.

Checked: `OneOwner`, `CountsOneBody` (in the run together as `OneBody`); live:
`StopUnblocks`.

### 2.7 BrowserDuplex

`browserDuplexRequest` over `NativeStream`: readers, `runUpload` (`WorkerStart`,
`UploadRead`, `WorkerWrite`, `WorkerWoken`), the clean-up goroutine
(`CleanupClose`, `CleanupFree`), `start`, `cancel` and `close`. The network
thread first lets something happen to the native stream (`NetRead`, `NetEnd`,
...) and then runs the callback, which waits for `r.mu`; in between everyone else
may act. `notify` is the set `woken` of the waiters whose channel has been
closed. With gRPC framing a reader holds the decoder's mutex while it collects a
message, which `close` must acquire; the message itself is the verdict of
`Decode`.

Checked: `BuffersExclusive` (the native buffers outlive their users, and one that
was lent to a write is not filled), `ReadFlow`, `Contract` (`NativeStream!Spec`);
live: `CallsReturn`.

A stream that has ended, and whose terminal callback is still to run, ignores what
is asked of it: `Lend` lends and `cancelLocked` cancels only while it runs. So
`Contract` sees a late `Start`, a second or premature `Destroy` and a read after the
end of the response, but not every Read, Write or Cancel that follows the last
callback.

### 2.8 BrowserConn

One connection and the client's Close. `Write` runs through `WriteCheck` (the
section of `c.mu`), `WriteContext`, `WriteLock` (the section of `b.mu`) and
`WriteWait`; `Read` likewise. `wr.changed` and `rd.changed` say that the deadline
context which the call has captured was replaced. The uploader is the loop of
`startPacketUp` or, in the streaming modes, whoever reads the body
(`browserBatchReader`); both empty the batch through `Drain`. `notify` is the set
`waiting` of those who wait on its present channel. `waiter[i]` is the goroutine
in `post.wait`; a failure takes it through the four calls of `FailStep`, each of
which others may see. `Close` is one step per call of its body, since every call
wakes somebody else. A payload is the stretch of the stream it holds.

A request is reduced to what `StreamingRequest` and `BrowserDuplex` show of it: open
until it ends or is cancelled, bytes before the error, done after both that and
its body. `Scenarios` says who acts: `actors` is a subset of writer, reader, owner
(closes the connection), client (closes the client) and contexts (deadlines,
cancellation of the dial).

Checked: `CloseLeavesNothing`, `NoGap`, `ErrorsTellWhy`, and in `TypeOK` the limit
of packets in flight; live: `CallsReturn`. `ErrorsTellWhy` says that a call reports a
cancellation only if somebody cancelled, and an end or a failure of the download
only if that is how it ended; that Read never reports only a closed batch; and that
Write does so only when `Piped` explains it: somebody cancelled, the download has
ended cleanly, or the request whose body the batch is has ended and closed it. In
packet-up no request has the batch as its body, in stream-up the post has, so that a
Write after a failed download reports the failure, or an error that was published
before it, as long as the post goes on. In stream-one the download itself has, and a
Write may learn of the closed batch only (3.2).

### 2.9 GrpcFraming

The other framing over `BytePipe`: `browserGRPCUpload` makes a message of each
piece that its source returns (`pending` and `uploadErr` keep what a small buffer
leaves), `browserGRPCReader` takes messages apart. The units of the wire are header
bytes, field tags, payload bytes numbered by their position, and the filling of
fields that are skipped; a tag stands for its varints. `r.header` and `r.frame`
keep what was read of a message, so that `Deadline` may come between any two
units. Messages may be empty, malformed, too long, or cut by the end of the
stream.

Checked: `Resumes` (delivered, kept and coming bytes are the stream), `PipeSpec`.

### 2.10 RoundTripper

`initialize`, calls of `RoundTrip` and what comes after them, a request seen from
outside (created, started, its callbacks, terminal, cleaned up), its monitor and
the worker that runs its last function. `RefersTo` says who keeps the RoundTripper
reachable, `Roots` from where one starts: that is what the finalizer depends on,
and the field `roundTripper` of `urlResponse` exists for it. Dropping a response
without closing it, and dropping the RoundTripper, are steps of the user.

Checked: `Outlives`, `Settled`.

### 2.11 CallbackRegistry

All registries run the same steps, and differ in the effect of a callback on the
entry, in the order of `Destroy`, and in how an object gets its handler: a
registry is a record of these (`StreamCgo`, `RequestPurego`, ...). `heap` is the
allocator: an address is free once its object is gone. A handler has an identity
per object, so that a callback under a reused address can be told from one of
its own.

Checked: `Found`, `NothingRetained`. The registries of the `New...With`
constructors (`BufferMock`, `SinkMock`, `EngineMock`, `RequestMock`) never delete
an entry: the next object at the address overwrites it, so `Found` holds of them,
and `NothingRetained` does not claim what they do not keep.

### 2.12 LibraryLoader

`SymbolOrder` is the order in which the symbols are registered, on Windows with
the functions that take floating-point numbers last; a group of functions with the
same check is one symbol. `API` says how each wrapper comes to its variable: it
loads the library, compares the variable with nil, or relies on an object that
another call has created. `Situations` are the machines explored: no library,
several, one that cannot be loaded, one that lacks its first, a later, an optional or the last symbol.

Checked: `NoNilCall` (in the run together with `LoadedForGood`).

### 2.13 SocketDialers

One call of a dialer, from the dial to the end of its worker. A constructor is a
sequence of steps, each with the descriptors that it opens, closes, and closes
when it fails; `createUnixSocketPair` has a goroutine of its own (`Accept`,
`Join`). `open` is the set of open descriptors. The worker is a DNS server, a copy
by the sing library, or the two `io.Copy` of `dialSocket`.

Checked: `NothingLeaks`; live: `WorkersEnd`.

### 2.14 DNSHijack

A query in its way through the wrappers (`wrapDNSResolverWithECH`,
`wrapDNSResolverForServerRedirect`, or `resolveECH` for Browser XHTTP), the answer of
the application's resolver (`Upstream`: none, empty, direct or through an alias,
with or without its question), and its way back (`ResolverReturns`,
`normalizeDNSResponse`, `Write`, which truncates packets). A name is a host and the
port of a prefix `_8443._https.`.

Checked: `Hijacked`; live: `ServerEnds`.

### 2.15 Composed instances

`MCNaiveClient`, `MCTransport`, `MCBindings` and `MCFraming` are sums: a behaviour
chooses a part and exercises it while the others stay where they start, in which
none of their fair actions is enabled. What a property of such a module says of
one part, it says by the name it has there. `MCTransport` extends
`StreamingRequest` and `MCBindings` extends `CallbackRegistry`, so that the
properties of these are the very ones that are proved; the other parts are
instances (`Executor`, `Upload` and so on). `BuffersExclusive`, `ReadFlow` and
`Contract` of the run `duplex` are `BrowserDuplex`'s own for the same reason. The
parts have their meeting points
in the modules themselves (what `NaiveClient` needs of a worker is what
`SocketDialers` shows of it).

## 3. Runs

| run | shows | bounds |
|---|---|---|
| `conn` | buffers, completions, hook and native contract under every interleaving; Close and deadlines unblock, the network thread stays free, cancelled streams are released | 1 reader, 1 writer |
| `conn_eof_write` | *violation*: a Write returns while the native side holds its slice | 1 reader, 1 writer |
| `client` | life cycle safety and termination; dialers leak nothing and their workers end; queries are hijacked as configured | 2 Starts, 1 dial, 2 Closes, CloseAllConnections, 2 engines, 1 worker; every dialer on 4 platforms; all 33 DNS configurations, both transports |
| `padding` | both framings refine `BytePipe`; padded bytes are delivered | 2 padded frames, chunks of 2, padding 0 to 2, 6 bytes; gRPC: 3 bytes, pieces of 2, headers of 2, messages up to 4 units |
| `padding_replaceable` | *violation*: a copier that uses `ReaderReplaceable` at once delivers padding | 5 bytes |
| `padding_timeouts` | *violation*: a timeout inside a frame desynchronises the two ends | 5 bytes |
| `transport` | the executor refines `SerialQueue`; request safety, contract and termination; ownership of bodies, counting, termination of uploads | 3 goroutines, 8 functions; 1 reader, 2 closers, chunks up to 2 bytes, an upload; bodies of 4 bytes, length unknown or 3, buffer 2, 2 rewinds, 2 stops |
| `bindings` | no nil function is called; callbacks find their handlers; engine and executor outlive requests | 2 goroutines, six machines whose libraries lack the first, a later, an optional or the last symbol, do not load, or lie where Linux does not look; 23 registries, 2 users, 2 addresses; 2 calls of RoundTrip |
| `registry_status` | *violation*: a listener loses its entry to the destruction of an earlier one | 2 users, 1 address |
| `duplex` | life of the native buffers and of the lent write buffer, stream contract, termination | 1 reader, 2 closes, a cancellation, chunks up to 2 bytes, framed or not |
| `browser_conn` | batch, packets, deadlines, errors and closes of a browser connection | all modes, one or two of writer, reader, owner, client and contexts at a time, 2 bytes, a batch of 1, 1 packet in flight |
| `browser_drain` | *violation*: the error of an upload overtakes the last bytes of the response | 1 byte |

Why the bounds are enough. The modules' goroutines of one kind are alike and
meet each other only through a semaphore, a mutex or a counter, so two of a kind
show contention, and the safety of most modules is proved for any number (section 4).
Where a run has one, a proof covers more (`BidirectionalConn`) or the code admits one
at a time (readers of a request).
In `NaiveClient` two engines are the least with which one can fail after
another runs. In `PaddingConn` a stream of six bytes spans both frames and raw
bytes, frames longer and shorter than buffers, frames of no data, and a Write cut
at the end of padding; the constants 8 and 65535 only scale it. In
`UploadProvider` three bodies give two rewinds, so that a stop can race a rewind
of a rewound body; `MaxAttempts` stands for the 100 empty reads. In
`BrowserDuplex` one reader suffices: `woken` is kept per waiter, and the decoder or
`http.Response` admits one Read at a time. In `BrowserConn` a batch of one byte is
full after each Write, a Write of two bytes waits within itself, and with one slot
the second packet waits for the first; all five actors at once exceed what TLC can
enumerate, so they come alone or in pairs, those pairs that meet in a variable
(writer and owner, owner and client, reader and contexts, writer and reader of one
stream). Safety is proved for any set of actors; of `CallsReturn`, with the other
pairs, the run says nothing. In
`CallbackRegistry` two users and two addresses suffice for an address to be used
again while its former object is still on its way out; four identities of objects
are as many as can be referred to at once. In `LibraryLoader` the number of
symbols is the real one, up to grouping. In `SocketDialers` nothing is bounded but
the number of calls, which share no state. In `DNSHijack` hosts stand for the
server name, its address, another ECH name, an alias and the rest of the world;
queries follow one another without a bound.

`CHECK_DEADLOCK FALSE` appears where the system may rest: a stream fully
delivered, a request done, an upload nobody asks for, a RoundTripper without calls.
In `conn` and `client` deadlock is checked.

### 3.1 Fairness

* Goroutines and the network thread run: weak fairness of the steps in a call
  that do not wait for the outside. No fairness is assumed of callers, of
  deadlines, of the peer, or of what a user's body does: `UploadProvider` lets a
  body block until it is closed.
* A native stream or request that was cancelled ends (`OnTerminal("Canceled")`,
  `End` after a cancel): what Cronet promises of `Cancel`. For the stream it is
  strong fairness, as the network thread may be in a completion callback in
  between.
* `BrowserDuplex`: an upload body that was closed returns from its Read; an open
  one need not. A goroutine that waits for a mutex gets it (`CloseReturns` takes
  the decoder's mutex, which readers take again and again: strong fairness, which
  Go's `sync.Mutex` grants through its starvation mode).
* `NaiveClient`: a connection closed by `CloseAllConnections` terminates, since
  its socket is gone; workers end when their context is cancelled.
* `BrowserConn`: the goroutines run, a request that was cancelled or has ended closes
  its body and gets done (shown for `StreamingRequest` and `BrowserDuplex`), and
  `post.wait` returns once its context is done. The peer need not answer.
* `SocketDialers`: the goroutines run, sing's copies return once their context is
  done or their sources have ended, and the engine tells of a socket it has
  closed. Peers need not end, nor the engine close anything.
* `DNSHijack`: the server runs, and the application's resolver, which is given the
  context, returns: a resolver that does not would hold `Close` for ever, since
  Close waits for the DNS servers.
* `PaddingConn`: the application reads again and again into buffers that are not
  empty, and not all of its calls time out (strong fairness).

### 3.2 What disagrees

* **A Write may return too early** (`conn_eof_write`). `OnReadCompleted` with no
  bytes terminates the connection while a write is outstanding; `writeDone` is
  closed, Write returns, the native side still holds the slice. The duplex
  transport says of the same native stream that the end of the response "is not
  a native terminal callback while upload remains open" and keeps its buffers. `BuffersOwned`
  states what does hold.
* **ReaderReplaceable is true too early** (`padding_replaceable`): it counts
  frames begun, not frames consumed. `padding` shows that a copier which also
  waits for the rest of the last frame is safe.
* **A timeout inside a frame desynchronises the stream** (`padding_timeouts`).
  A Read forgets the part of a header or of padding that it took; a Write counts
  a frame that was not sent. `padding` shows that timeouts elsewhere are
  harmless.
* **An upload's error overtakes the last bytes** (`browser_drain`). The goroutine
  in `post.wait` asks whether the upload was cancelled and publishes its error
  afterwards; the download may have ended in between or before the monitor
  stopped the upload, and Read looks at the published error before the bytes that
  wait. The package's README promises them first.
* **A destroyed status listener takes its successor's entry along**
  (`registry_status`). In the cgo build `Destroy` frees the native listener before
  it deletes the entry; the purego build, and `engine_cgo.go` with a comment that
  says why, do it the other way round. `bindings` shows that `Found` holds of all
  other registries.
* Without a run of its own: with a server name that ends in a dot,
  `wrapDNSResolverForServerRedirect` recognises no query, since it takes the dot from
  the query's name only (`matchesServerName` takes it from both); address queries
  then go to the resolver unchanged. `Hijacked` excepts that case
  (`setting.dotted`).
* Without a run of its own: `rewriteHTTPSAnswerNames` renames HTTPS records and not an
  alias in front of them, as `rewriteAddressAnswerNames` does, so that an answer for
  another ECH name through a CNAME does not follow from the name that the engine
  asked for. `Hijacked` excepts that case, too.
* Without a run of its own: `normalizeDNSResponse` writes the query's id into the
  message that the resolver returned; `DNSResolverFunc` says that it will, but a
  resolver that returns a message it also keeps must not be called by two servers
  at once.
* Without a run of its own: in stream-one a Write after a failed download reports
  `io.ErrClosedPipe` and not the failure. `stopUpload` (`browser_xhttp.go:718`) would
  close the batch with the reason, but it runs when the request is done, and the
  clean-up of the request has closed its body before that, which is the batch
  (`browser_xhttp_duplex.go:87`, `browser_xhttp.go:896`); the second close changes
  nothing, and `c.err` is set only once a Read has failed, which does return the
  failure. The same holds of the post of stream-up once it has ended. `Piped`
  in `ErrorsTellWhy` states both exceptions.
* Without a run of its own: `Close` of a `BidirectionalConn` that was not started
  neither destroys the stream nor stops a later `Start`. The client never does
  this.

## 4. Proofs

**BidirectionalConnProofs**, for any sets of readers and writers and either value
of the two header flags, from `ThreadsAssumption` and `FlagsAssumption`.
`IInv` is the inductive invariant (TLC agrees on the instance of `conn`).
`BuffersOwned` alone is not inductive: that a reader at `doneWait` may leave
depends on `terminate` having run after the native side returned its buffer, which depends on which process runs
`terminate` and what the network thread does meanwhile. So `IInv` adds
`Exclusion` (one call per direction past its semaphore), `Waits`, `Termination`
(one `terminate` at a time, `done` closed last), `Ended` (done if and only if
destroyed), `Lending` and `Offering`. The proof has one lemma per group of
actions and one step per conjunct they disturb. From it:
`TypeCorrect`, `BufferOwnership`, `CompletionMeetsOwner`, `HookOrder`, and
`ContractHolds`: every step of `BidirectionalConn` is a step of `NativeStream` or
leaves it unchanged.

**TransportProofs**, the sum that `transport` checks, from the assumptions of its
three parts: every step is one part's and leaves the others alone, so the
invariants of the parts together are inductive (`SumInvariance`), and what is
proved of a part holds of the run's own formulas (`TypesCorrect`).

* The executor, for any set of submitters and any bound on submissions:
  `OneRunner` (at most one drain loop, and one whenever `running` is set) and
  `SerialOrder` (the refinement of `SerialQueue`'s safety part).
* The upload provider, for any stops and sizes. `Ownership` gives each open body
  exactly one owner among the provider, the rewind and the stops; `Bookkeeping` says
  what the labels know of `reader` and `local`. Each hand-over (a stop that takes
  `reader`, a rewind that finds the provider closed after `GetBody`) moves one body
  from one owner to another, which is why `closes` never exceeds one. From it:
  `OneOwnerEach`, `BytesOfOneBody`, together `OneBodyAtATime`.

**NaiveClientProofs**, for any sets of goroutines that start, dial, kick and
close, and any numbers of engines and workers. `GoroutinesAssumption` says that a
goroutine which closes does nothing else and that the goroutines are finitely many,
which the counts need; one may start, dial and kick by turns. `EngineAlive`
is not inductive: that an engine is live at `admit` depends on the operation being
counted, on `Close` waiting for that count before `shutdown`, and on there being
one `Close` that shuts down. `IInv` therefore adds `Phase` and `Unique` (the labels
between two transitions of the state have one owner, and the state is the one
which that owner has set), `Progress` and `Roles` (where a goroutine is tells what
became of its connection), `Counted` (the wait groups are the cardinalities of
what they count), `Quiet` (after a wait its group is empty) and `EnginesOf` (which
engines live in which phase). From it: `EnginesAlive`, `CloseIsFinal`, and, as an
action property, `NoneAddedLate`.

**StreamingRequestProofs**, for any readers and closers and any size of a read,
from `ConstantsAssumption`. `ReadFlow` speaks of flags that the executor owns and
of functions that are only queued, so `IInv` says for each function how often it
may be queued and what that implies (a queued `OnReadCompleted` means that the
buffer is back and `readPending` set; a queued clean-up that the request is
terminal and no upload active). From it: `ReadsFlow`, and `ContractHolds`, the
refinement of `NativeRequest` step by step.

**BindingsProofs**, the sum that `bindings` checks, of the loader, the registries
and the RoundTripper (`SumInvariance`, `TypesCorrect`).

* The registries, for any numbers of users, addresses and handlers, for
  every registry of the table `Registries` that the constant `Kinds` selects
  (`ConstantsAssumption`). `IInv` adds `Distinct` (an object has one user and one
  address), `Owned` (who uses an object finds it under his address), `Doomed`
  (an object whose deletion was posted has no user), `Cleanups` (a callback that
  cleans up is the last of its object) and `Entered` (what the entries are during a
  callback and while a dialer is set). An address that is used again is the
  hard case: the proof needs that the entry of the former object has gone before
  the allocator can hand the address out. From it: `HandlersAreFound` and
  `NoneRetained`. `Found` excepts the status listeners of the cgo build, of which
  `registry_status` shows that it is false.
* The loader, for any goroutines and on each machine of `Situations`. That no wrapper
  calls a variable that is nil joins two things. One is about tables: on each
  platform the list of symbols that is registered has every symbol that some
  wrapper calls without a look at the variable (`Lists`, `Wrappers`,
  `RequiredSymbols`); the provers go through both lists and all wrappers. The other
  is about the order of steps: one goroutine loads (`OneLoads`), it has registered
  what lies before its position, and nobody has an object before it has come to the
  end (`Registers`), and a wrapper calls only after the answer, or with an object
  (`Demands`). From it: `NoneNil`.
* The RoundTripper, whose invariant comes from an instance of `RoundTripperProofs`
  (`SameTrip`): `EngineOutlives`, `CallersSettle`.

**BrowserDuplexProofs**, for any readers and closers and any size of a read, with
and without framing, from `ConstantsAssumption`. `BuffersExclusive` follows from
what `Buffers` says of lent buffers (each belongs to the pending operation of its
direction and is back when its completion is called back) and `Life` of the stream
(it runs only until the terminal callback, and `terminal` is set exactly when it
was destroyed). That no read follows the end of the response needs `Response`: an
end whose callback has not run yet still keeps `readPending`, and afterwards the
request has failed. From it: `BuffersAreExclusive`, `ReadsFlow`, and
`ContractHolds`, the refinement of `NativeStream`.

**RoundTripperProofs**, for any number of calls and every setup
(`SetupsAssumption`). The finalizer's guard is about references, `Outlives` about
native requests: `Reaching` derives from what refers to what that an unreachable
RoundTripper has no call under way, no request that is not cleaned up and no monitor
(`Unreferenced`), and `NotReaching` the converse. `Finalizer` in `IInv` says that this
is final and that until then whoever is past `initialize` finds engine and executor;
`Calls` and `Requests` relate a call to its request. Since a step is one call's or
changes only what they share, the invariant is proved call by call (`LocalKeeps`,
`SharedKeeps`). From it: `EngineOutlivesRequests` (`Outlives`) and `CallsSettle`
(`Settled`), which `BindingsProofs` takes over.

**BrowserConnProofs**, for any `Scenarios` (sets of actors in any of the three
modes), any batch, limit and sizes, from `ConstantsAssumption`: here the run can
only take actors alone or in some pairs, with one slot and a batch of one byte, and the
proof has all of them at once. None of the properties is inductive.

* That `Close` leaves nothing depends on the wait of its last step, on `Ending` (the
  stream of a done request has left its uploader) and on `Flight` (an uploader is
  gone only after the goroutines of its packets, and a waiter only after the request).
* `NoGap` is about packets that were posted, and an uploader holds one with a number
  that is not posted yet, while more bytes arrive in the batch. `Numbering` says up to
  which byte the numbered packets reach at each of its labels (`Reaches`), and that
  there are never more packets than bytes.
* The limit of packets in flight is a cardinality of goroutines: `Flight` keeps the
  slot that `TakeSlot` found until `Posted` fills it, since nobody else starts a packet.
* `ErrorsTellWhy` speaks of the end of a chain: an error passes from the request or
  the context through `closeErr` or `c.err` and a call that has failed to the result.
  `Reasons` says at each link why it is what it is (`Real` of an end or a failure,
  `Piped` of a batch closed without a reason, with its exception for stream-one), and
  `Cancels` who may have cancelled. A failed upload also cancels the download, and that
  it has published its error and closed the batch before it does so (`Failing`) is why
  neither call takes this for a cancellation. `Birth` says that all this begins with
  the dial.

From it: `TypeCorrect`, `CloseLeaves`, `Gapless`, `ErrorsExplained`. Each action has a
lemma, which says what it leaves alone; the parts of `IInv` about that follow from the
`...Same` lemmas, and the rest is one step for each part.

In all of them there is a lemma for each action (`...Keeps`), and the effect of a
section that several actions run (`finishLocked`, `cancelLocked`,
`startReadLocked`; entering and dropping an entry; `submit`) is a lemma that these
cite. TLC has checked each `IInv` on the instance of its run.

Only model-checked:

* all liveness properties: fairness and `ENABLED` are beyond the prover;
* `PaddingConn` and `GrpcFraming`: their properties decode the wire by recursion
  over data, which calls for an induction that the installed provers do not support;
* `SocketDialers` and `DNSHijack`: they have no parameter that a proof would
  generalise, and TLC explores all platforms, dialers and configurations.

## 5. Not modelled

* Strings: the padding header, session, sequence and padding placement of XHTTP,
  URL and header construction; letters' case, times to live and ALPN of DNS
  messages.
* The native library itself, beyond the contracts above; the wrappers that forward
  a value (parameters, metrics, headers, dates), the table of error codes, and the
  build tools: they keep no state, and a model would repeat them.
* 32-bit builds of the loader: there the wrappers of the network thread's priority
  panic (`api_purego_float_stub.go`), and what purego makes of registering a function
  with float parameters is purego's own.
* The CONNECT handshake of `naiveConn`, isolation keys and the choice of an engine.
* Several connections of one browser client at once: they share `connections`, which
  `BrowserConn` has with one member, and nothing else; with two the state space is
  out of reach.

## 6. Plan

What could come next: two connections of one browser client at once, which needs a
model of `connections` smaller than `BrowserConn`; the choice of an engine by
isolation key.
