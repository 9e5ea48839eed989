# cpp_proxy in TLA+

`cpp_proxy` is a TCP proxy in C++20 coroutines. It accepts clients, connects
each of them to a server and relays both directions. What it relays it shows to
a *business process*, a separate program behind a local socket, which answers
how much of the data it has handled and what to do with it. When the process is
not there, or answers too late, the proxy goes on without it ("bypass").

This directory holds a model of that program: the modules, the TLC
configurations that check them, and proofs that TLAPS checks. File and line
numbers are those of `src/src/cpp_proxy/session.hpp` unless another file is
named.

## The system

| part | state | operations | interacts with |
| --- | --- | --- | --- |
| proxy session, `cpp_proxy/session.hpp`, protocol in `local_tcp.hpp` | three sockets, the flags `has_closed_`, `eof_`, `bypass_`, `process_connecting_`, two deques of stored packets with two counters of handled bytes, one shared timer | coroutines `setup_proxy`, `client_request`, `server_response`, `connect_process`, `process_2proxy_2client_or_2server`, `detect_process_timeout`, and the functions they await | client and server (TCP), process (local socket), executor (its handlers), configuration (which server) |
| business process, `process/process.cpp` | per connection: socket, two counters, heartbeat timer | `setup` (read, answer), `heartbeat`, `listener` | proxy session |
| executor, `io_context_pool.hpp` over asio | per `io_context`: queue of ready handlers, waiting operations; the pool's round-robin index | run a handler, complete, cancel, close; `get_executor`, `start`, `stop` | everything |
| data block, `cpp_proxy/data_block.hpp` | capacity and used bytes of a 2 MB buffer | `get_available`, `append`, `update_available` | the packets of a session |
| configuration, `cpp_proxy/config.hpp` | the set of listening ports with their servers, added and deleted ports | `parse_conf`, `get_proxy_server` | listener, sessions |
| listener and main, `cpp_proxy/cpp_proxy.cpp` | acceptors by port, time stamp of the file | `listener`, `handle_config_change`, `main` | configuration, pool, sessions |
| logging, `easylog.hpp` | modules, sinks, flush thread | registration, levels, periodic flush | everything |
| load balancing, `cpp_proxy/load_balance.hpp` | none: an empty struct and an unused enum | none | nothing |
| vendored libraries, `3party/` | | asio, spdlog, nlohmann json | everything |

**What makes each part correct, and what is hard about it.**

* *Proxy session.* Every direction is an ordered relay: nothing lost, nothing
  twice, nothing out of order, until the session closes. Only what the process
  has handled is forwarded on its behalf. The process may crash, hang or come
  back at any time without effect on the relay (`src/README.md:3`). A closed
  session ends and leaves no descriptor behind. This is the hard part: up to
  six kinds of coroutines share the deques, the flags and the sockets, and each
  `co_await` is a point at which all the others may run. Nothing is locked, as
  a session lives on one thread; what a coroutine knew before it suspended may
  be wrong when it goes on. Three coroutines can start a reconnect; several
  generations of readers and detectors can exist at once; a timeout can race
  with the loss it is meant to detect.
* *Business process.* Each request is answered in order with a running total;
  heartbeats go out between answers on the same socket (`process.cpp:87-95`
  against `148-165`); the end of the stream must end the session, although the
  code handles one more message after it (`process.cpp:100-143`).
* *Local socket.* Three coroutines of the proxy write to it, and a write that
  does not fit goes out in parts.
* *Executor and pool.* Handlers of one context run one at a time and in the
  order they became ready; all threads are joined before what they use is
  destroyed.
* *Data block.* Packets stay inside their block and apart from each other,
  although the room for a packet is taken before its length is known.
* *Configuration and listener.* After a reload the acceptors are those of the
  file; a session that was accepted looks its server up on another thread,
  later. The file may be missing, half written or replaced while it is read;
  a port may be taken; accepts may fail for want of descriptors.
* *Main and logging.* A signal ends the process whatever the threads are doing,
  and the statics go last.

`PROJECT.json` lists the hazards one by one, with the line at which each bites
and the property that watches it.

## The modules

```
Executor -> Session -> ProxySession -> ProxyRelay --(OrderedRelay)----------------+
               |            |                                                     |
          SessionFacts -> ProxySession_proof -> Detector_proof -> FaultFree_proof -> Relay_proof

ProcessSession -+
DataBlock ------+-> LocalLink -> LocalLink_proof -> LinkStream_proof

IoContextPool -> ListenerConfig -+
FlushThread ---------------------+-> ProxyMain -> ProxyMain_proof
```

There are three compositions, because they meet in little: a session of the
proxy with everything around it (`ProxySession`, at the grain of whole
messages), the local socket at the grain of what one system call takes
(`LocalLink`), and the process of the proxy without the inside of its sessions
(`ProxyMain`).

**`Executor`** is the ground the coroutines stand on: the FIFO queue of ready
handlers of one `io_context` (`runq`), what waits on each direction of each
socket and on each timer (`wait`), the state of the descriptors (`sock`), where
each coroutine is suspended (`pc`) and how its operation ended (`res`). All of
it is in one session record, and each operator maps a record to a record:
`Await`, `Complete`, `Cancel`, `CloseSock` and so on. The order in which asio
queues cancelled operations is kept, because the program depends on it: when
`connect_process` cancels the timer, the old detector is queued, and must be
gone by the time the new one starts. Coroutines that can exist several times
(`connect_process`, the reader, the detector) take their frames from finite
pools.

**`Session`** has the members of `session` (`SessionState`) and one operator per
piece of its code between two suspensions: `GraceClose`, `ConnectProcess`,
`TryConnect`, `Connected`, `Detect`, `NextRound` (the head of both loops),
`StoreAndSend`, `Flush`, `Flushed`, `SendFailed`, `ReadFailed`, `Transfer`
(`prepare_transfer_packet`), `Cleared` (`clear_handled_packet`). A deque is one
sequence of numbered bytes, the last one of each packet marked.

**`ProxySession`** is the state machine. An action of `Handler` is one run of a
coroutine: it takes the handler at the head of the queue, does all that the
code does up to the next suspension (including the coroutines it spawns, which
run in the same step as `co_spawn` dispatches on the current executor), and
suspends, returns or closes. The other actions are what happens around the
session: peers send, close or reset; operations complete; timers fire; the
process answers, beats, dies, hangs, starts again.

| code | actions |
| --- | --- |
| `setup_proxy` 106-142 | `Resolved`, `SetupFails`, `Dialed` |
| `client_request` 519-557, `server_response` 586-633 with the functions they await | `ReadDirect`, `ReadForProcess`, `ReadEof`, `Written`, `LoopFails`, `Notified`, `ProcessWriteFails`, `StoredWritten` |
| `connect_process` 184-227 with `four_tuple_2process` | `ProcessConnected`, `ConnectFails`, `ConnectAgain`, `Introduced`, `NotIntroduced` |
| `process_2proxy_2client_or_2server` 436-488, `process_2proxy` 418-434 | `Heartbeat`, `HeadRead`, `BodyRead`, `NewWritten`, `HandledWritten`, `ReaderFails`, `ProcessReadFails`, `RequestsFlushed`, `ResponsesFlushed` |
| `detect_process_timeout` 144-160 | `Rearm`, `TimedOut` |
| `process.cpp` as a session sees it | `ProcessTakes`, `ProcessGoesOn`, `ProcessBeats`, `ProcessDies`, `ProcessHangs`, `ProcessStarts` |

The process of the repository always passes whole packets. The protocol
(`local_tcp.hpp:31-50`) allows more, and the proxy has code for it: to block, to
create data, to acknowledge a part of a packet. The constant `Verdicts` says
which of these the process of a run uses.

**`OrderedRelay`** is the abstract specification of one direction: bytes come out
in the order they went in, none twice, none left out, and all of them in the end
unless the connection closes. **`ProxyRelay`** instantiates it for both
directions of a session, with the bytes delivered to the peer as the abstract
output, minus the data the process created.

**`ProcessSession`** is a session of `process.cpp`: the coroutines `setup` and
`heartbeat`, what each of them waits for, `eof_`, `has_closed_`, the two
counters, the head and the body that were read last. One operator per piece of
code between two suspensions, as in `Session`: `GraceClose`, `NextMessage`,
`NextBeat`, `Begin` (a head is there), `Handle` (the `switch`).

**`DataBlock`** is the memory of one direction: blocks, the use of the last one,
and the places of the stored packets. **`LocalLink`** puts both together with the
writers of the proxy: `Forward` (`inner_client_or_server_2proxy_2process`),
`Notify` (the head without data of `server_response`), the four tuple of
`connect_process`, and the reader that forgets what was acknowledged.

| code | actions |
| --- | --- |
| `setup`, `process.cpp` 98-198 | `HeadRead`, `HeadMissing`, `BodyRead`, `BodyMissing`, `AnswerWritten`, `SetupFails` |
| `heartbeat`, `process.cpp` 75-96 | `BeatDue`, `BeatDone`, `BeatFails` |
| `async_read`, `async_write` and the local socket | `Receive`, `StreamEnds`, `Transmit`, `BeatTimer`, `SocketTakes`, `WriteGoesOn` |
| the proxy | `Forward`, `Notify`, `ProxyReads`, `ProxyCloses` |

**`IoContextPool`** has the worker threads with the sessions that were posted to
them, **`FlushThread`** the flush thread of `easylog.hpp`, **`ListenerConfig`** the
configuration, the listeners and the monitor, and **`ProxyMain`** all threads
together, the signals and the end of the process in the order in which the
destructors run.

| code | actions |
| --- | --- |
| `listener`, `cpp_proxy.cpp` 18-52 | `ListenerStarts`, `Accepted`, `NotAccepted` |
| `handle_config_change` 55-95, `parse_conf` (`config.hpp` 92-152) | `MonitorStarts`, `ChangeSeen`, `SizeTaken`, `ParseConf`, `Swap`, `Apply` |
| `get_proxy_server` (`config.hpp` 174-181) on a worker, `session.hpp` 106-111 | `Lookup` |
| `main` 111-142 and the destructors | `SignalHandled`, `Disarmed`, `PoolStops`, `WorkerTakes`, `WorkerReturns`, `MainReturns`, `StaticsGo`, `FlusherStops`, `FlusherNotified`, `Exits` |
| `easylog.hpp` 90-114 | `FlushBlocks`, `FlushWakes`, `Flushes`, `FlushFreed` |
| the surroundings | `ClientConnects`, `AcceptFails`, `SaveBegins`, `Saved`, `SignalArrives`, `Killed` |

A worker that reads through a null pointer does not die: `main` has given
SIGSEGV to asio, whose handler writes to a pipe and returns to the instruction
that faulted. So the thread "spins", and holds the lock of the configuration if
it faulted under it, until the main thread takes the signal from the pipe and
ends the proxy, or for ever if the main thread itself waits for that lock or
faults. `IoContextPool` and `ProxyMain` model this; after the signals are
disarmed a fault kills the process.

**`SessionFacts`**, **`ProxySession_proof`**, **`Detector_proof`**,
**`FaultFree_proof`**, **`Relay_proof`**, **`LocalLink_proof`**,
**`LinkStream_proof`** and **`ProxyMain_proof`** hold the proofs (below).

### Abstractions

* A byte is its number in the stream of its sender, 0 for data the process
  created. Contents, addresses, log lines and the JSON of the four tuple are
  left out.
* In `ProxySession` a write is done as a whole or not at all, and a message is
  taken from the local socket as a whole. `LocalLink` splits the writes, but for
  heads and answers, which are units there.
* A packet that is trimmed to length zero leaves no trace in the deque.
* A write that has started writes the bytes it started with, whatever becomes
  of the deque; that the deque holds them until then is a property of its own
  (`BuffersOutliveWrites`).
* Answers that are still in the local socket when the process dies are read
  before the error, as the kernel does for a stream that was closed in order.
* Undefined behaviour (an element popped from an empty deque, a buffer of
  negative length, a head read where a body is due) sets `broken` and ends the
  session, as nothing can be said of what follows.
* At most one unread heartbeat is in the local socket, and `LocalBuf` messages
  fit into it towards the process. Towards the proxy it is unbounded; the proxy
  never waits for room there.
* `DetectTimer` is the ten-second timeout when no live process serves the
  session; one that fires although there is a live process (late heartbeat,
  blocked reader) is the fault `FalseTimeout`.
* In `LocalLink` a unit of the stream is a head or a piece of a body. The
  process runs its ready handlers in any order. Where it takes something else
  for a head, or uses a head that was never read, it may see any type, but of
  the lengths only those in `GhostLens`, one that is longer than what follows.
* In `ListenerConfig` a configuration is a set of ports. The main thread takes
  its ready handlers in any order. The handler of a change is cut into
  `SizeTaken`, `ParseConf`, `Swap` and `Apply`, because the file may change and
  a worker may look up in between; no other handler of the main thread runs
  until it is through (`MainFree`). The listeners that `Apply` opens are opened
  one after the other without a suspension, in an order that makes no
  difference.
* Every change of the file has its own time stamp; the monitor looks once in
  three seconds, and two changes within the resolution of the clock are not
  told apart in either.
* A connection goes to any context instead of the next one in turn: the
  sessions of the pool do not meet, so which of them share a thread matters to
  none of the properties.
* The handlers that run on a worker after the lookup are those of
  `ProxySession` and are left out of `ProxyMain`. A worker takes the handler that
  looks up (`WorkerTakes`) and runs it (`Lookup`) in two steps: stopping a context
  does not stop a handler it has begun. That `stop` stops one context after the
  other makes no difference to the workers, so `StopPool` stops them all.
* In `LocalLink` packets are forgotten as wholes. That `clear_handled_packet`
  also trims one, which only makes it shorter where it lies, is left out.

## The runs

Constants of the session: `MaxReq`, `MaxRes` bytes per direction; `MaxFaults`
faults (a crash, a hang, a false timeout); `Closings`, how peers may close;
`Verdicts`; `LocalBuf`; the frame pools.

| run | constants | shows |
| --- | --- | --- |
| `answers` | 4 + 1 bytes, no fault, every verdict, peers close | with a process that works, whatever it answers: what is forwarded on its answer was acknowledged, until an answer ends inside a packet; no two writes to a peer overlap; what is being written is still stored; the packet arithmetic stays in bounds; the state has its type |
| `relay` | 2 + 2 bytes, no fault, peers close, process inspects both directions | both directions implement `OrderedRelay`, liveness included, across the switch from bypass to the process |
| `recovery` | 2 + 2 bytes, 1 fault, response bypass (the default) | responses are an ordered, complete relay whatever happens to the process |
| `progress` | 2 bytes of responses through the process, 1 fault, peers close | a closed session ends: each coroutine is woken and returns; a session that bypasses the process goes back to it |
| `lifecycle` | 2 + 1 bytes, 1 fault, peers reset | one `connect_process` tries at a time and the flag tells so; one detector at a time; a closed session gets no descriptor again |
| `local_link` | 2 packets of requests, 1 message of responses, a socket smaller than a packet | packets lie apart in their blocks; the process is handed exactly what was sent and acknowledges no more, as long as messages do not mix; one message at most after the end of the stream; the session of the process always ends; everything sent is acknowledged |
| `daemon` | 2 workers, 2 ports (one that may not be bound and has no servers), 2 changes of the file, 1 client | the acceptors are those of the configuration; a lookup faults for two reasons only, also in a handler that is overtaken by the end of the proxy; changes come into force; a signal ends the process |
| `requests_lost`, `undefined`, `two_readers` | 3 bytes of requests, 1 fault | each ends in a counterexample: see Findings |
| `garbled` | response bypass on; a packet in two chunks and one notification | a counterexample: see Findings |
| `reload_ends` | 1 worker, 1 port, 1 change, 1 client | a counterexample: see Findings |

**Why the bounds are enough for the cases that matter.** A session starts in
bypass and has a read pending when it leaves bypass, so the first byte of each
direction always goes out directly: one byte exercises bypass only, the second
one reaches the process. Two packets in a deque need three bytes, and four
bytes are needed for a packet that follows an acknowledged part. One fault is
enough for each race between the loss of the process and a step of the session.
(TLC finds no error either in `recovery` with two faults and 1 + 2 bytes, nor in
`BypassEnds` with 2 + 2 bytes and one fault or 2 + 1 bytes and two, nor in
`relay` with 3 + 1 bytes and partial answers; the runs are kept to some two
minutes each.) Frames: a pool that ran dry would leave a
spawning handler disabled, with the queue stuck behind it. TLC reports that as
a deadlock in the runs that check for it, which have the same pools for the same
number of faults as `recovery`; so the pools of the passing runs are large
enough. `LocalBuf = 1` is the smallest buffer and makes writers wait most often.

In `local_link` a socket of two units cuts a message of three into parts, two
such packets fill a block of six exactly to its end, and `DownCap = 1` makes
answers and heartbeats wait for each other. A block that is replaced while old
packets lie in it takes a third packet, which is beyond these bounds: there
`PacketsFit` rests on the theorem `PacketsAlwaysFit`, which has every number of
packets and blocks. Whether messages mix is left open: the properties speak of the
stream as far as it is `Framed`, and TLC reaches both kinds of streams.

In `daemon` two changes are what it takes to remove a port and add it again, or
to be caught in the middle of a save that is completed later; the second port
stands for every way in which a listener or an entry can be bad. One client is
enough for each race of a lookup with a reload or with the end of the proxy; with
two workers one can be in a handler, or fault in it, while the other is joined.

Deadlock is checked in all runs but those in which the peers never close
(`recovery` and three of the violations): there a session with nothing left to
do stops, and rightly so. Elsewhere the only final states allowed are those of
`Terminated`: every coroutine has returned, or the proxy has exited, was killed
or is stuck for ever (`MainStuck`).

No state constraint, view or symmetry is used. In the pools symmetry would be
sound for the invariants, but not with `CHOOSE` in `Frame`.

### Fairness

`FairSpec` adds to `Spec`:

* the thread of the `io_context` runs ready handlers. It is written
  `[]<>(ses.runq = <<>>) \/ []<><<Handler>>_vars`, the weak fairness of
  `Handler` with its enabling condition spelled out: some handler is enabled
  exactly when the queue is not empty;
* reads from the process complete when there is something to read;
* a connect to the process completes and the retry timer fires
  (`connect_process` sleeps, then tries again, without end);
* the kernel completes what can be completed, peers take what they are sent or
  reset, the timeout fires when no live process is there, a process that is not
  stuck takes its input and answers, one that died is started again.

Nobody has to send, to close or to fail, and heartbeats may not come. These are
the guarantees of the scheduler of asio, of TCP and of an operator that
restarts the process; the last one is used by `BypassEnds` and by the
directions that go through the process. Actions that can happen only finitely
often are put under one weak-fairness conjunct, which for them says the same as
one conjunct each and keeps the liveness check small.

In `LocalLink` both programs run what is ready, the sockets take and give what
they can, the heartbeat timer fires and the reader of the proxy reads. The
proxy need not send anything, nor close.

In `ProxyMain` every thread runs. The queue of the main thread is served in
order, so the monitor, whose timer fires every three seconds, and a signal have
weak fairness of their own beside the listeners: without it accepts that fail
without pause could keep them waiting, which asio's scheduler does not allow.
Clients, files, failing accepts and signals need not happen.

## Findings

Where the code does not do what the repository says, a run shows it:

1. `requests_lost` (290): the reader flushes the stored requests while
   `client_request` stores another one; `clear()` after the write drops it.
   The failed write to the process then finds nothing to flush. A crash or a
   timeout of the process costs request bytes, in spite of `src/README.md:3`.
2. `undefined` (255): the reader forwards an answer left over from a dead
   process while `client_request` flushes the same deque; `pop_front` then runs
   on an empty deque, and the server got the packet twice. In the same
   configuration two coroutines flush the same packets at once, so
   `BuffersOutliveWrites` and `OneWriterPerPeer` are claimed without faults only.
3. `two_readers` (222): a reader that holds an answer of the old connection
   survives the reconnect and then reads the new one, next to its reader.
4. `garbled` (605): by default (`response_bypass`, which this run fixes)
   `server_response` writes a notification to the process while
   `client_request` may be in the middle of a packet that does not fit into the
   socket. The process takes the notification for data and the next piece of
   the packet for a head, and from there on the connection makes no sense. The
   same can happen inside the four tuple, as `bypass_` is cleared before it is
   written (213).
5. `reload_ends` (111): a client that was accepted before its port was removed
   from the configuration makes the worker read through a null pointer; asio
   takes the SIGSEGV, `main` takes it for a request to stop, and the proxy ends
   for everybody. `FaultsOnlyOnRemoval` says that this and an entry without
   servers are the only ways to get there.

Findings 1 to 3 need a fault of the process, 4 and 5 need nothing but timing.

Three more observations have no run of their own:

* The counter of handled bytes is not advanced by the part of a packet that is
  forwarded (238-250), so after an answer that ends inside a packet bytes go out
  that the process has not handled yet. The process of the repository never
  answers so. `OnlyHandledForwarded` stops at such an answer; without its
  conjunct `~link.split[d]` TLC finds the case in `answers`.
* A timeout that expires just as the reader notices the loss closes the *new*
  socket (157); the four tuple then fails, and the session stays without a
  reader and a detector until the next request is written.
* A configuration file that is missing or incomplete at the moment the monitor
  looks ends the monitor for good; one that goes while it is being read, or an
  entry without servers that is looked up just before a reload, leaves the main
  thread stuck so that not even a signal ends the proxy. `Reloads` and `Ends`
  have these as their only exceptions (`"dead"`, `MainStuck`).

## The proofs

**Sessions.** `ProxySession_proof` proves, for every value of the constants that satisfies the
three assumptions `FramesAreDistinct`, `ResponseBypassIsBoolean` and
`BoundsAreNumbers` (frame names are distinct, a flag is a Boolean, bounds are
numbers), and so for any number of bytes, faults and coroutine frames:

* `TypeCorrect`: `Spec => []TypeOK`;
* `AtMostOneConnecting`: `Spec => []OneConnecting`;
* `ClosedStaysShut`: `Spec => NothingReopens`;
* `Invariance`: `Spec => []Inv`, from which the others follow.

None of the three properties is inductive. `Inv` is `Sane(ses) /\ SetupAlone /\
Surroundings`, where `Sane` is the conjunction of

* `Waited`: on each channel only those coroutines wait that the code makes wait
  there. Without it, a completion on the write side of a socket could wake a
  coroutine for which there is no data;
* `Ended`: a stored deque ends where a packet ends. `prepare_transfer_packet`
  relies on it: a partly covered packet ends inside the deque, so the part taken
  from it is there;
* `Shut`: in a closed session no socket has a descriptor and nothing waits on
  one. This is what makes `NothingReopens` inductive: no connect can complete
  after `grace_close`, and `TryConnect` looks at the flag before it opens;
* `OneTrying`: the flag `process_connecting_` stands for exactly one coroutine
  that connects or sleeps, until the session is closed;
* `Heads`: a reader past the switch on the type holds an answer for a
  direction, never a heartbeat.

`SetupAlone` says that while `setup_proxy` runs nothing else does, so that
`SetupFails` may throw the session away and `Dialed` starts from idle frames.
`Surroundings` has the types of everything outside the session.

`SessionFacts` shows operator by operator that `Sane` is preserved: first what
the executor does, then the pieces of the coroutines, each from the lemmas of
the pieces it is composed of. `Keeps` collects what no coroutine but
`setup_proxy` undoes. `ProxySession_proof` then has one lemma per group of
actions, with one step per action. The invariant was first checked with TLC on
the constants of `answers` and on a configuration with a fault.

**The detector.** `Detector_proof` proves `DetectorAlone`,
`Spec => []OneDetector`, for any number of retries and frames. It is the
property of the session that rests on the order in which handlers run. The
detector closes the process socket of its session and rearms a timer that all
detectors share, so the next one must not start before the last one has ended;
but no code waits for that. `connect_process` cancels the timer when it takes up
a new attempt (`session.hpp:199`) and closes the socket on which an earlier
four tuple may still be written, and both only *queue* what they wake. The
invariant adds two parts to `Inv`:

* `Queued`: every suspended coroutine is at exactly one place, in the ready
  queue with the result of its operation or on one channel without one. So a
  detector that was cancelled is in the queue, and one that is in the queue is
  not rearmed by anybody else;
* `Guarded`: at most one coroutine is `Live`, the detector or the
  `connect_process` that is about to start one. While another connection is
  tried it has its result, and it stands in the queue before the news that this
  connection has come about. As the queue is first in, first out, it has
  returned before the new four tuple is sent.

Both hold only between two handlers as they are stated for the state. Inside a
handler the coroutines that are running are neither queued nor waiting, so both
take the set of these as a parameter, and the pieces of the coroutines (the
lemmas from `AwaitOrderly` to `ClearedOrderly`) hand it on; a handler begins
with the coroutine it took from the queue in that set and ends with none. The
two parts were checked with TLC on the constants of `lifecycle`.

**Sessions without faults.** `FaultFree_proof` proves what `answers` checks of a
session whose process neither crashes nor hangs and is not given up although it
works, for all other constants: any number of bytes, any closing of the peers,
any verdicts, either setting of the response bypass:

* `WritersAlone`: `MaxFaults = 0` implies `Spec => []OneWriterPerPeer`;
* `BuffersStay`: `MaxFaults = 0` implies `Spec => []BuffersOutliveWrites`;
* `NothingUndefined`: `MaxFaults = 0` implies `Spec => []NoUndefinedBehaviour`.

The premise is needed: with one fault the findings above refute all three. It is
no assumption on a constant of the module but a hypothesis of the theorems, and
`answers` has it. What they need is the whole protocol between session and
process as one invariant, `Inv /\ Order /\ Free`. The parts of `Free` are

* `Placed`: a coroutine waits on the channel its place in the code says (`Spot`).
  So whoever waits to write to a peer is a loop that writes there or a reader
  that holds an answer for that direction;
* `Single`: one `connect_process` or one reader, never both and never two. A
  session connects until it succeeds and then once;
* `Steady`, coroutine by coroutine in `Fit`: the connection to the process is
  there exactly when it should be, nothing stored is ever flushed, no read from
  or write to the process fails before the session is closed, no coroutine that
  belongs to the process mode runs while the session is in bypass;
* `Linked`: the process has its end of the connection, and a new one starts empty;
* `Diverted`: a direction of which anything is stored, under way to the process,
  seen by it or answered has its loop in the process mode. That is why the loop
  and the reader never write to the same peer, and it has to be said of every
  place where the data may be (`Downstream`), as each hands it on to the next;
* `Paired`: heads and bodies alternate in what the process sends, and the reader
  waits for a body exactly after a head that announces one;
* `Totals`: the totals of a direction grow on their way back, none is beyond what
  the process has seen, and none is behind what the session has handled;
* `Behind` and `Prefix`: the same for the answer in the reader's hands, and what
  it has taken for it is still at the front of the deque, whatever the loop
  appends in the meantime (`First`).

The proof has two layers. The first says what an operator of `Executor` and
`Session` does to a session as far as `Free` can tell: `Went(st, u, X)` when only
the coroutines of `X` have moved. The second has one lemma per action or group
of actions that look alike (`LoopFree`, `StoreFree`, ..., `TransferFree`,
`HandledFree`), and `NextFree` puts them together. The arithmetic of
`prepare_transfer_packet` and `clear_handled_packet` is about counting marked
bytes; `LastOne` finds the last covered packet from the well-foundedness of `<`,
`UptoLast`, `TakesFirst` and `ClearsFirst` do the rest. `Free` was checked with
TLC before: with 2 + 2 bytes and either setting of the response bypass, with
3 + 0 bytes, and on the first five million states of `answers`.

**The relays.** `Relay_proof` proves the safety half of what `relay` checks, the
part of `OrderedRelay` without its fairness (`Safe`), for all other constants:

* `RequestsInOrder`: `MaxFaults = 0` implies `Spec => Requests!Safe`;
* `ResponsesInOrder`: `MaxFaults = 0` implies `Spec => Responses!Safe`.

Each step of a session delivers the next bytes of a direction, or lets its
sender send one more, or closes, or is a stutter of that relay; in particular
nothing comes out of a direction twice or is left out at the switch from bypass
to the process. The invariant `Relaying` adds to `Free` where each byte is.
`Ordered` says that what was read and not yet dropped is, in this order and
without a gap, the deque and then the data in the hands of the loop, and that
what was delivered is all before that (`Past`), or reaches as far as the reader
has just written and not yet dropped (`Done`). That the session writes to a peer
from one place at a time, and that what the reader has taken is the front of
the deque, is what `Free` has. The handlers move data in three ways only
(`HandlerMoves`): the loop stores what it has read (`Stores`), the reader takes
what an answer covers (`TakesUp`), and drops it (`Clears`). `OfPeers` keeps the
bytes of the peers of what was delivered; it is a recursive function, so that it
can be proved about, and `OfPeersMore` is an induction over it on the length of
what is added. `Relaying` was checked with TLC on sessions with up to 4 + 1
bytes and either setting of the response bypass.

**What was vetted.** `Relay_proof` proves also `HandledOnly`: `MaxFaults = 0` implies
`Spec => []OnlyHandledForwarded`. The answer the reader acts on carries no bytes,
only a total, and the proxy forwards the front of its deque. That these are the
bytes the process has looked at rests on both ends counting the same stream, over
two channels and a deque that move independently. `Vetting` says so of every
direction in the process mode of an open session, until an answer ends inside a
packet (`split`), as a journey that begins after some byte `s` of the stream:

* `Based`: `s` and what was handled since are the bytes that are past, or, while
  the reader has taken packets for an answer, those it has taken as well, and
  that answer passes;
* `OnTheWay`: what the process has seen, the messages on their way to it and what
  the loop is writing there are the stream from `s` on, without a gap, up to the
  end of the deque, cut between packets (`at`);
* `Answers`: each total on its way back, or in the reader's hands, ends with a
  packet; and unless an answer that blocks is before it, all bytes up to it were
  vetted (`Covers`). The exception is needed: bytes that were blocked are
  acknowledged too, and a later answer that passes covers them by its total, but
  the session closes before it acts on that one.

A reader with an answer that passes has taken all bytes that were not handled up to
its total (`TakesWhole`), and `handled` counts those already, so with `Behind` what
it holds lies within what `Covers` says is vetted. A loop that is not in the process
mode has nothing under way (`Diverted`), so a journey may begin with its next byte
(`FreshTravels`); each handler and each step outside then has its lemma
(`StoresTravels`, `TakesUpTravels`, `ClearsTravels`, `WrittenTravels`,
`ReadTravels`, `ProceedsTravels`), and where a step leaves a direction alone
`Level` says so. `Vetting` was checked with TLC on sessions with 4 + 0, 3 + 1 and
2 + 2 bytes, every verdict and either setting of the response bypass.

**Packets.** `LocalLink_proof` proves `PacketsAlwaysFit`, `Spec => []PacketsFit`,
for every block size, reserve and head with `HeadLen < Reserve <= BlockSize`
(`SizesFit`), any lengths of reads within `ReadLimit` and any answers. `Fits`
says nothing of the order of the blocks, so a new block could be one that an
old packet lies in; `IInv` adds `Ordered`: packets lie in blocks up to the
current one. The proof follows the three operators that change the memory
(`PreparedFits`, `StoredFits`, `ForgottenFits`).

**The stream.** `LinkStream_proof` proves for the same constants, and for every
number and length of messages, size of the socket buffers and way the writes
are cut into chunks,

* `MessagesInOrder`: `Spec => []HandledAsSent`;
* `AnswersCountWhatWasSent`: `Spec => []AcknowledgesOnlySent`;
* `LastMessageOnce`: `Spec => []OneAfterEof`;
* `LinkTypes`: `Spec => []TypeOK`.

The invariant is `StreamInv`. `Outgoing` says which message each writer of the
proxy has in work and that those not begun yet are queued in their order;
`OnWire` says that heads are on the stream in the order of their messages, each
once, and every unit of a body behind its head, even where messages are mixed.
Neither says anything of the process; `InStep` does: as long as what was read is
framed and nothing failed, the head and the body it holds are those of the
message after the ones it has handled. `Counted` relates its two totals to what
it has read, and `LastRound` has the flag `eof_` and what is still done once it
is up. Units may be mixed behind the point up to which the process has read, so
`Framed(taken)` is a premise that each read has to pass on (`FramedPrefix`,
`NextHead`). That the units behind a head are those of its body, one by one
(`FramedRun`), needs an induction. The theorem of the library for it takes an operator, which the
provers cannot instantiate; `Induction` states it for a set and is proved from
the well-foundedness of `<`. `StreamInv` was checked with TLC on the constants of
`local_link`.

**The proxy as a whole.** `ProxyMain_proof` proves `LookupsFailOnRemoval`,
`Spec => []FaultsOnlyOnRemoval`, for any number of workers, ports, clients and
changes, from `ListenerBounds` (there are finitely many ports, and bounds are
numbers) and `PoolIsNotEmpty`.
The inductive invariant follows a client on its way: the ports of the entries
whose listener is to be started, of every listener, closed or not, and of every
task are in the configuration or have been removed from it (`AllKnown`). It holds
until the configuration is destroyed. A worker may still be in the handler that
looks up when the pool is stopped, but not when main has returned (`NoneLeft`),
so that it never meets a configuration that is gone. `FaultsExplained` says that a thread
that faults keeps the task it faulted on at the head of its queue, although
sessions are still posted behind it.

**The listeners.** `ProxyMain_proof` proves also `ListenersFollow`,
`Spec => []AcceptorsFollow`, and `MainTypeOK`, `Spec => []TypeOK`, from the same
assumptions. `AcceptorsFollow` speaks of the times when the main thread is
through with a handler. In between the configuration is already the new one and
the listeners are still those of the old one, and listeners that were spawned
have not bound their port. `Told` is the set of entries the listeners have been
told of, which lags behind the configuration between `Swap` and `Apply`, and
`Settled` says that exactly those of them that were neither refused nor are yet
to start are listened on. `Mapped` makes the map and the open listeners inverse
to each other, so that closing by port (`cpp_proxy.cpp:79-84`) closes the
listener that is meant. `Reloading` has what lies between the cuts of a reload:
what is added is not in force, what is deleted is. The invariant was checked
with TLC on the constants of `daemon`.

**Only model-checked:**

* The liveness properties, and with them the fairness of `OrderedRelay`, that all
  bytes arrive: temporal reasoning about fairness is out of reach of the prover.
  So is the refinement under a fault (`recovery`), for which `Free` does not hold.
* `OnlyHandledForwarded` with faults. `HandledOnly` has the premise `MaxFaults = 0`
  like the other three theorems about the invariants of `answers`; unlike those the
  property may hold without it: TLC finds no counterexample on the constants of
  `undefined`.
* What goes out behind an answer that ended inside a packet: the property stops
  there (see Findings), and so does the theorem.

## Plan

Done: every part of the program that has behaviour of its own, and a proof of
every invariant that a run claims, of every one that is claimed without faults
for all other constants, and of the safety half of both relays. What could be
added is `OnlyHandledForwarded` under faults, where `Free` does not hold and an
invariant of its own would be needed.

## Not modelled

* `load_balance.hpp` has no behaviour: an empty struct and an unused enum.
* `3party/` holds libraries (asio, spdlog, nlohmann json), nearly all of the
  lines of the repository. Of asio there is what the program stands on: the
  ready queue, waits and cancellation in `Executor`, composed reads and writes
  in `LocalLink`, the signal handler in `ProxyMain`.
* Log levels, sinks, file names and the registry of log modules: set-up before
  any other thread runs.
* What the configuration says besides ports and empty lists of servers:
  addresses, buffer sizes, log settings, the number of threads. A changed
  `listen_ip` of a port that stays is not seen by the code at all
  (`config.hpp:60`).
* `main` of the process, its accept loop and its pool, beyond "a connection is
  accepted by a process that is there".
* Windows, and the build without `UDS` (`local_tcp.hpp:3`).
