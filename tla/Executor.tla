------------------------------ MODULE Executor ------------------------------
(***************************************************************************)
(* The part of asio that every coroutine of a proxy session stands on: one *)
(* io_context run by one thread (io_context_pool.hpp creates each context  *)
(* with concurrency hint 1), its FIFO queue of ready handlers, the         *)
(* operations that wait on a socket or on a timer, and the descriptors.    *)
(*                                                                         *)
(* A coroutine runs without interruption from the completion it waited for *)
(* to its next co_await on an operation; asio::co_spawn on the executor    *)
(* one is already running on starts the new coroutine in the same step.    *)
(* So the operators below map a session record to the session record that  *)
(* a piece of such a run leaves behind, and an action of ProxySession      *)
(* composes the pieces of one run.                                         *)
(*                                                                         *)
(* The operators say what the vendored asio does with one descriptor, one  *)
(* timer and one queue; its threads, memory and epoll calls are left out.  *)
(***************************************************************************)
EXTENDS Integers, Sequences, FiniteSets

CONSTANTS
    Connectors,     \* frames for the coroutine connect_process
    Readers,        \* frames for process_2proxy_2client_or_2server
    Detectors       \* frames for detect_process_timeout

\* The two relayed directions: client_request serves "req" and
\* server_response serves "res"; the coroutine is named by its direction.
Dir == {"req", "res"}

Coro == {"setup"} \cup Dir \cup Connectors \cup Readers \cup Detectors

ASSUME FramesAreDistinct ==
    /\ Connectors \cap Readers = {}
    /\ Connectors \cap Detectors = {}
    /\ Readers \cap Detectors = {}
    /\ (Connectors \cup Readers \cup Detectors) \cap ({"setup"} \cup Dir) = {}

Sock == {"client", "server", "process"}

\* A socket object without a descriptor is "closed", one with a descriptor
\* that is not connected (yet) is "open".
SockState == {"closed", "open", "conn"}

\* What an operation can wait on: each direction of each socket, the shared
\* detect_process_timeout_timer_, the retry timers of connect_process, and
\* the resolver.
Rd == [client |-> "clientRd", server |-> "serverRd", process |-> "processRd"]
Wr == [client |-> "clientWr", server |-> "serverWr", process |-> "processWr"]
Chan == {"clientRd", "serverRd", "processRd", "clientWr", "serverWr",
         "processWr", "detect", "retry", "resolve"}

Result == {"none", "ok", "eof", "err"}

Members(q) == {q[i] : i \in 1..Len(q)}

-----------------------------------------------------------------------------
\* The scheduler takes the ready handler at the head of the queue.
Pop(st) == [st EXCEPT !.runq = Tail(@)]

\* An operation completes: its handler goes to the end of the queue.
Complete(st, c, r) ==
    [st EXCEPT !.runq = Append(@, c), !.res[c] = r]

\* The operation at the head of a channel completes; operations of one kind
\* on one descriptor are served in the order they were started.
CompleteHead(st, ch, r) ==
    Complete([st EXCEPT !.wait[ch] = Tail(@)], Head(st.wait[ch]), r)

\* A coroutine suspends at the point l until the channel completes it.
Await(st, c, l, ch) ==
    [st EXCEPT !.pc[c] = l, !.res[c] = "none", !.wait[ch] = Append(@, c)]

\* An operation on a socket that is not connected completes at once, with an
\* error; the handler still goes through the queue.
AwaitIo(st, c, l, k, ch) ==
    IF st.sock[k] = "conn"
    THEN Await(st, c, l, ch)
    ELSE Complete([st EXCEPT !.pc[c] = l], c, "err")

\* A write of no bytes completes at once and without error, whatever the
\* state of the socket.
AwaitNothing(st, c, l) == Complete([st EXCEPT !.pc[c] = l], c, "ok")

\* Cancelling completes everything that waits on the channel with
\* operation_aborted, in order. What has completed already is not affected.
Cancel(st, ch) ==
    [st EXCEPT
        !.runq = @ \o st.wait[ch],
        !.res = [c \in Coro |-> IF c \in Members(st.wait[ch]) THEN "err" ELSE @[c]],
        !.wait[ch] = <<>>]

\* Closing a socket cancels its reads, then its writes (or its connect).
CloseSock(st, k) ==
    [Cancel(Cancel(st, Rd[k]), Wr[k]) EXCEPT !.sock[k] = "closed"]

\* A coroutine returns and its frame can be used again.
Return(st, c) == [st EXCEPT !.pc[c] = "idle", !.res[c] = "none"]

\* The frame the next coroutine of a pool gets: one that is not in use.
Frame(st, pool) ==
    LET idle == {k \in pool : st.pc[k] = "idle"}
    IN  IF idle = {} THEN {} ELSE {CHOOSE k \in idle : TRUE}
=============================================================================
