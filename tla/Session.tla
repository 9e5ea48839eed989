------------------------------- MODULE Session -------------------------------
(***************************************************************************)
(* The state of one cpp_proxy::session (src/cpp_proxy/session.hpp) and     *)
(* what its member functions do to it between two suspensions.             *)
(*                                                                         *)
(* The bytes of one direction are numbered 1, 2, ... in the order their    *)
(* sender wrote them; 0 stands for data that the process created.  A deque *)
(* of stored packets is one sequence of bytes in which the last byte of    *)
(* each packet is marked, so a packet trimmed to nothing leaves no trace.  *)
(*                                                                         *)
(* Every operator maps a session record to a session record.  They compose *)
(* in the order of the source; an operator that suspends the coroutine it  *)
(* is about is the last one applied for that coroutine.                    *)
(***************************************************************************)
EXTENDS Executor

CONSTANT ResponseBypass     \* response_bypass_, copied from the configuration

ASSUME ResponseBypassIsBoolean == ResponseBypass \in BOOLEAN

\* client_request moves data from the client to the server, server_response
\* from the server to the client.
From == [req |-> "client", res |-> "server"]
To   == [req |-> "server", res |-> "client"]

Packet(bytes) == [i \in 1..Len(bytes) |-> [b |-> bytes[i], end |-> i = Len(bytes)]]
Bytes(q) == [i \in 1..Len(q) |-> q[i].b]

\* What the process answers: a head for one direction or a heartbeat, with
\* an action, perhaps announcing new data, and its handled_total_pkg_len.
ResponseHead == [type : Dir \cup {"hb"}, act : {"pass", "block"},
                 new : BOOLEAN, total : Nat]

NoHead == [type |-> "hb", act |-> "pass", new |-> FALSE, total |-> 0]

\* Where a coroutine can be suspended.
Label == {"idle", "resolve", "dial",                       \* setup_proxy
          "dread", "dwrite", "pread", "pwrite", "notify", "flush",   \* loops
          "connect", "retry", "tuple",                     \* connect_process
          "head", "body", "wnew", "wfwd", "flushReq", "flushRes",    \* reader
          "wait"}                                          \* the detector

\* closed, eof, bypass and connecting are has_closed_, eof_, bypass_ and
\* process_connecting_; handled holds the two handled_total_pkg_len_ members
\* and stored the two deques.  pc and res, wait and runq belong to the
\* executor.  data is what a coroutine reads or writes, msg the head a reader
\* works on and cut what prepare_transfer_packet computed for it.  broken is
\* set when the code has undefined behaviour.
SessionState ==
    [closed : BOOLEAN, eof : BOOLEAN, bypass : BOOLEAN, connecting : BOOLEAN,
     broken : BOOLEAN,
     sock : [Sock -> SockState],
     wait : [Chan -> Seq(Coro)],
     runq : Seq(Coro),
     pc : [Coro -> Label],
     res : [Coro -> Result],
     data : [Dir \cup Readers -> Seq(Nat)],
     stored : [Dir -> Seq([b : Nat, end : BOOLEAN])],
     handled : [Dir -> Nat],
     msg : [Readers -> ResponseHead],
     cut : [Readers -> [pkts : Nat, used : Nat]]]

\* setup_proxy has started the resolver; the client's socket is accepted.
NewSession ==
    [closed |-> FALSE, eof |-> FALSE, bypass |-> TRUE, connecting |-> FALSE,
     broken |-> FALSE,
     sock |-> [client |-> "conn", server |-> "closed", process |-> "closed"],
     wait |-> [ch \in Chan |-> IF ch = "resolve" THEN <<"setup">> ELSE <<>>],
     runq |-> <<>>,
     pc |-> [c \in Coro |-> IF c = "setup" THEN "resolve" ELSE "idle"],
     res |-> [c \in Coro |-> "none"],
     data |-> [c \in Dir \cup Readers |-> <<>>],
     stored |-> [d \in Dir |-> <<>>],
     handled |-> [d \in Dir |-> 0],
     msg |-> [r \in Readers |-> NoHead],
     cut |-> [r \in Readers |-> [pkts |-> 0, used |-> 0]]]

-----------------------------------------------------------------------------
\* Mutant: the connection to the server is left open.
GraceCloseForgetsServer(st) ==
    IF st.closed
    THEN st
    ELSE LET s == Cancel([st EXCEPT !.closed = TRUE], "detect")
         IN  CloseSock(CloseSock(s, "client"), "process")

GraceClose(st) ==
    IF st.closed
    THEN st
    ELSE LET s == Cancel([st EXCEPT !.closed = TRUE], "detect")
         IN  CloseSock(CloseSock(CloseSock(s, "client"), "server"), "process")

\* A failed operation ends the session and the coroutine that saw it.
GiveUp(st, c) == Return(GraceClose(st), c)

\* Undefined behaviour can have any outcome; nothing is said of what follows,
\* so the session is over.
Undefined(st) ==
    [st EXCEPT !.broken = TRUE, !.closed = TRUE,
               !.sock = [k \in Sock |-> "closed"],
               !.wait = [ch \in Chan |-> <<>>],
               !.runq = <<>>,
               !.pc = [c \in Coro |-> "idle"],
               !.res = [c \in Coro |-> "none"]]

-----------------------------------------------------------------------------
\* Mutant: the loop does not look whether the session was closed.
TryConnectAlways(st, k) ==
    Await([st EXCEPT !.sock["process"] = "open"], k, "connect", "processWr")

\* connect_process: the loop that tries to reach the process ...
TryConnect(st, k) ==
    IF st.closed
    THEN Return(st, k)
    ELSE Await([st EXCEPT !.sock["process"] = "open"], k, "connect", "processWr")

\* Mutant: a second caller is not kept out.
ConnectProcessTwice(st, k) ==
    LET s == [CloseSock(st, "process") EXCEPT
                  !.connecting = TRUE, !.handled = [d \in Dir |-> 0]]
    IN  TryConnect(Cancel(s, "detect"), k)

\* Mutant: the detector of the old connection is not stopped.
ConnectProcessKeepsDetector(st, k) ==
    IF st.connecting
    THEN st
    ELSE TryConnect([CloseSock(st, "process") EXCEPT
                         !.connecting = TRUE, !.handled = [d \in Dir |-> 0]], k)

\* ... which a first caller starts, and a second one leaves alone.
ConnectProcess(st, k) ==
    IF st.connecting
    THEN st
    ELSE LET s == [CloseSock(st, "process") EXCEPT
                       !.connecting = TRUE, !.handled = [d \in Dir |-> 0]]
         IN  TryConnect(Cancel(s, "detect"), k)

Connected(st, k) ==
    AwaitIo([st EXCEPT !.bypass = FALSE, !.connecting = FALSE],
            k, "tuple", "process", "processWr")

\* detect_process_timeout arms the shared timer, which cancels whatever
\* still waits on it.
Detect(st, t) ==
    IF st.closed \/ st.connecting
    THEN Return(st, t)
    ELSE Await(Cancel(st, "detect"), t, "wait", "detect")

ReadHead(st, r) == AwaitIo(st, r, "head", "process", "processRd")

\* four_tuple_2process went through: the reader and the detector start.
Served(st, k, r, t) == Return(Detect(ReadHead(st, r), t), k)

-----------------------------------------------------------------------------
\* The head of the loops of client_request and server_response.
NextRound(st, d) ==
    IF st.eof THEN GiveUp(st, d)
    ELSE IF st.bypass THEN AwaitIo(st, d, "dread", From[d], Rd[From[d]])
    ELSE IF d = "res" /\ ResponseBypass
         THEN AwaitIo(st, d, "notify", "process", "processWr")
         ELSE AwaitIo(st, d, "pread", From[d], Rd[From[d]])

\* Mutant: what was read is forgotten.
WriteDirectForgets(st, d) == NextRound(st, d)

\* Data read in bypass goes straight to the other side.
WriteDirect(st, d) == AwaitIo(st, d, "dwrite", To[d], Wr[To[d]])

\* Mutant: the bytes are stored without the bounds of their packet.
StoreWithoutBounds(st, d) ==
    AwaitIo([st EXCEPT !.stored[d] = @ \o [i \in 1..Len(st.data[d]) |->
                                             [b |-> st.data[d][i]]]],
            d, "pwrite", "process", "processWr")

\* Mutant: the data is sent to the process only.
SendUnstored(st, d) == AwaitIo(st, d, "pwrite", "process", "processWr")

\* Mutant: only the latest packet is kept.
StoreLatestOnly(st, d) ==
    AwaitIo([st EXCEPT !.stored[d] = Packet(st.data[d])],
            d, "pwrite", "process", "processWr")

\* Data read for the process is stored, then sent to the process.
StoreAndSend(st, d) ==
    AwaitIo([st EXCEPT !.stored[d] = @ \o Packet(st.data[d])],
            d, "pwrite", "process", "processWr")

\* inner_enable_bypass: write everything that is stored ...
EnableBypass(st) == [st EXCEPT !.bypass = TRUE]

Flush(st, c, d, l) ==
    AwaitIo([st EXCEPT !.data[c] = Bytes(st.stored[d])], c, l, To[d], Wr[To[d]])

\* ... and forget all that is stored by the time the write is done.
Flushed(st, d) == [st EXCEPT !.stored[d] = <<>>]

\* client_request and server_response after a failed write to the process.
Reconnect(st, d, k) == NextRound(ConnectProcess(st, k), d)

SendFailed(st, d, k) ==
    LET s == EnableBypass(st)
    IN  IF s.stored[d] = <<>> THEN Reconnect(s, d, k) ELSE Flush(s, d, d, "flush")

\* process_2proxy after a failed read: both directions are flushed in turn,
\* whatever comes of it, then the process is connected again.
LoseReader(st, r, k) == Return(ConnectProcess(st, k), r)

FlushResponses(st, r, k) ==
    LET s == EnableBypass(st)
    IN  IF s.stored["res"] = <<>>
        THEN LoseReader(s, r, k)
        ELSE Flush(s, r, "res", "flushRes")

ReadFailed(st, r, k) ==
    LET s == EnableBypass(st)
    IN  IF st.closed THEN Return(st, r)
        ELSE IF s.stored["req"] = <<>>
             THEN FlushResponses(s, r, k)
             ELSE Flush(s, r, "req", "flushReq")

-----------------------------------------------------------------------------
\* Positions of the last bytes of the packets in a deque.
Ends(q) == {i \in 1..Len(q) : q[i].end}

\* Mutant: everything stored counts as handled.
CoveredAll(q, h, t) == Ends(q)

\* The packets that an answer up to byte t covers as a whole, h being the
\* bytes handled before.
Covered(q, h, t) == {e \in Ends(q) : h + e <= t}

\* How many bytes of a deque lie in the packets that end at the given places.
Upto(q, ends) == Cardinality({i \in 1..Len(q) : \E e \in ends : i <= e})

\* The length of the first n packets of a deque.
LengthOf(q, n) ==
    Cardinality({i \in 1..Len(q) : Cardinality({e \in Ends(q) : e < i}) < n})

\* inner_proxy_2client_or_2server on "pass": prepare_transfer_packet takes
\* the covered packets and a part of the next one.  The bytes of that part
\* are not added to handled.  A head that lies behind handled asks for a
\* buffer of negative size.
Transfer(st, r) ==
    LET d == st.msg[r].type
        q == st.stored[d]
        h == st.handled[d]
        t == st.msg[r].total
        n == Cardinality(Covered(q, h, t))
        m == Upto(q, Covered(q, h, t))
        used == IF m < Len(q) THEN t - (h + m) ELSE 0
        out == Bytes(SubSeq(q, 1, m + used))
        s == [st EXCEPT !.handled[d] = h + m,
                        !.cut[r] = [pkts |-> n, used |-> used],
                        !.data[r] = out]
    IN  IF used < 0 THEN Undefined(st)
        ELSE IF out = <<>> THEN AwaitNothing(s, r, "wfwd")
        ELSE AwaitIo(s, r, "wfwd", To[d], Wr[To[d]])

Decide(st, r) ==
    IF st.msg[r].act = "block" THEN GiveUp(st, r) ELSE Transfer(st, r)

\* New data of the process goes out before its verdict is looked at.
WriteNew(st, r) ==
    LET d == st.msg[r].type
    IN  AwaitIo([st EXCEPT !.data[r] = <<0>>], r, "wnew", To[d], Wr[To[d]])

\* Mutant: one packet too many is popped.
ClearedOneMore(st, r) ==
    LET d == st.msg[r].type
        q == st.stored[d]
        n == st.cut[r].pkts + 1
        m == LengthOf(q, n) + st.cut[r].used
    IN  IF Cardinality(Ends(q)) < n
        THEN Undefined(st)
        ELSE ReadHead([st EXCEPT !.stored[d] = SubSeq(q, m + 1, Len(q))], r)

\* clear_handled_packet, on the deque as it is when the write is done: to
\* pop from or to trim an empty deque is undefined, and a packet shorter than
\* the part to trim gets a length that wraps around.
Cleared(st, r) ==
    LET d == st.msg[r].type
        q == st.stored[d]
        n == st.cut[r].pkts
        m == LengthOf(q, n)
        used == st.cut[r].used
    IN  IF \/ Cardinality(Ends(q)) < n
           \/ used > LengthOf(q, n + 1) - m
        THEN Undefined(st)
        ELSE ReadHead([st EXCEPT !.stored[d] = SubSeq(q, m + used + 1, Len(q))], r)
=============================================================================
