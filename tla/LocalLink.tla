------------------------------ MODULE LocalLink ------------------------------
(***************************************************************************)
(* The local socket between a session of the proxy and a session of the    *)
(* process, with writes that the socket takes in parts.  Three coroutines  *)
(* of the proxy write to it: connect_process the four tuple,               *)
(* client_request packets, and server_response packets or, with            *)
(* response_bypass, heads without data.                                    *)
(*                                                                         *)
(* Of the session of the proxy only these writers, the memory of their     *)
(* packets and the reader are left; module Session has the rest.           *)
(***************************************************************************)
EXTENDS ProcessSession, DataBlock, SequencesExt

CONSTANTS
    UpCap,      \* units that fit into the socket towards the process
    Lens,       \* how many units a read brings
    MaxRequests, MaxResponses,  \* how many messages the loops write at most
    Bypassing   \* the settings of response_bypass that are looked at

ASSUME LinkBounds ==
    /\ UpCap \in Nat \ {0, 1}
    /\ Lens \subseteq Nat \ {0}
    /\ MaxRequests \in Nat
    /\ MaxResponses \in Nat
    /\ Bypassing \subseteq BOOLEAN

VARIABLES
    bypassed,   \* response_bypass_
    out,        \* what each writer has written of its message
    queue,      \* the writers whose next chunk waits for the socket
    mem,        \* the memory of the packets
    acked       \* bytes that the reader has seen acknowledged

proxyVars == <<bypassed, out, queue, mem, acked>>
procVars == <<proc, handled>>
vars == <<stream, procVars, proxyVars>>

Writer == {"conn"} \cup Dir

\* "queued" for the socket, or "ready" to run after a chunk went out.
Progress == [msg : Nat, next : Nat, st : {"idle", "queued", "ready"}]

FourTuple == [type |-> "tuple", len |-> 1]

\* The connection is established and the four tuple is being written.
Init ==
    /\ msgs = <<FourTuple>>
    /\ wire = <<>>
    /\ taken = 0
    /\ down = <<>>
    /\ conn = "up"
    /\ proc = NewProcess
    /\ handled = <<>>
    /\ bypassed \in Bypassing
    /\ out = [w \in Writer |->
                 IF w = "conn" THEN [msg |-> 1, next |-> 0, st |-> "queued"]
                 ELSE [msg |-> 0, next |-> 0, st |-> "idle"]]
    /\ queue = <<"conn">>
    /\ mem = [d \in Dir |-> NoMemory]
    /\ acked = [d \in Dir |-> 0]

MaxMessages == [req |-> MaxRequests, res |-> MaxResponses]

Count(d) == Cardinality({m \in 1..Len(msgs) : msgs[m].type = d})

\* asio::async_write of a new message.
Write(w, head) ==
    /\ msgs' = Append(msgs, head)
    /\ out' = [out EXCEPT ![w] = [msg |-> Len(msgs) + 1, next |-> 0, st |-> "queued"]]
    /\ queue' = Append(queue, w)
    /\ UNCHANGED <<wire, taken, down, conn, bypassed, acked>>

\* inner_client_or_server_2proxy_2process: n bytes were read and are stored.
Forward(d, n) ==
    LET m == Prepared(mem[d])
    IN  /\ conn = "up"
        /\ out[d].st = "idle"
        /\ d = "res" => ~bypassed
        /\ Count(d) < MaxMessages[d]
        /\ n <= ReadLimit(m)
        /\ mem' = [mem EXCEPT ![d] = Stored(m, n)]
        /\ Write(d, [type |-> d, len |-> n])

\* server_response tells the process that there is a response.
Notify ==
    /\ conn = "up"
    /\ bypassed
    /\ out["res"].st = "idle"
    /\ Count("res") < MaxMessages["res"]
    /\ Write("res", [type |-> "res", len |-> 0])
    /\ UNCHANGED mem

\* The socket takes as much of the first chunk as there is room for.
SocketTakes ==
    LET w == Head(queue)
        o == out[w]
        room == UpCap - (Len(wire) - taken)
        left == msgs[o.msg].len + 1 - o.next
        n == IF room < left THEN room ELSE left
    IN  /\ queue # <<>>
        /\ room > 0
        /\ wire' = wire \o [k \in 1..n |-> [msg |-> o.msg, i |-> o.next + k - 1]]
        /\ out' = [out EXCEPT ![w].next = @ + n, ![w].st = "ready"]
        /\ queue' = Tail(queue)
        /\ UNCHANGED <<msgs, taken, down, conn, bypassed, mem, acked>>

\* The handler of a composed write: the rest is queued behind the others, or
\* the coroutine goes on.
WriteGoesOn(w) ==
    /\ out[w].st = "ready"
    /\ \/ /\ out[w].next <= msgs[out[w].msg].len
          /\ out' = [out EXCEPT ![w].st = "queued"]
          /\ queue' = Append(queue, w)
       \/ /\ out[w].next > msgs[out[w].msg].len
          /\ out' = [out EXCEPT ![w].st = "idle"]
          /\ UNCHANGED queue
    /\ UNCHANGED <<stream, bypassed, mem, acked>>

\* The lengths of the first k packets together.
LengthOf(m, k) == SumFunction([i \in 1..k |-> m.packets[i].len])

\* The reader, which runs once the four tuple is out, takes an answer and
\* forgets the packets that it covers.
ProxyReads ==
    LET a == Head(down)
        m == mem[a.type]
    IN  /\ conn = "up"
        /\ out["conn"].st = "idle"
        /\ down # <<>>
        /\ down' = Tail(down)
        /\ \/ /\ a.type \in Dir
              /\ \E k \in 0..Len(m.packets) :
                     /\ \A j \in 0..Len(m.packets) :
                            j <= k <=> acked[a.type] + LengthOf(m, j) <= a.total
                     /\ mem' = [mem EXCEPT ![a.type] = Forgotten(m, k)]
              /\ acked' = [acked EXCEPT ![a.type] = a.total]
           \/ a.type = "hb" /\ UNCHANGED <<mem, acked>>
    /\ UNCHANGED <<msgs, wire, taken, conn, bypassed, out, queue>>

\* The proxy closes the connection, for whatever reason.  An answer it has
\* not read turns the end of the stream into an error.
ProxyCloses ==
    /\ conn = "up"
    /\ conn' = IF down = <<>> THEN "eof" ELSE "err"
    /\ down' = <<>>
    /\ queue' = <<>>
    /\ out' = [w \in Writer |-> [out[w] EXCEPT !.st = "idle"]]
    /\ UNCHANGED <<msgs, wire, taken, bypassed, mem, acked>>

-----------------------------------------------------------------------------
Writing == SocketTakes \/ \E w \in Writer : WriteGoesOn(w)

Terminated == ProcessGone /\ conn # "up" /\ UNCHANGED vars

\* A step of the process leaves the proxy alone, and the other way round.
Aside == UNCHANGED proxyVars
Alone == UNCHANGED procVars

Next ==
    \/ HeadRead /\ Aside
    \/ HeadMissing /\ Aside
    \/ BodyRead /\ Aside
    \/ BodyMissing /\ Aside
    \/ AnswerWritten /\ Aside
    \/ SetupFails /\ Aside
    \/ Receive /\ Aside
    \/ StreamEnds /\ Aside
    \/ BeatDue /\ Aside
    \/ BeatDone /\ Aside
    \/ BeatFails /\ Aside
    \/ Transmit /\ Aside
    \/ BeatTimer /\ Aside
    \/ \E d \in Dir, n \in Lens : Forward(d, n) /\ Alone
    \/ Notify /\ Alone
    \/ SocketTakes /\ Alone
    \/ \E w \in Writer : WriteGoesOn(w) /\ Alone
    \/ ProxyReads /\ Alone
    \/ ProxyCloses /\ Alone
    \/ Terminated

Spec == Init /\ [][Next]_vars

\* Both programs run what is ready, the sockets take and give what they can,
\* the timer fires and the proxy reads its answers.
Fairness ==
    /\ WF_vars(SetupStep /\ Aside)
    /\ WF_vars(BeatStep /\ Aside)
    /\ WF_vars(Transmit /\ Aside)
    /\ WF_vars(BeatTimer /\ Aside)
    /\ WF_vars(Writing /\ Alone)
    /\ WF_vars(ProxyReads /\ Alone)

FairSpec == Spec /\ Fairness

-----------------------------------------------------------------------------
TypeOK ==
    /\ msgs \in Seq(MessageHead)
    /\ wire \in Seq(Unit)
    /\ taken \in 0..Len(wire)
    /\ down \in Seq(Answer)
    /\ conn \in {"up", "eof", "err"}
    /\ proc \in Process
    /\ handled \in Seq(Handled)
    /\ bypassed \in BOOLEAN
    /\ out \in [Writer -> Progress]
    /\ queue \in Seq(Writer)
    /\ mem \in [Dir -> Memory]
    /\ acked \in [Dir -> Nat]

\* Packets in memory stay inside their blocks and apart from each other,
\* while answers free the oldest and reads add new ones (data_block.hpp 25-35,
\* session.hpp 370-398).
PacketsFit == \A d \in Dir : Fits(mem[d])

\* The first n units on the stream are whole messages, one after the other,
\* but for the last one, which may lack its end.
Framed(n) ==
    \A k \in 1..n - 1 :
        LET u == wire[k]
            v == wire[k + 1]
        IN  \/ v = [u EXCEPT !.i = @ + 1]
            \/ u.i = msgs[u.msg].len /\ v.i = 0

Sent(m) == [type |-> msgs[m].type, body |-> Body(m), eof |-> FALSE]

\* Until the end of the stream the process is handed the messages of the
\* proxy, in the order the proxy began them, each with its own type and the
\* whole of its own body (process.cpp 106-143).
MessageIntact(k) == ~handled[k].eof => handled[k] = Sent(k)

\* So it is as long as what was read of the stream is framed, however many
\* chunks the messages were cut into.
HandledAsSent == Framed(taken) => \A k \in 1..Len(handled) : MessageIntact(k)

\* And so it would always be, were the messages never mixed.
AlwaysHandledAsSent == \A k \in 1..Len(handled) : MessageIntact(k)

\* The bytes of direction d that are on the stream.
OnStream(d) ==
    Cardinality({k \in 1..Len(wire) : wire[k].i > 0 /\ msgs[wire[k].msg].type = d})

\* No answer that reaches the proxy counts bytes the proxy has not sent, not
\* even when the connection ends in the middle of a message or a head is
\* handled that was never read: prepare_transfer_packet would forward bytes
\* for it that the process has not seen (process.cpp 117-124, 149-154).
AcknowledgesOnlySent ==
    Framed(taken) =>
        \A d \in Dir :
            /\ acked[d] <= OnStream(d)
            /\ \A k \in 1..Len(down) : down[k].type = d => down[k].total <= OnStream(d)

\* Once the stream has ended at most one more message is handled, the one
\* that the end cut short or the one that is left in head_buf (process.cpp
\* 100-105, 117, 141).
OneAfterEof == Cardinality({k \in 1..Len(handled) : handled[k].eof}) <= 1

\* When the proxy has closed the connection both coroutines return, also if
\* one of them was in the middle of a write or has ended by an exception
\* (process.cpp 48-56, 80-95).
ProcessEnds == conn # "up" ~> ProcessGone

\* Every byte sent is acknowledged in the end, unless the connection is
\* closed or messages were mixed; heartbeats do not hold the answers up
\* (process.cpp 89, 160, 184).
AllAcknowledged ==
    \A d \in Dir :
        acked[d] < OnStream(d)
            ~> (acked[d] = OnStream(d) \/ conn # "up" \/ ~Framed(Len(wire)))
=============================================================================
