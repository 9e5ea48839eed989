----------------------------- MODULE ProxySession -----------------------------
(***************************************************************************)
(* One session of cpp_proxy between its client, its server and the         *)
(* business process: the session of module Session, driven by the handlers *)
(* of its coroutines, and the peers as far as the session can see them.    *)
(*                                                                         *)
(* One action is one run of a coroutine, from the completion it waited for *)
(* to where it suspends again, or one thing that happens outside: a peer   *)
(* sends or closes, an operation of the session completes, a timer fires,  *)
(* the process answers, crashes, hangs or is started again.                *)
(***************************************************************************)
EXTENDS Session

CONSTANTS
    MaxReq, MaxRes, \* how many bytes the client and the server send at most
    MaxFaults,      \* how many crashes, hangs and false timeouts there are
    Closings,       \* the ways a peer may close: "fin" after its last byte, "rst"
    Verdicts,       \* the answers the process may give
    LocalBuf        \* messages that fit into the local socket towards it

ASSUME BoundsAreNumbers ==
    /\ MaxReq \in Nat
    /\ MaxRes \in Nat
    /\ MaxFaults \in Nat
    /\ LocalBuf \in Nat \ {0}
    /\ Closings \subseteq {"fin", "rst"}
    /\ Verdicts \subseteq {"pass", "partial", "block", "create"}

VARIABLES
    ses,        \* the session
    sent,       \* bytes that the sender of a direction has sent,
    got,        \* that the proxy has read,
    deliv,      \* and the bytes that the proxy has written to the other side
    vetted,     \* bytes that the process has acknowledged
    peer,       \* what the client and the server did to their connection
    link,       \* the connection between the session and the process
    listening,  \* is the process there to accept a connection
    faults      \* faults so far

vars == <<ses, sent, got, deliv, vetted, peer, link, listening, faults>>

Peers == {"client", "server"}

MaxSent == [req |-> MaxReq, res |-> MaxRes]

\* Data of one packet, or the four tuple, or the head without data that
\* server_response sends when it bypasses the process.
Message == [kind : Dir, bytes : Seq(Nat)] \cup [kind : {"tuple"}, bytes : {<<>>}]

\* A process answers with heads; the new data of a head follows it.
NewData == [type |-> "body"]

\* split tells that an answer has ended inside a packet.

NoLink == [st |-> "none", toProc |-> <<>>, fromProc |-> <<>>,
           seen |-> [d \in Dir |-> <<>>], acked |-> [d \in Dir |-> 0],
           split |-> [d \in Dir |-> FALSE]]

LinkState ==
    [st : {"none", "ok", "hung", "dead"},
     toProc : Seq(Message),
     fromProc : Seq(ResponseHead \cup {NewData}),
     seen : [Dir -> Seq(Nat)],
     acked : [Dir -> Nat],
     split : [Dir -> BOOLEAN]]

Init ==
    /\ ses = NewSession
    /\ sent = [d \in Dir |-> 0]
    /\ got = [d \in Dir |-> 0]
    /\ deliv = [d \in Dir |-> <<>>]
    /\ vetted = [d \in Dir |-> {}]
    /\ peer = [p \in Peers |-> "up"]
    /\ link = NoLink
    /\ listening \in BOOLEAN
    /\ faults = 0

-----------------------------------------------------------------------------
(***************************************************************************)
(* Handlers.                                                               *)
(***************************************************************************)
outside == <<sent, got, deliv, vetted, peer, listening, faults>>

\* c is the next to run, it was suspended at a label of ls, and the
\* operation ended with the result r.
Runs(c, ls, r) ==
    /\ ses.runq # <<>>
    /\ Head(ses.runq) = c
    /\ ses.pc[c] \in ls
    /\ ses.res[c] = r

\* A connection to the process ends with the socket that held it.
Becomes(st) ==
    /\ ses' = st
    /\ link' = IF st.sock["process"] = "conn" THEN link ELSE NoLink
    /\ UNCHANGED outside

st0 == Pop(ses)

\* setup_proxy
Resolved ==
    /\ Runs("setup", {"resolve"}, "ok")
    /\ Becomes(Await([st0 EXCEPT !.sock["server"] = "open"],
                     "setup", "dial", "serverWr"))

\* The session is destroyed with the only coroutine that holds it.
SetupFails ==
    /\ \/ Runs("setup", {"resolve", "dial"}, "err")
       \/ Runs("setup", {"dial"}, "ok") /\ peer["client"] = "rst"
    /\ Becomes(GiveUp(st0, "setup"))

Dialed ==
    /\ Runs("setup", {"dial"}, "ok")
    /\ peer["client"] # "rst"
    /\ \E k \in Frame(ses, Connectors) :
           Becomes(Return(NextRound(NextRound(ConnectProcess(st0, k), "req"), "res"),
                          "setup"))

\* client_request and server_response
ReadDirect(d) ==
    /\ Runs(d, {"dread"}, "ok")
    /\ Becomes(WriteDirect(st0, d))

ReadForProcess(d) ==
    /\ Runs(d, {"pread"}, "ok")
    /\ Becomes(StoreAndSend(st0, d))

ReadEof(d) ==
    /\ Runs(d, {"dread", "pread"}, "eof")
    /\ Becomes(NextRound([st0 EXCEPT !.eof = TRUE], d))

\* Mutant: the return codes of a write to the process are mixed up, so that
\* success is taken for failure.
WrittenTakenForFailure(d) ==
    \/ Runs(d, {"dwrite"}, "ok") /\ Becomes(NextRound(st0, d))
    \/ /\ Runs(d, {"pwrite"}, "ok")
       /\ \E k \in Frame(ses, Connectors) : Becomes(SendFailed(st0, d, k))

Written(d) ==
    /\ Runs(d, {"dwrite", "pwrite"}, "ok")
    /\ Becomes(NextRound(st0, d))

LoopFails(d) ==
    /\ Runs(d, {"dread", "pread", "dwrite", "flush"}, "err")
    /\ Becomes(GiveUp(st0, d))

\* Whether the notification of the process went through is not looked at.
Notified(d) ==
    /\ \E r \in {"ok", "err"} : Runs(d, {"notify"}, r)
    /\ Becomes(AwaitIo(st0, d, "dread", From[d], Rd[From[d]]))

ProcessWriteFails(d) ==
    /\ Runs(d, {"pwrite"}, "err")
    /\ \E k \in Frame(ses, Connectors) : Becomes(SendFailed(st0, d, k))

StoredWritten(d) ==
    /\ Runs(d, {"flush"}, "ok")
    /\ \E k \in Frame(ses, Connectors) : Becomes(Reconnect(Flushed(st0, d), d, k))

\* connect_process
ProcessConnected(k) ==
    /\ Runs(k, {"connect"}, "ok")
    /\ Becomes(Connected(st0, k))

\* Mutant: there is only one attempt.
ConnectFailsForGood(k) ==
    /\ Runs(k, {"connect"}, "err")
    /\ Becomes(Return(st0, k))

ConnectFails(k) ==
    /\ Runs(k, {"connect"}, "err")
    /\ Becomes(Await(st0, k, "retry", "retry"))

ConnectAgain(k) ==
    /\ Runs(k, {"retry"}, "ok")
    /\ Becomes(TryConnect(st0, k))

Introduced(k) ==
    /\ Runs(k, {"tuple"}, "ok")
    /\ \E r \in Frame(ses, Readers), t \in Frame(ses, Detectors) :
           Becomes(Served(st0, k, r, t))

NotIntroduced(k) ==
    /\ Runs(k, {"tuple"}, "err")
    /\ Becomes(Return(st0, k))

\* process_2proxy_2client_or_2server
Heartbeat(r) ==
    /\ Runs(r, {"head"}, "ok")
    /\ ses.msg[r].type = "hb"
    /\ Becomes(ReadHead(Cancel(st0, "detect"), r))

HeadRead(r) ==
    /\ Runs(r, {"head"}, "ok")
    /\ ses.msg[r].type \in Dir
    /\ Becomes(IF ses.msg[r].new
               THEN AwaitIo(st0, r, "body", "process", "processRd")
               ELSE Decide(st0, r))

BodyRead(r) ==
    /\ Runs(r, {"body"}, "ok")
    /\ Becomes(WriteNew(st0, r))

NewWritten(r) ==
    /\ Runs(r, {"wnew"}, "ok")
    /\ Becomes(Decide(st0, r))

HandledWritten(r) ==
    /\ Runs(r, {"wfwd"}, "ok")
    /\ Becomes(Cleared(st0, r))

ReaderFails(r) ==
    /\ Runs(r, {"wnew", "wfwd"}, "err")
    /\ Becomes(GiveUp(st0, r))

ProcessReadFails(r) ==
    /\ Runs(r, {"head", "body"}, "err")
    /\ \E k \in Frame(ses, Connectors) : Becomes(ReadFailed(st0, r, k))

\* The results of both flushes are ignored here.
RequestsFlushed(r) ==
    /\ \E k \in Frame(ses, Connectors) :
           \/ /\ Runs(r, {"flushReq"}, "ok")
              /\ Becomes(FlushResponses(Flushed(st0, "req"), r, k))
           \/ /\ Runs(r, {"flushReq"}, "err")
              /\ Becomes(FlushResponses(GraceClose(st0), r, k))

ResponsesFlushed(r) ==
    /\ \E k \in Frame(ses, Connectors) :
           \/ /\ Runs(r, {"flushRes"}, "ok")
              /\ Becomes(LoseReader(Flushed(st0, "res"), r, k))
           \/ /\ Runs(r, {"flushRes"}, "err")
              /\ Becomes(LoseReader(GraceClose(st0), r, k))

\* detect_process_timeout
Rearm(t) ==
    /\ Runs(t, {"wait"}, "err")
    /\ Becomes(Detect(st0, t))

\* Mutant: the connection to the process is kept.
TimedOutIdly(t) ==
    /\ Runs(t, {"wait"}, "ok")
    /\ Becomes(Return(st0, t))

TimedOut(t) ==
    /\ Runs(t, {"wait"}, "ok")
    /\ Becomes(Return(CloseSock(st0, "process"), t))

-----------------------------------------------------------------------------
(***************************************************************************)
(* The client, the server and the network between them and the proxy.     *)
(***************************************************************************)
PeerSends(d) ==
    /\ ses.sock[From[d]] = "conn"
    /\ peer[From[d]] = "up"
    /\ sent[d] < MaxSent[d]
    /\ sent' = [sent EXCEPT ![d] = @ + 1]
    /\ UNCHANGED <<ses, got, deliv, vetted, peer, link, listening, faults>>

\* A peer has nothing more to send, or its connection is gone.
PeerCloses(p) ==
    /\ ses.sock[p] = "conn"
    /\ \E how \in Closings :
           /\ peer[p] \notin {how, "rst"}
           /\ peer' = [peer EXCEPT ![p] = how]
    /\ UNCHANGED <<ses, sent, got, deliv, vetted, link, listening, faults>>

\* async_read_some takes all that has arrived.
PeerRead(d) ==
    LET p == From[d]
    IN  /\ ses.wait[Rd[p]] # <<>>
        /\ \/ /\ peer[p] # "rst"
              /\ got[d] < sent[d]
              /\ got' = [got EXCEPT ![d] = sent[d]]
              /\ ses' = CompleteHead(
                     [ses EXCEPT !.data[d] =
                         [i \in 1..(sent[d] - got[d]) |-> got[d] + i]], Rd[p], "ok")
           \/ /\ peer[p] = "fin"
              /\ got[d] = sent[d]
              /\ ses' = CompleteHead(ses, Rd[p], "eof")
              /\ UNCHANGED got
           \/ /\ peer[p] = "rst"
              /\ ses' = CompleteHead(ses, Rd[p], "err")
              /\ UNCHANGED got
    /\ UNCHANGED <<sent, deliv, vetted, peer, link, listening, faults>>

\* A write to a peer is done; a peer may be slow, so this may take any time.
PeerWritten(d) ==
    LET p == To[d]
        c == Head(ses.wait[Wr[p]])
    IN  /\ ses.wait[Wr[p]] # <<>>
        /\ c # "setup"
        /\ \/ /\ peer[p] # "rst"
              /\ deliv' = [deliv EXCEPT ![d] = @ \o ses.data[c]]
              /\ ses' = CompleteHead(ses, Wr[p], "ok")
           \/ /\ peer[p] = "rst"
              /\ ses' = CompleteHead(ses, Wr[p], "err")
              /\ UNCHANGED deliv
    /\ UNCHANGED <<sent, got, vetted, peer, link, listening, faults>>

ResolverDone ==
    /\ ses.wait["resolve"] # <<>>
    /\ \E r \in {"ok", "err"} : ses' = CompleteHead(ses, "resolve", r)
    /\ UNCHANGED <<sent, got, deliv, vetted, peer, link, listening, faults>>

DialDone ==
    /\ ses.wait["serverWr"] # <<>>
    /\ Head(ses.wait["serverWr"]) = "setup"
    /\ \/ ses' = CompleteHead([ses EXCEPT !.sock["server"] = "conn"], "serverWr", "ok")
       \/ ses' = CompleteHead(ses, "serverWr", "err")
    /\ UNCHANGED <<sent, got, deliv, vetted, peer, link, listening, faults>>

-----------------------------------------------------------------------------
(***************************************************************************)
(* The local socket and the timers.                                        *)
(***************************************************************************)
ProcessAccepts ==
    /\ ses.wait["processWr"] # <<>>
    /\ ses.pc[Head(ses.wait["processWr"])] = "connect"
    /\ \/ /\ listening
          /\ ses' = CompleteHead([ses EXCEPT !.sock["process"] = "conn"],
                                 "processWr", "ok")
          /\ link' = [NoLink EXCEPT !.st = "ok"]
       \/ /\ ~listening
          /\ ses' = CompleteHead(ses, "processWr", "err")
          /\ UNCHANGED link
    /\ UNCHANGED <<sent, got, deliv, vetted, peer, listening, faults>>

\* What coroutine c writes to the process.
MessageOf(c) ==
    IF c \in Dir
    THEN [kind |-> c, bytes |-> IF ses.pc[c] = "notify" THEN <<>> ELSE ses.data[c]]
    ELSE [kind |-> "tuple", bytes |-> <<>>]

\* A write to the process ends once there is room in the socket, or with an
\* error when the process is gone.
ProcessWritten ==
    LET c == Head(ses.wait["processWr"])
    IN  /\ ses.wait["processWr"] # <<>>
        /\ ses.pc[c] # "connect"
        /\ \/ /\ link.st \in {"ok", "hung"}
              /\ Len(link.toProc) < LocalBuf
              /\ link' = [link EXCEPT !.toProc = Append(@, MessageOf(c))]
              /\ ses' = CompleteHead(ses, "processWr", "ok")
           \/ /\ link.st = "dead"
              /\ ses' = CompleteHead(ses, "processWr", "err")
              /\ UNCHANGED link
    /\ UNCHANGED <<sent, got, deliv, vetted, peer, listening, faults>>

\* A read of the process connection; a head that is read where new data is
\* due, or new data where a head is due, may mean anything.
ProcessRead ==
    LET r == Head(ses.wait["processRd"])
        m == Head(link.fromProc)
        due == IF m = NewData THEN "body" ELSE "head"
        s == IF m = NewData THEN ses ELSE [ses EXCEPT !.msg[r] = m]
    IN  /\ ses.wait["processRd"] # <<>>
        /\ \/ /\ link.fromProc # <<>>
              /\ ses' = IF ses.pc[r] = due
                        THEN CompleteHead(s, "processRd", "ok")
                        ELSE Undefined(ses)
              /\ link' = [link EXCEPT !.fromProc = Tail(@)]
           \/ /\ link.fromProc = <<>>
              /\ link.st = "dead"
              /\ ses' = CompleteHead(ses, "processRd", "err")
              /\ UNCHANGED link
    /\ UNCHANGED <<sent, got, deliv, vetted, peer, listening, faults>>

RetryTimer ==
    /\ ses.wait["retry"] # <<>>
    /\ ses' = CompleteHead(ses, "retry", "ok")
    /\ UNCHANGED <<sent, got, deliv, vetted, peer, link, listening, faults>>

\* Ten seconds without a heartbeat: sure to come unless a process serves the
\* session, and a fault if one does (the process or the reader was slow).
DetectTimer ==
    /\ ses.wait["detect"] # <<>>
    /\ link.st # "ok"
    /\ ses' = CompleteHead(ses, "detect", "ok")
    /\ UNCHANGED <<sent, got, deliv, vetted, peer, link, listening, faults>>

FalseTimeout ==
    /\ ses.wait["detect"] # <<>>
    /\ link.st = "ok"
    /\ faults < MaxFaults
    /\ faults' = faults + 1
    /\ ses' = CompleteHead(ses, "detect", "ok")
    /\ UNCHANGED <<sent, got, deliv, vetted, peer, link, listening>>

-----------------------------------------------------------------------------
(***************************************************************************)
(* The business process at its end of the local socket: src/process is one *)
(* that always passes; the heads it may send are those the proxy knows.    *)
(***************************************************************************)

\* The process acknowledges direction d of its connection l up to total.
Acked(l, d, total, act, new) ==
    [l EXCEPT !.acked[d] = total,
              !.fromProc = Append(@, [type |-> d, act |-> act, new |-> new,
                                      total |-> total])
                           \o (IF new THEN <<NewData>> ELSE <<>>)]

Passes(l, d, total, new) ==
    /\ link' = Acked(l, d, total, "pass", new)
    /\ vetted' = [vetted EXCEPT ![d] =
           @ \cup {l.seen[d][i] : i \in (l.acked[d] + 1)..total}]

\* The process takes the next message; a tuple and a head without data are
\* not answered.  "partial" keeps some bytes back for a later answer.
ProcessTakes ==
    LET m == Head(link.toProc)
        d == m.kind
        rest == [link EXCEPT !.toProc = Tail(@)]
        l == [rest EXCEPT !.seen[d] = @ \o m.bytes]
        all == Len(l.seen[d])
    IN  /\ link.st = "ok"
        /\ link.toProc # <<>>
        /\ \/ m.bytes = <<>> /\ link' = rest /\ UNCHANGED vetted
           \/ /\ m.bytes # <<>>
              /\ \/ "pass" \in Verdicts /\ Passes(l, d, all, FALSE)
                 \/ "create" \in Verdicts /\ Passes(l, d, all, TRUE)
                 \/ /\ "partial" \in Verdicts
                    /\ \E n \in (l.acked[d] + 1)..(all - 1) :
                           Passes([l EXCEPT !.split[d] = TRUE], d, n, FALSE)
                 \/ /\ "block" \in Verdicts
                    /\ link' = Acked(l, d, all, "block", FALSE)
                    /\ UNCHANGED vetted
    /\ UNCHANGED <<ses, sent, got, deliv, peer, listening, faults>>

\* What was acknowledged in part is acknowledged as a whole later.
ProcessGoesOn(d) ==
    /\ link.st = "ok"
    /\ link.acked[d] < Len(link.seen[d])
    /\ Passes(link, d, Len(link.seen[d]), FALSE)
    /\ UNCHANGED <<ses, sent, got, deliv, peer, listening, faults>>

ProcessBeats ==
    /\ link.st = "ok"
    /\ NoHead \notin Members(link.fromProc)
    /\ link' = [link EXCEPT !.fromProc = Append(@, NoHead)]
    /\ UNCHANGED <<ses, sent, got, deliv, vetted, peer, listening, faults>>

\* The process dies, or one of its threads stops serving this session.
ProcessDies ==
    /\ listening
    /\ faults < MaxFaults
    /\ faults' = faults + 1
    /\ listening' = FALSE
    /\ link' = IF link.st = "none" THEN link
               ELSE [link EXCEPT !.st = "dead", !.toProc = <<>>]
    /\ UNCHANGED <<ses, sent, got, deliv, vetted, peer>>

ProcessHangs ==
    /\ link.st = "ok"
    /\ faults < MaxFaults
    /\ faults' = faults + 1
    /\ link' = [link EXCEPT !.st = "hung"]
    /\ UNCHANGED <<ses, sent, got, deliv, vetted, peer, listening>>

ProcessStarts ==
    /\ ~listening
    /\ listening' = TRUE
    /\ UNCHANGED <<ses, sent, got, deliv, vetted, peer, link, faults>>

-----------------------------------------------------------------------------
Handler ==
    \/ Resolved \/ SetupFails \/ Dialed
    \/ \E d \in Dir :
           \/ ReadDirect(d) \/ ReadForProcess(d) \/ ReadEof(d) \/ Written(d)
           \/ LoopFails(d) \/ Notified(d) \/ ProcessWriteFails(d) \/ StoredWritten(d)
    \/ \E k \in Connectors :
           \/ ProcessConnected(k) \/ ConnectFails(k) \/ ConnectAgain(k)
           \/ Introduced(k) \/ NotIntroduced(k)
    \/ \E r \in Readers :
           \/ Heartbeat(r) \/ HeadRead(r) \/ BodyRead(r) \/ NewWritten(r)
           \/ HandledWritten(r) \/ ReaderFails(r) \/ ProcessReadFails(r)
           \/ RequestsFlushed(r) \/ ResponsesFlushed(r)
    \/ \E t \in Detectors : Rearm(t) \/ TimedOut(t)

PeerStep ==
    \/ \E d \in Dir : PeerSends(d) \/ PeerRead(d) \/ PeerWritten(d)
    \/ \E p \in Peers : PeerCloses(p)
    \/ ResolverDone \/ DialDone

LocalStep == ProcessAccepts \/ ProcessWritten \/ ProcessRead

TimerStep == RetryTimer \/ DetectTimer \/ FalseTimeout

ProcessStep ==
    \/ ProcessTakes \/ ProcessBeats \/ ProcessDies \/ ProcessHangs \/ ProcessStarts
    \/ \E d \in Dir : ProcessGoesOn(d)

\* Every coroutine has returned: the session is destroyed.
Gone == ses.runq = <<>> /\ \A c \in Coro : ses.pc[c] = "idle"

Terminated == Gone /\ UNCHANGED vars

Next ==
    \/ Handler \/ PeerStep \/ LocalStep \/ TimerStep \/ ProcessStep
    \/ Terminated

Spec == Init /\ [][Next]_vars

\* The thread of the io_context runs what is ready; the kernel completes what
\* can be completed; peers take what they are sent or break the connection;
\* timers fire; a process that is not stuck takes its input and answers it,
\* and one that has died is started again.  Nobody has to send, to close or
\* to go wrong, and a heartbeat may fail to come.  Steps that can only happen
\* finitely often share one conjunct.  The first conjunct is the weak fairness
\* of Handler, which is enabled whenever something is ready.
Outside ==
    \/ \E d \in Dir : PeerRead(d) \/ PeerWritten(d) \/ ProcessGoesOn(d)
    \/ ResolverDone \/ DialDone \/ ProcessWritten \/ DetectTimer
    \/ ProcessTakes \/ ProcessStarts

Fairness ==
    /\ []<>(ses.runq = <<>>) \/ []<><<Handler>>_vars
    /\ WF_vars(ProcessRead)
    /\ WF_vars(ProcessAccepts \/ RetryTimer)
    /\ WF_vars(Outside)

FairSpec == Spec /\ Fairness

-----------------------------------------------------------------------------
(***************************************************************************)
(* Properties.                                                             *)
(***************************************************************************)
TypeOK ==
    /\ ses \in SessionState
    /\ sent \in [Dir -> Nat]
    /\ got \in [Dir -> Nat]
    /\ deliv \in [Dir -> Seq(Nat)]
    /\ vetted \in [Dir -> SUBSET Nat]
    /\ peer \in [Peers -> {"up", "fin", "rst"}]
    /\ link \in LinkState
    /\ listening \in BOOLEAN
    /\ faults \in Nat

Elements(q) == {q[i] : i \in 1..Len(q)}

\* Bytes of direction d that the session still holds: in the packets stored
\* for the process, or in the buffer of the loop that has read them.
Held(d) ==
    Elements(Bytes(ses.stored[d]))
    \cup (IF \/ ses.pc[d] \in {"dread", "pread"} /\ ses.res[d] = "ok"
             \/ ses.pc[d] = "dwrite"
          THEN Elements(ses.data[d]) ELSE {})

\* Every byte that was read from its sender is delivered or still held, as
\* long as the session is open: no path through bypass, store, flush and
\* answer drops data (session.hpp 229-302, 363-404, 490-556).
NothingLost(d) ==
    ~ses.closed => 1..got[d] \subseteq (Elements(deliv[d]) \cup Held(d))

RequestsNotLost == NothingLost("req")
ResponsesNotLost == NothingLost("res")

\* What goes out on an answer of the process has been acknowledged by the
\* process: "Transfer the handled data" (session.hpp 235-250, 336).  An answer
\* that ends inside a packet leaves the counter behind for the rest of the
\* connection; nothing is said of what goes out from there.
OnlyHandledForwarded ==
    \A r \in Readers :
        LET d == ses.msg[r].type
        IN  ses.pc[r] = "wfwd" /\ ses.res[r] = "none" /\ ~link.split[d]
                => Elements(ses.data[r]) \subseteq vetted[d]

\* A composed write of asio must not meet another one on the same stream, or
\* their bytes mix: never two coroutines write to the client, nor two to the
\* server (session.hpp 284, 312, 337, 510, 577).
OneWriterPerPeer == \A p \in Peers : Len(ses.wait[Wr[p]]) <= 1

\* A write of stored packets points into the blocks they lie in, so the deque
\* must hold them until the write is done, whoever else clears or trims it in
\* the meantime (session.hpp 281, 284-290, 321-337).
BuffersOutliveWrites ==
    \A c \in Dir \cup Readers :
        LET d == CASE ses.pc[c] = "flush" -> c
                   [] ses.pc[c] = "flushReq" -> "req"
                   [] ses.pc[c] = "flushRes" -> "res"
                   [] ses.pc[c] = "wfwd" -> ses.msg[c].type
        IN  ses.pc[c] \in {"flush", "flushReq", "flushRes", "wfwd"} /\ ses.res[c] = "none"
                => Elements(ses.data[c]) \subseteq Elements(Bytes(ses.stored[d]))

\* The arithmetic on lengths stays within the stored packets, whatever was
\* appended or flushed in the meantime (session.hpp 238-242, 254-263).
NoUndefinedBehaviour == ~ses.broken

\* process_connecting_ keeps every second connect_process out: no two of them
\* work on the socket or sleep before the next attempt, and while the session
\* lives the flag is up exactly as long as one of them does (session.hpp
\* 185-188, 203-214).
OneConnecting ==
    LET trying == {k \in Connectors : ses.pc[k] \in {"connect", "retry"}}
    IN  /\ Cardinality(trying) <= 1
        /\ ~ses.closed => (ses.connecting <=> trying # {})

\* Two detectors would wake each other for ever, for each arms the timer that
\* the other waits on: a detector of an earlier connection is gone before the
\* next one starts (session.hpp 146-149, 199, 223).
OneDetector ==
    \A t, u \in Detectors :
        ses.pc[t] # "idle" /\ ses.pc[u] # "idle" => t = u

\* One reader takes the answers off the process connection (session.hpp 222).
OneReader ==
    Cardinality({r \in Readers : ses.pc[r] \in {"head", "body"}
                                 /\ ses.res[r] = "none"}) <= 1

\* Once the session is closed, none of its sockets gets a descriptor again,
\* which nobody would close (session.hpp 92-104, 203-210).
NothingReopens ==
    [][ses.closed => \A k \in Sock : ses'.sock[k] = "closed"]_vars

\* A closed session ends: all its coroutines return and it is destroyed.
ClosedEnds == ses.closed ~> Gone

\* A session that bypasses the process goes back to it, when the process is
\* there (session.hpp 203-226).
BypassEnds == ses.bypass ~> (~ses.bypass \/ ses.closed)
=============================================================================
