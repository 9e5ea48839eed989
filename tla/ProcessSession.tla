---------------------------- MODULE ProcessSession ----------------------------
(***************************************************************************)
(* One session of the business process (src/process/process.cpp): its      *)
(* coroutines setup and heartbeat, its end of the local socket, and what   *)
(* has been put on that socket.                                            *)
(*                                                                         *)
(* The stream towards the process is counted in units: a message is its    *)
(* head, unit 0, and its body, units 1 to len.  A head is written and read *)
(* whole, as are the answers of the process; a body may be split.          *)
(*                                                                         *)
(* Ready handlers run in any order.  As in module Session, operators map   *)
(* the record of a session to the record that a piece of a run leaves.     *)
(***************************************************************************)
EXTENDS Integers, Sequences, FiniteSets

CONSTANTS
    DownCap,    \* answers that fit into the socket towards the proxy
    GhostLens   \* the lengths that a head without meaning may show

ASSUME SocketBounds == DownCap \in Nat \ {0} /\ GhostLens \subseteq Nat

VARIABLES
    msgs,       \* the messages the proxy has begun to write, in that order
    wire,       \* the units it has put on the stream
    taken,      \* how many of these the process has read
    down,       \* answers that the proxy has not read yet
    conn,       \* "up"; once the proxy has closed, what the next read gives
    proc,       \* the session
    handled     \* what was handed to the handle_ functions

Dir == {"req", "res"}

Coroutine == {"setup", "heartbeat"}

\* Besides the four tuple and the two directions there are heads that mean
\* nothing to the process.
DataType == Dir \cup {"tuple", "other"}

MessageHead == [type : DataType, len : Nat]
Unit == [msg : Nat, i : Nat]
Answer == [type : Dir \cup {"hb"}, total : Nat]
Handled == [type : DataType, body : Seq(Unit), eof : BOOLEAN]

\* eof and closed are eof_ and has_closed_, total the two counters; head and
\* buf are what setup reads, writes the coroutines that write to the socket
\* in the order they began.
Process ==
    [closed : BOOLEAN, eof : BOOLEAN,
     total : [Dir -> Nat],
     at : [Coroutine -> {"head", "body", "answer", "timer", "beat", "idle"}],
     res : [Coroutine -> {"none", "ok", "eof", "err"}],
     head : MessageHead,
     buf : Seq(Unit),
     writes : Seq(Coroutine)]

NoMessage == [type |-> "other", len |-> 0]

NewProcess ==
    [closed |-> FALSE, eof |-> FALSE,
     total |-> [d \in Dir |-> 0],
     at |-> [setup |-> "head", heartbeat |-> "timer"],
     res |-> [c \in Coroutine |-> "none"],
     head |-> NoMessage,
     buf |-> <<>>,
     writes |-> <<>>]

\* The units of the body of message m.
Body(m) == [i \in 1..msgs[m].len |-> [msg |-> m, i |-> i]]

\* A head that was never written, or a piece of a body taken for one.
AnyHead == [type : DataType, len : GhostLens]

-----------------------------------------------------------------------------
Return(p, c) == [p EXCEPT !.at[c] = "idle", !.res[c] = "none"]

\* Closing wakes whatever waits for the socket or the timer.
GraceClose(p) ==
    IF p.closed
    THEN p
    ELSE [p EXCEPT !.closed = TRUE,
                   !.writes = <<>>,
                   !.res = [c \in Coroutine |->
                               IF p.at[c] # "idle" /\ p.res[c] = "none"
                               THEN "err" ELSE p.res[c]]]

GiveUp(p, c) == Return(GraceClose(p), c)

\* An operation on the socket fails at once when the socket is closed.
Await(p, c, l) ==
    [p EXCEPT !.at[c] = l,
              !.res[c] = IF p.closed THEN "err" ELSE "none",
              !.writes = IF l \in {"answer", "beat"} /\ ~p.closed
                         THEN Append(@, c) ELSE @]

\* Mutant: the end of the stream is not looked at between two messages.
NextMessageAlways(p) == Await([p EXCEPT !.buf = <<>>], "setup", "head")

\* The loop of setup ...
NextMessage(p) ==
    IF p.eof
    THEN GiveUp(p, "setup")
    ELSE Await([p EXCEPT !.buf = <<>>], "setup", "head")

\* ... and the loop of heartbeat.
NextBeat(p) ==
    IF p.closed THEN Return(p, "heartbeat") ELSE Await(p, "heartbeat", "timer")

\* The switch on the type of a message.  handle_init throws on a text that is
\* not JSON: the coroutine is gone, the session stays open.  After an end of
\* file buf_ may still hold the four tuple of before.
Handle(p) ==
    LET d == p.head.type
        counted == [p EXCEPT !.total[d] = @ + p.head.len]
        tuple == p.buf = Body(1)
    IN  /\ handled' = Append(handled, [type |-> d, body |-> p.buf, eof |-> p.eof])
        /\ \/ d \in Dir
              /\ proc' = IF d = "res" /\ p.head.len = 0
                         THEN NextMessage(counted)
                         ELSE Await(counted, "setup", "answer")
           \/ d = "tuple" /\ (tuple \/ p.eof) /\ proc' = NextMessage(p)
           \/ d = "tuple" /\ (~tuple \/ p.eof) /\ proc' = Return(p, "setup")
           \/ d = "other" /\ proc' = NextMessage(p)

\* A head is there: its body is read if it has one.
Begin(p) ==
    IF p.head.len = 0
    THEN Handle(p)
    ELSE proc' = Await(p, "setup", "body") /\ UNCHANGED handled

-----------------------------------------------------------------------------
stream == <<msgs, wire, taken, down, conn>>

Runs(c, l, r) == proc.at[c] = l /\ proc.res[c] = r

\* What stands where a head is due is taken for one.
HeadRead ==
    /\ Runs("setup", "head", "ok")
    /\ \E h \in IF proc.buf[1].i = 0 THEN {msgs[proc.buf[1].msg]} ELSE AnyHead :
           Begin([proc EXCEPT !.head = h, !.buf = <<>>])
    /\ UNCHANGED stream

\* After the end of the stream head_buf is used although nothing was read
\* into it: it may still hold the last head, or anything.
HeadMissing ==
    /\ Runs("setup", "head", "eof")
    /\ \E h \in {proc.head} \cup AnyHead :
           Begin([proc EXCEPT !.eof = TRUE, !.head = h, !.buf = <<>>])
    /\ UNCHANGED stream

BodyRead ==
    /\ Runs("setup", "body", "ok")
    /\ Handle(proc)
    /\ UNCHANGED stream

BodyMissing ==
    /\ Runs("setup", "body", "eof")
    /\ Handle([proc EXCEPT !.eof = TRUE])
    /\ UNCHANGED stream

\* Mutant: the break leaves the loop, not the switch.
AnswerWrittenLeaves ==
    /\ Runs("setup", "answer", "ok")
    /\ proc' = Return(proc, "setup")
    /\ UNCHANGED <<stream, handled>>

AnswerWritten ==
    /\ Runs("setup", "answer", "ok")
    /\ proc' = NextMessage(proc)
    /\ UNCHANGED <<stream, handled>>

SetupFails ==
    /\ \E l \in {"head", "body", "answer"} : Runs("setup", l, "err")
    /\ proc' = GiveUp(proc, "setup")
    /\ UNCHANGED <<stream, handled>>

BeatDue ==
    /\ Runs("heartbeat", "timer", "ok")
    /\ proc' = Await(proc, "heartbeat", "beat")
    /\ UNCHANGED <<stream, handled>>

\* A beat went out, or its timer was cancelled.
BeatDone ==
    /\ Runs("heartbeat", "timer", "err") \/ Runs("heartbeat", "beat", "ok")
    /\ proc' = NextBeat(proc)
    /\ UNCHANGED <<stream, handled>>

\* Mutant: a beat that cannot be written is passed over.
BeatFailsOn ==
    /\ Runs("heartbeat", "beat", "err")
    /\ proc' = NextBeat(proc)
    /\ UNCHANGED <<stream, handled>>

BeatFails ==
    /\ Runs("heartbeat", "beat", "err")
    /\ proc' = GiveUp(proc, "heartbeat")
    /\ UNCHANGED <<stream, handled>>

-----------------------------------------------------------------------------
(***************************************************************************)
(* The socket and the timer of the process.                                *)
(***************************************************************************)
Done(p, c, r) == [p EXCEPT !.res[c] = r]

\* Mutant: the process takes what there is, as async_read_some does.
ReceiveSome ==
    LET due == (IF proc.at.setup = "head" THEN 1 ELSE proc.head.len) - Len(proc.buf)
        n == IF Len(wire) - taken < due THEN Len(wire) - taken ELSE due
        p == [proc EXCEPT !.buf = @ \o SubSeq(wire, taken + 1, taken + n)]
    IN  /\ proc.at.setup \in {"head", "body"}
        /\ proc.res.setup = "none"
        /\ n > 0
        /\ taken' = taken + n
        /\ proc' = Done(p, "setup", "ok")
        /\ UNCHANGED <<msgs, wire, down, conn, handled>>

\* async_read takes what is there and goes on until it has all it asked for.
Receive ==
    LET due == (IF proc.at.setup = "head" THEN 1 ELSE proc.head.len) - Len(proc.buf)
        n == IF Len(wire) - taken < due THEN Len(wire) - taken ELSE due
        p == [proc EXCEPT !.buf = @ \o SubSeq(wire, taken + 1, taken + n)]
    IN  /\ proc.at.setup \in {"head", "body"}
        /\ proc.res.setup = "none"
        /\ n > 0
        /\ taken' = taken + n
        /\ proc' = IF n = due THEN Done(p, "setup", "ok") ELSE p
        /\ UNCHANGED <<msgs, wire, down, conn, handled>>

StreamEnds ==
    /\ proc.at.setup \in {"head", "body"}
    /\ proc.res.setup = "none"
    /\ taken = Len(wire)
    /\ conn # "up"
    /\ proc' = Done(proc, "setup", conn)
    /\ UNCHANGED <<stream, handled>>

\* Mutant: one counter serves both directions.
AnswerOfBoth(c) ==
    IF c = "heartbeat"
    THEN [type |-> "hb", total |-> 0]
    ELSE [type |-> proc.head.type, total |-> proc.total.req + proc.total.res]

\* Mutant: the total is not filled in.
AnswerWithoutTotal(c) ==
    IF c = "heartbeat"
    THEN [type |-> "hb", total |-> 0]
    ELSE [type |-> proc.head.type]

AnswerOf(c) ==
    IF c = "heartbeat"
    THEN [type |-> "hb", total |-> 0]
    ELSE [type |-> proc.head.type, total |-> proc.total[proc.head.type]]

Transmit ==
    LET c == Head(proc.writes)
        p == [proc EXCEPT !.writes = Tail(@)]
    IN  /\ proc.writes # <<>>
        /\ \/ /\ conn = "up"
              /\ Len(down) < DownCap
              /\ down' = Append(down, AnswerOf(c))
              /\ proc' = Done(p, c, "ok")
           \/ /\ conn # "up"
              /\ proc' = Done(p, c, "err")
              /\ UNCHANGED down
    /\ UNCHANGED <<msgs, wire, taken, conn, handled>>

BeatTimer ==
    /\ Runs("heartbeat", "timer", "none")
    /\ proc' = Done(proc, "heartbeat", "ok")
    /\ UNCHANGED <<stream, handled>>

-----------------------------------------------------------------------------
SetupStep ==
    \/ HeadRead \/ HeadMissing \/ BodyRead \/ BodyMissing
    \/ AnswerWritten \/ SetupFails \/ Receive \/ StreamEnds

BeatStep == BeatDue \/ BeatDone \/ BeatFails

\* Both coroutines have returned: the session is destroyed, which closes it.
ProcessGone == \A c \in Coroutine : proc.at[c] = "idle"
=============================================================================
