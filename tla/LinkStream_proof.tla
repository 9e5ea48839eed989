--------------------------- MODULE LinkStream_proof ---------------------------
(***************************************************************************)
(* What the process makes of the stream of the local socket, for every     *)
(* number and length of messages, every size of the two socket buffers and *)
(* every way the writes are cut into chunks: the state has its type, the   *)
(* process handles what was sent, acknowledges no more, and handles one    *)
(* message at most after the end of the stream.                            *)
(*                                                                         *)
(* The invariant has a part for each of the three that share the stream.   *)
(* Outgoing is about the writers of the proxy and their queue, OnWire about *)
(* the order of heads and bodies on the stream, whoever wrote them, and    *)
(* InStep and Counted say where the process stands in it, as long as what  *)
(* it has read is framed.                                                  *)
(***************************************************************************)
EXTENDS LocalLink_proof, FiniteSetTheorems, SequenceTheorems, WellFoundedInduction

NoDuplicates(q) == \A i, j \in 1..Len(q) : q[i] = q[j] => i = j

\* A writer that is not idle has a message; the first unit of it still waits
\* for the socket exactly if nothing of it was written.
Pending(w) == out[w].st = "queued" /\ out[w].next = 0

Outgoing ==
    /\ NoDuplicates(queue)
    /\ \A i \in 1..Len(queue) : out[queue[i]].st = "queued"
    /\ \A w \in Writer :
           /\ out[w].st # "idle" => out[w].msg \in 1..Len(msgs)
           /\ out[w].st = "queued" => out[w].next <= msgs[out[w].msg].len
           /\ out[w].st = "ready" => out[w].next \in 1..msgs[out[w].msg].len + 1
    /\ \A v, w \in Writer :
           out[v].st # "idle" /\ out[w].st # "idle" /\ out[v].msg = out[w].msg => v = w
    /\ \A i, j \in 1..Len(queue) :
           i < j /\ Pending(queue[i]) /\ Pending(queue[j])
               => out[queue[i]].msg < out[queue[j]].msg

\* Is the head of message m among the first n units of the stream.
HeadOut(m, n) == \E k \in 1..n : wire[k] = [msg |-> m, i |-> 0]

\* Every unit is one of its message and comes after its head, and the heads
\* come in the order in which the messages were begun, each once; so do those
\* that are still to come.
OnWire ==
    /\ \A k \in 1..Len(wire) :
           /\ wire[k].msg \in 1..Len(msgs)
           /\ wire[k].i <= msgs[wire[k].msg].len
           /\ HeadOut(wire[k].msg, k)
           /\ wire[k].i = 0 => /\ ~HeadOut(wire[k].msg, k - 1)
                               /\ \A m \in 1..wire[k].msg - 1 : HeadOut(m, k - 1)
    /\ \A w \in Writer :
           out[w].st # "idle" => (Pending(w) <=> ~HeadOut(out[w].msg, Len(wire)))
    /\ conn = "up" => \A m \in 1..Len(msgs) :
           \/ HeadOut(m, Len(wire))
           \/ \E i \in 1..Len(queue) : Pending(queue[i]) /\ out[queue[i]].msg = m

\* Once the proxy has closed nothing is written any more, in either direction,
\* and only then the process sees the end of the stream.
Ending ==
    /\ conn # "up" => /\ down = <<>> /\ queue = <<>>
                      /\ \A w \in Writer : out[w].st = "idle"
    /\ proc.eof \/ proc.res["setup"] = "eof" => conn # "up"

\* What an answer is about, and what has been read so far.
Reading(p) ==
    /\ p.at["setup"] = "answer" => p.head.type \in Dir
    /\ \A i \in 1..Len(p.writes) :
           p.writes[i] = "setup" => p.at["setup"] = "answer" /\ p.res["setup"] = "none"
    /\ \A i, j \in 1..Len(p.writes) :
           p.writes[i] = "setup" /\ p.writes[j] = "setup" => i = j
    /\ p.at["setup"] = "head" /\ p.res["setup"] = "none" => p.buf = <<>>
    /\ p.at["setup"] = "head" /\ p.res["setup"] = "ok" => Len(p.buf) = 1
    /\ p.at["setup"] = "body" /\ p.res["setup"] = "none" => Len(p.buf) < p.head.len
    /\ p.at["setup"] \in {"head", "body"} =>
           \A i \in 1..Len(p.buf) : p.buf[i].msg \in 1..Len(msgs)

Typed == TypeOK /\ Outgoing /\ Reading(proc)

\* A message is handled after the end of the stream in the last round only.
LastRound ==
    /\ proc.at["setup"] = "head" => ~proc.eof
    /\ ~proc.eof \/ proc.at["setup"] = "body" => \A k \in 1..Len(handled) : ~handled[k].eof
    /\ \A j, k \in 1..Len(handled) : handled[j].eof /\ handled[k].eof => j = k

\* The last unit that was read is the i-th of message m, the latest one ...
Reached(m, i) ==
    /\ taken > 0
    /\ wire[taken] = [msg |-> m, i |-> i]
    /\ \A k \in 1..taken : wire[k].msg <= m

\* ... and the last one of it.
Through(m) ==
    IF m = 0 THEN taken = 0
    ELSE m \in 1..Len(msgs) /\ Reached(m, msgs[m].len)

\* The process is in the stream and has not failed.
Follows ==
    /\ Framed(taken)
    /\ ~proc.eof
    /\ proc.at["setup"] # "idle"
    /\ proc.res["setup"] \in {"none", "ok"}

InStep ==
    LET h == Len(handled)
        at == proc.at["setup"]
        res == proc.res["setup"]
    IN  Follows =>
            /\ at = "head" /\ res = "none" => Through(h)
            /\ at = "head" /\ res = "ok" =>
                   proc.buf = <<[msg |-> h + 1, i |-> 0]>> /\ Reached(h + 1, 0)
            /\ at = "body" =>
                   /\ h + 1 \in 1..Len(msgs)
                   /\ proc.head = msgs[h + 1]
                   /\ \A j \in 1..Len(proc.buf) : proc.buf[j] = [msg |-> h + 1, i |-> j]
                   /\ Reached(h + 1, Len(proc.buf))
                   /\ res = "ok" => Len(proc.buf) = proc.head.len
            /\ at = "answer" => Through(h)

\* The units of bodies of direction d among the first n.
BodyUnits(d, n) == {k \in 1..n : wire[k].i > 0 /\ msgs[wire[k].msg].type = d}

\* What was counted, and what was read of the message in work, is what has
\* been read of a direction.
Counted ==
    Follows =>
        \A d \in Dir :
            proc.total[d] + (IF proc.at["setup"] = "body" /\ proc.head.type = d
                             THEN Len(proc.buf) ELSE 0)
                = Cardinality(BodyUnits(d, taken))

Intact ==
    Framed(taken) =>
        \A k \in 1..Len(handled) :
            ~handled[k].eof => k \in 1..Len(msgs) /\ handled[k] = Sent(k)

StreamInv ==
    /\ Typed /\ OnWire /\ Ending /\ LastRound
    /\ InStep /\ Counted /\ Intact /\ AcknowledgesOnlySent

-----------------------------------------------------------------------------
(***************************************************************************)
(* Induction over numbers, from the fact that < is well-founded, stated    *)
(* for a set so that it needs no operator.                                 *)
(***************************************************************************)
\* A set with zero and the successor of each of its numbers has them all.
LEMMA Induction ==
    ASSUME NEW S, 0 \in S, \A n \in Nat : n \in S => n + 1 \in S
    PROVE  Nat \subseteq S
<1> DEFINE T == Nat \ S
           R == OpToRel(<, Nat)
<1> SUFFICES ASSUME T # {} PROVE FALSE
  OBVIOUS
<1>1. IsWellFoundedOn(R, Nat)
  BY NatLessThanWellFounded
<1>2. \A x, y \in Nat : y < x => <<y, x>> \in R
  BY DEF OpToRel
<1> HIDE DEF R
<1>3. PICK x \in T : \A y \in T : ~(<<y, x>> \in R)
  <2>1. T \subseteq Nat
    OBVIOUS
  <2> HIDE DEF T
  <2> QED
    BY <1>1, <2>1, WFMin
<1>4. x \in Nat /\ x # 0 /\ x - 1 \in Nat /\ x - 1 < x /\ x = (x - 1) + 1
  OBVIOUS
<1>5. x - 1 \in T
  BY <1>4
<1> QED
  BY <1>2, <1>3, <1>4, <1>5

-----------------------------------------------------------------------------
(***************************************************************************)
(* What the operators of the process do to its record.                     *)
(***************************************************************************)
ResultOf == {"none", "ok", "eof", "err"}
LabelOf == {"head", "body", "answer", "timer", "beat", "idle"}

\* The fields of a session of the process have their types, and a change of
\* some of them leaves a session.
LEMMA Fields ==
    ASSUME NEW p \in Process
    PROVE  /\ p.closed \in BOOLEAN /\ p.eof \in BOOLEAN
           /\ p.total \in [Dir -> Nat]
           /\ p.at \in [Coroutine -> LabelOf]
           /\ p.res \in [Coroutine -> ResultOf]
           /\ p.head \in MessageHead
           /\ p.buf \in Seq(Unit)
           /\ p.writes \in Seq(Coroutine)
           /\ p.head.type \in DataType /\ p.head.len \in Nat
BY DEF Process, MessageHead, LabelOf, ResultOf

\* Two sessions that agree on everything but where they are.
Keeps(p, u) ==
    /\ u.eof = p.eof /\ u.total = p.total /\ u.head = p.head

LEMMA ReturnIs ==
    ASSUME NEW p \in Process, NEW c \in Coroutine
    PROVE  LET u == Return(p, c)
           IN  /\ u \in Process /\ Keeps(p, u)
               /\ u.at = [p.at EXCEPT ![c] = "idle"]
               /\ u.res = [p.res EXCEPT ![c] = "none"]
               /\ u.buf = p.buf /\ u.writes = p.writes
BY DEF Return, Process, Keeps

LEMMA AwaitIs ==
    ASSUME NEW p \in Process, NEW c \in Coroutine, NEW l \in LabelOf
    PROVE  LET u == Await(p, c, l)
           IN  /\ u \in Process /\ Keeps(p, u)
               /\ u.at = [p.at EXCEPT ![c] = l]
               /\ u.res = [p.res EXCEPT ![c] = IF p.closed THEN "err" ELSE "none"]
               /\ u.buf = p.buf
               /\ u.writes = IF l \in {"answer", "beat"} /\ ~p.closed
                             THEN Append(p.writes, c) ELSE p.writes
<1>1. Append(p.writes, c) \in Seq(Coroutine)
  BY DEF Process
<1> QED
  BY <1>1 DEF Await, Process, LabelOf, Keeps

LEMMA GraceCloseIs ==
    ASSUME NEW p \in Process
    PROVE  LET u == GraceClose(p)
           IN  /\ u \in Process /\ Keeps(p, u)
               /\ u.at = p.at /\ u.buf = p.buf
               /\ \/ u = p
                  \/ /\ u.writes = <<>>
                     /\ \A c \in Coroutine :
                            u.res[c] = IF p.at[c] # "idle" /\ p.res[c] = "none"
                                       THEN "err" ELSE p.res[c]
<1> DEFINE r == [c \in Coroutine |-> IF p.at[c] # "idle" /\ p.res[c] = "none"
                                     THEN "err" ELSE p.res[c]]
           u == [p EXCEPT !.closed = TRUE, !.writes = <<>>, !.res = r]
<1>1. r \in [Coroutine -> {"none", "ok", "eof", "err"}] /\ <<>> \in Seq(Coroutine)
  BY DEF Process
<1>2. GraceClose(p) = IF p.closed THEN p ELSE u
  BY DEF GraceClose
<1>3. \A c \in Coroutine : r[c] = IF p.at[c] # "idle" /\ p.res[c] = "none"
                                THEN "err" ELSE p.res[c]
  OBVIOUS
<1> HIDE DEF r
<1>4. /\ u \in Process /\ Keeps(p, u)
      /\ u.at = p.at /\ u.buf = p.buf /\ u.writes = <<>> /\ u.res = r
  BY <1>1 DEF Process, Keeps
<1>5. Keeps(p, p)
  BY DEF Keeps
<1> QED
  BY <1>2, <1>3, <1>4, <1>5

LEMMA GiveUpIs ==
    ASSUME NEW p \in Process, NEW c \in Coroutine
    PROVE  LET u == GiveUp(p, c)
           IN  /\ u \in Process /\ Keeps(p, u)
               /\ u.at = [p.at EXCEPT ![c] = "idle"]
               /\ u.res[c] = "none"
               /\ \A o \in Coroutine \ {c} :
                      \/ u.res[o] = p.res[o]
                      \/ u.res[o] = "err" /\ u.writes = <<>>
               /\ u.buf = p.buf
               /\ u.writes = p.writes \/ u.writes = <<>>
<1> DEFINE g == GraceClose(p)
<1>1. /\ g \in Process /\ Keeps(p, g) /\ g.at = p.at /\ g.buf = p.buf
      /\ \A o \in Coroutine : g.res[o] = p.res[o] \/ (g.res[o] = "err" /\ g.writes = <<>>)
      /\ g.writes = p.writes \/ g.writes = <<>>
  BY GraceCloseIs
<1> HIDE DEF g
<1>2. /\ Return(g, c) \in Process /\ Keeps(g, Return(g, c))
      /\ Return(g, c).at = [g.at EXCEPT ![c] = "idle"]
      /\ Return(g, c).res = [g.res EXCEPT ![c] = "none"]
      /\ Return(g, c).buf = g.buf /\ Return(g, c).writes = g.writes
  BY <1>1, ReturnIs
<1>3. g.res \in [Coroutine -> ResultOf]
  BY <1>1, Fields
<1> QED
  BY <1>1, <1>2, <1>3 DEF GiveUp, Keeps, g

-----------------------------------------------------------------------------
\* No answer of setup is being written.
NoAnswer(p) == \A i \in 1..Len(p.writes) : p.writes[i] # "setup"

\* The next round of setup: at a head, with nothing read, or over.
LEMMA NextMessageIs ==
    ASSUME NEW p \in Process, NoAnswer(p)
    PROVE  LET u == NextMessage(p)
           IN  /\ u \in Process /\ Keeps(p, u)
               /\ u.at["setup"] \in {"head", "idle"}
               /\ u.at["setup"] = "head" => ~p.eof /\ u.buf = <<>>
               /\ u.res["setup"] \in {"none", "err"}
               /\ NoAnswer(u)
<1>1. CASE p.eof
  <2> DEFINE u == GiveUp(p, "setup")
  <2>1. /\ u \in Process /\ Keeps(p, u)
        /\ u.at = [p.at EXCEPT !["setup"] = "idle"]
        /\ u.res["setup"] = "none"
        /\ u.writes = p.writes \/ u.writes = <<>>
    BY GiveUpIs DEF Coroutine
  <2>2. NextMessage(p) = u
    BY <1>1 DEF NextMessage
  <2> HIDE DEF u
  <2>3. u.at["setup"] = "idle"
    BY <2>1, Fields DEF Coroutine
  <2>4. NoAnswer(u)
    BY <2>1 DEF NoAnswer
  <2> QED
    BY <2>1, <2>2, <2>3, <2>4
<1>2. CASE ~p.eof
  <2> DEFINE s == [p EXCEPT !.buf = <<>>]
             u == Await(s, "setup", "head")
  <2>1. /\ s \in Process /\ Keeps(p, s) /\ s.at = p.at /\ s.res = p.res
        /\ s.writes = p.writes /\ s.buf = <<>>
    <3>1. <<>> \in Seq(Unit)
      OBVIOUS
    <3> QED
      BY <3>1 DEF Process, Keeps
  <2>2. NextMessage(p) = u
    BY <1>2 DEF NextMessage
  <2> HIDE DEF s
  <2>3. /\ u \in Process /\ Keeps(s, u)
        /\ u.at = [s.at EXCEPT !["setup"] = "head"]
        /\ u.res = [s.res EXCEPT !["setup"] = IF s.closed THEN "err" ELSE "none"]
        /\ u.buf = s.buf /\ u.writes = s.writes
    BY <2>1, AwaitIs DEF Coroutine, LabelOf
  <2> HIDE DEF u
  <2>4. u.at["setup"] = "head" /\ u.res["setup"] \in {"none", "err"}
    BY <2>1, <2>3, Fields DEF Coroutine
  <2>5. NoAnswer(u) /\ Keeps(p, u)
    BY <2>1, <2>3 DEF NoAnswer, Keeps
  <2> QED
    BY <1>2, <2>1, <2>2, <2>3, <2>4, <2>5
<1> QED
  BY <1>1, <1>2

\* A session in which setup is where the next round begins reads properly.
LEMMA RoundReads ==
    ASSUME NEW u, u.at["setup"] \in {"head", "idle"}, u.res["setup"] \in {"none", "err"},
           u.at["setup"] = "head" => u.buf = <<>>, NoAnswer(u)
    PROVE  Reading(u)
BY DEF Reading, NoAnswer

\* What handling a message leaves, with e handed over.
Handles(p, e, u) ==
    /\ e = [type |-> p.head.type, body |-> p.buf, eof |-> p.eof]
    /\ u \in Process /\ Reading(u)
    /\ u.eof = p.eof /\ u.head = p.head
    /\ u.at["setup"] \in {"head", "answer", "idle"}
    /\ u.res["setup"] \in {"none", "err"}
    /\ u.at["setup"] = "head" => ~p.eof
    /\ u.at["setup"] # "idle" =>
           \A d \in Dir : u.total[d] = p.total[d] + IF p.head.type = d THEN p.head.len ELSE 0

LEMMA HandleIs ==
    ASSUME NEW p \in Process, NoAnswer(p), Handle(p)
    PROVE  \E e \in Handled : handled' = Append(handled, e) /\ Handles(p, e, proc')
<1> DEFINE d == p.head.type
           e == [type |-> d, body |-> p.buf, eof |-> p.eof]
           t == [p.total EXCEPT ![d] = @ + p.head.len]
           counted == [p EXCEPT !.total = t]
<1>1. d \in DataType /\ p.head.len \in Nat /\ p.total \in [Dir -> Nat]
      /\ p.buf \in Seq(Unit) /\ p.eof \in BOOLEAN
  BY Fields
<1>2. e \in Handled /\ handled' = Append(handled, e)
  BY <1>1 DEF Handle, Handled
<1>3. \A u : /\ u \in Process /\ Keeps(p, u)
             /\ u.at["setup"] \in {"head", "idle"} /\ u.res["setup"] \in {"none", "err"}
             /\ u.at["setup"] = "head" => ~p.eof /\ u.buf = <<>>
             /\ NoAnswer(u)
             /\ d \notin Dir
             => Handles(p, e, u)
  <2> TAKE u
  <2> HAVE /\ u \in Process /\ Keeps(p, u)
           /\ u.at["setup"] \in {"head", "idle"} /\ u.res["setup"] \in {"none", "err"}
           /\ u.at["setup"] = "head" => ~p.eof /\ u.buf = <<>>
           /\ NoAnswer(u)
           /\ d \notin Dir
  <2>1. Reading(u)
    BY RoundReads
  <2>2. \A c \in Dir : u.total[c] = p.total[c] + IF d = c THEN p.head.len ELSE 0
    BY <1>1 DEF Keeps
  <2> QED
    BY <2>1, <2>2 DEF Handles, Keeps
<1>4. CASE d \in Dir
  <2>1. /\ counted \in Process /\ counted.head = p.head /\ counted.eof = p.eof
        /\ counted.total = t
        /\ counted.writes = p.writes /\ counted.at = p.at /\ counted.res = p.res
        /\ t \in [Dir -> Nat]
        /\ \A c \in Dir : t[c] = p.total[c] + IF d = c THEN p.head.len ELSE 0
    <3>1. t \in [Dir -> Nat]
          /\ \A c \in Dir : t[c] = p.total[c] + IF d = c THEN p.head.len ELSE 0
      BY <1>1, <1>4
    <3> HIDE DEF t
    <3> QED
      BY <3>1 DEF Process
  <2>2. proc' = NextMessage(counted) \/ proc' = Await(counted, "setup", "answer")
    <3>1. counted = [p EXCEPT !.total[d] = @ + p.head.len]
      OBVIOUS
    <3> QED
      BY <1>4, <3>1 DEF Handle, Dir
  <2> HIDE DEF counted, t
  <2>3. NoAnswer(counted)
    BY <2>1 DEF NoAnswer
  <2>4. CASE proc' = NextMessage(counted)
    <3>1. /\ proc' \in Process /\ Keeps(counted, proc')
          /\ proc'.at["setup"] \in {"head", "idle"} /\ proc'.res["setup"] \in {"none", "err"}
          /\ proc'.at["setup"] = "head" => ~counted.eof /\ proc'.buf = <<>>
          /\ NoAnswer(proc')
      BY <2>1, <2>3, <2>4, NextMessageIs
    <3>2. Reading(proc')
      BY <3>1, RoundReads
    <3>3. Handles(p, e, proc')
      BY <2>1, <3>1, <3>2 DEF Handles, Keeps
    <3> QED
      BY <1>2, <3>3
  <2>5. CASE proc' = Await(counted, "setup", "answer")
    <3> DEFINE u == Await(counted, "setup", "answer")
    <3>0. /\ u \in Process /\ Keeps(counted, u)
          /\ u.at = [counted.at EXCEPT !["setup"] = "answer"]
          /\ u.res = [counted.res EXCEPT !["setup"] = IF counted.closed THEN "err" ELSE "none"]
          /\ u.writes = IF "answer" \in {"answer", "beat"} /\ ~counted.closed
                        THEN Append(counted.writes, "setup") ELSE counted.writes
      <4>1. counted \in Process /\ "setup" \in Coroutine /\ "answer" \in LabelOf
        BY <2>1 DEF Coroutine, LabelOf
      <4> QED
        BY <4>1, AwaitIs
    <3> HIDE DEF u
    <3>1. /\ proc' \in Process /\ Keeps(counted, proc')
          /\ proc'.at = [p.at EXCEPT !["setup"] = "answer"]
          /\ proc'.res = [p.res EXCEPT !["setup"] = IF counted.closed THEN "err" ELSE "none"]
          /\ proc'.writes = IF ~counted.closed THEN Append(p.writes, "setup") ELSE p.writes
      <4>1. proc' = u
        BY <2>5 DEF u
      <4> QED
        BY <2>1, <3>0, <4>1
    <3>2. /\ proc'.at["setup"] = "answer"
          /\ proc'.res["setup"] = IF counted.closed THEN "err" ELSE "none"
      BY <3>1, Fields DEF Coroutine
    <3>3. p.writes \in Seq(Coroutine)
      BY Fields
    <3>4. Reading(proc')
      <4>1. CASE counted.closed
        BY <1>4, <2>1, <3>1, <3>2, <4>1 DEF Reading, NoAnswer, Keeps
      <4>2. CASE ~counted.closed
        <5>1. /\ Len(proc'.writes) = Len(p.writes) + 1
              /\ \A i \in 1..Len(p.writes) : proc'.writes[i] # "setup"
          BY <3>1, <3>3, <4>2 DEF NoAnswer
        <5>2. \A i \in 1..Len(proc'.writes) :
                  proc'.writes[i] = "setup" => i = Len(p.writes) + 1
          BY <3>3, <5>1
        <5> QED
          BY <1>4, <2>1, <3>1, <3>2, <4>2, <5>2 DEF Reading, Keeps
      <4> QED
        BY <4>1, <4>2
    <3>5. Handles(p, e, proc')
      BY <2>1, <3>1, <3>2, <3>4 DEF Handles, Keeps
    <3> QED
      BY <1>2, <3>5
  <2> QED
    BY <2>2, <2>4, <2>5
<1>5. CASE d \notin Dir /\ proc' = NextMessage(p)
  <2>1. /\ proc' \in Process /\ Keeps(p, proc')
        /\ proc'.at["setup"] \in {"head", "idle"} /\ proc'.res["setup"] \in {"none", "err"}
        /\ proc'.at["setup"] = "head" => ~p.eof /\ proc'.buf = <<>>
        /\ NoAnswer(proc')
    BY <1>5, NextMessageIs
  <2> QED
    BY <1>2, <1>3, <1>5, <2>1
<1>6. CASE d \notin Dir /\ proc' = Return(p, "setup")
  <2>1. /\ proc' \in Process /\ Keeps(p, proc')
        /\ proc'.at = [p.at EXCEPT !["setup"] = "idle"]
        /\ proc'.res = [p.res EXCEPT !["setup"] = "none"]
        /\ proc'.writes = p.writes
    BY <1>6, ReturnIs DEF Coroutine
  <2>2. proc'.at["setup"] = "idle" /\ proc'.res["setup"] = "none"
    BY <2>1, Fields DEF Coroutine
  <2>3. NoAnswer(proc')
    BY <2>1 DEF NoAnswer
  <2> QED
    BY <1>2, <1>3, <1>6, <2>1, <2>2, <2>3
<1> QED
  BY <1>1, <1>4, <1>5, <1>6 DEF Handle, DataType, Dir

-----------------------------------------------------------------------------
(***************************************************************************)
(* Facts about the stream.                                                 *)
(***************************************************************************)
\* The types of the two sequences, and of the units on the stream.
LEMMA StreamTypes ==
    ASSUME TypeOK, OnWire
    PROVE  /\ msgs \in Seq(MessageHead) /\ wire \in Seq(Unit) /\ handled \in Seq(Handled)
           /\ taken \in Nat /\ Len(wire) \in Nat /\ Len(msgs) \in Nat /\ taken <= Len(wire)
           /\ \A m \in 1..Len(msgs) : msgs[m] \in MessageHead
                                      /\ msgs[m].len \in Nat /\ msgs[m].type \in DataType
           /\ \A k \in 1..Len(wire) : /\ wire[k].i \in Nat /\ wire[k].msg \in 1..Len(msgs)
                                      /\ wire[k] = [msg |-> wire[k].msg, i |-> wire[k].i]
                                      /\ wire[k].i <= msgs[wire[k].msg].len
<1>1. /\ msgs \in Seq(MessageHead) /\ wire \in Seq(Unit) /\ handled \in Seq(Handled)
      /\ taken \in 0..Len(wire)
  BY DEF TypeOK
<1>2. taken \in Nat /\ Len(wire) \in Nat /\ Len(msgs) \in Nat /\ taken <= Len(wire)
  BY <1>1
<1>3. ASSUME NEW m \in 1..Len(msgs)
      PROVE  msgs[m] \in MessageHead /\ msgs[m].len \in Nat /\ msgs[m].type \in DataType
  <2>1. msgs[m] \in MessageHead
    BY <1>1
  <2> QED
    BY <2>1 DEF MessageHead
<1>4. ASSUME NEW k \in 1..Len(wire)
      PROVE  wire[k].i \in Nat /\ wire[k] = [msg |-> wire[k].msg, i |-> wire[k].i]
  <2>1. wire[k] \in Unit
    BY <1>1
  <2> QED
    BY <2>1 DEF Unit
<1>5. \A k \in 1..Len(wire) : /\ wire[k].msg \in 1..Len(msgs)
                             /\ wire[k].i <= msgs[wire[k].msg].len
  BY DEF OnWire
<1> QED
  BY <1>1, <1>2, <1>3, <1>4, <1>5

\* What is framed is framed up to every unit of it.
LEMMA FramedPrefix ==
    ASSUME NEW n \in Nat, Framed(n), NEW m \in Nat, m <= n
    PROVE  Framed(m)
BY DEF Framed

\* Where the stream is framed a message is not left before its end.
LEMMA FramedRun ==
    ASSUME TypeOK, OnWire, NEW a \in 1..Len(wire), NEW n \in Nat, a + n <= Len(wire),
           Framed(a + n), wire[a].i + n <= msgs[wire[a].msg].len
    PROVE  \A j \in 0..n : wire[a + j] = [msg |-> wire[a].msg, i |-> wire[a].i + j]
<1> DEFINE U(j) == [msg |-> wire[a].msg, i |-> wire[a].i + j]
           S == {j \in Nat : j <= n => wire[a + j] = U(j)}
<1>1. wire[a].i \in Nat /\ wire[a] = U(0) /\ msgs[wire[a].msg].len \in Nat
  <2>1. /\ wire[a].i \in Nat /\ wire[a] = [msg |-> wire[a].msg, i |-> wire[a].i]
        /\ wire[a].msg \in 1..Len(msgs)
    BY StreamTypes
  <2>2. wire[a].i + 0 = wire[a].i /\ msgs[wire[a].msg].len \in Nat
    BY <2>1, StreamTypes
  <2> QED
    BY <2>1, <2>2
<1>2. 0 \in S
  <2>1. a + 0 = a
    OBVIOUS
  <2> QED
    BY <1>1, <2>1
<1>3. ASSUME NEW j \in Nat, j \in S
      PROVE  j + 1 \in S
  <2> SUFFICES ASSUME j + 1 <= n PROVE wire[a + (j + 1)] = U(j + 1)
    OBVIOUS
  <2>1. wire[a + j] = U(j) /\ a + j \in 1..(a + n) - 1 /\ a + (j + 1) = (a + j) + 1
    BY <1>3
  <2>2. U(j).i = wire[a].i + j /\ U(j).msg = wire[a].msg
    OBVIOUS
  <2>3. U(j).i # msgs[U(j).msg].len
    BY <1>1, <2>2
  <2>4. wire[(a + j) + 1] = [U(j) EXCEPT !.i = @ + 1]
    BY <2>1, <2>3 DEF Framed
  <2>5. [U(j) EXCEPT !.i = @ + 1] = U(j + 1)
    <3>1. (wire[a].i + j) + 1 = wire[a].i + (j + 1)
      BY <1>1
    <3>2. [U(j) EXCEPT !.i = @ + 1] = [msg |-> wire[a].msg, i |-> (wire[a].i + j) + 1]
      OBVIOUS
    <3> QED
      BY <3>1, <3>2
  <2> QED
    BY <2>1, <2>4, <2>5
<1> HIDE DEF S
<1>4. Nat \subseteq S
  BY <1>2, <1>3, Induction
<1> QED
  BY <1>4 DEF S

\* Behind a whole message comes the head of the next one.
LEMMA NextHead ==
    ASSUME TypeOK, OnWire, NEW h \in Nat, Through(h), taken < Len(wire), Framed(taken + 1)
    PROVE  /\ wire[taken + 1] = [msg |-> h + 1, i |-> 0]
           /\ h + 1 \in 1..Len(msgs)
           /\ \A k \in 1..taken + 1 : wire[k].msg <= h + 1
<1> DEFINE v == wire[taken + 1]
<1>1. /\ taken \in Nat /\ taken + 1 \in 1..Len(wire)
      /\ v.i \in Nat /\ v.msg \in 1..Len(msgs) /\ v = [msg |-> v.msg, i |-> v.i]
      /\ Len(msgs) \in Nat
  BY StreamTypes
<1>2. v.i = 0 => ~HeadOut(v.msg, taken) /\ \A m \in 1..v.msg - 1 : HeadOut(m, taken)
  <2>1. (taken + 1) - 1 = taken
    BY <1>1
  <2> QED
    BY <1>1, <2>1 DEF OnWire
<1>3. HeadOut(v.msg, taken + 1)
  BY <1>1 DEF OnWire
<1>4. CASE h = 0
  <2>1. taken = 0
    BY <1>4 DEF Through
  <2>2. v.i = 0
    BY <1>1, <1>3, <2>1 DEF HeadOut
  <2>3. v.msg = 1
    <3>1. \A m : ~HeadOut(m, taken)
      BY <2>1 DEF HeadOut
    <3>2. ~(1 \in 1..v.msg - 1)
      BY <1>2, <2>2, <3>1
    <3> QED
      BY <1>1, <3>2
  <2> QED
    BY <1>1, <1>4, <2>1, <2>2, <2>3
<1>5. CASE h # 0
  <2>1. /\ h \in 1..Len(msgs) /\ taken > 0
        /\ wire[taken] = [msg |-> h, i |-> msgs[h].len]
        /\ \A k \in 1..taken : wire[k].msg <= h
    BY <1>5 DEF Through, Reached
  <2>2. v.i = 0
    <3>1. taken \in 1..(taken + 1) - 1 /\ taken \in 1..Len(wire)
      BY <1>1, <2>1
    <3>2. \/ v = [wire[taken] EXCEPT !.i = @ + 1]
          \/ v.i = 0
      BY <3>1 DEF Framed
    <3>3. [wire[taken] EXCEPT !.i = @ + 1] = [msg |-> h, i |-> msgs[h].len + 1]
      BY <2>1
    <3>4. v.i <= msgs[v.msg].len /\ msgs[h].len \in Nat
      BY <1>1, <2>1, StreamTypes
    <3>5. v # [msg |-> h, i |-> msgs[h].len + 1]
      BY <3>4
    <3> QED
      BY <3>2, <3>3, <3>5
  <2>3. \A m \in 1..h : HeadOut(m, taken)
    <3> SUFFICES ASSUME NEW m \in 1..h PROVE HeadOut(m, taken)
      OBVIOUS
    <3>1. taken \in 1..Len(wire) /\ wire[taken].msg = h
      BY <1>1, <2>1
    <3>2. HeadOut(h, taken)
      BY <3>1 DEF OnWire
    <3>3. CASE m = h
      BY <3>2, <3>3
    <3>4. CASE m # h
      <4>1. PICK k \in 1..taken : wire[k] = [msg |-> h, i |-> 0]
        BY <3>2 DEF HeadOut
      <4>2. k \in 1..Len(wire) /\ wire[k].i = 0 /\ wire[k].msg = h /\ m \in 1..h - 1
        BY <1>1, <3>4, <4>1
      <4>3. HeadOut(m, k - 1)
        BY <4>2 DEF OnWire
      <4> QED
        BY <1>1, <4>1, <4>3 DEF HeadOut
    <3> QED
      BY <3>3, <3>4
  <2>4. ~(v.msg \in 1..h)
    BY <1>2, <2>2, <2>3
  <2>5. v.msg - 1 <= h
    <3> SUFFICES ASSUME v.msg - 1 > h PROVE FALSE
      BY <1>1
    <3>1. h + 1 \in 1..v.msg - 1
      BY <1>1
    <3>2. PICK k \in 1..taken : wire[k] = [msg |-> h + 1, i |-> 0]
      BY <1>2, <2>2, <3>1 DEF HeadOut
    <3> QED
      BY <2>1, <3>2
  <2>6. v.msg = h + 1
    BY <1>1, <2>4, <2>5
  <2>7. \A k \in 1..taken + 1 : wire[k].msg <= h + 1
    <3> TAKE k \in 1..taken + 1
    <3>1. CASE k = taken + 1
      BY <2>6, <3>1
    <3>2. CASE k # taken + 1
      <4>1. k \in 1..taken /\ k \in 1..Len(wire)
        BY <1>1, <3>2
      <4>2. wire[k].msg \in 1..Len(msgs)
        BY <4>1, StreamTypes
      <4>3. wire[k].msg <= h
        BY <2>1, <4>1
      <4> QED
        BY <1>1, <4>2, <4>3
    <3> QED
      BY <3>1, <3>2
  <2> QED
    BY <1>1, <2>2, <2>6, <2>7
<1> QED
  BY <1>4, <1>5

\* Units of a body count, heads do not.
LEMMA BodyUnitsGrow ==
    ASSUME NEW d \in Dir, NEW a \in Nat, NEW n \in Nat,
           \A k \in a + 1..a + n : wire[k].i > 0 /\ msgs[wire[k].msg].type = d
    PROVE  /\ Cardinality(BodyUnits(d, a)) \in Nat
           /\ Cardinality(BodyUnits(d, a + n)) = Cardinality(BodyUnits(d, a)) + n
<1> DEFINE A == BodyUnits(d, a)
           B == a + 1..a + n
<1>1. IsFiniteSet(A) /\ Cardinality(A) \in Nat
  <2>1. IsFiniteSet(1..a) /\ A \subseteq 1..a
    BY FS_Interval DEF BodyUnits
  <2> QED
    BY <2>1, FS_Subset, FS_CardinalityType
<1>2. IsFiniteSet(B) /\ Cardinality(B) = n
  <2>1. a + 1 \in Int /\ a + n \in Int
    OBVIOUS
  <2>2. IsFiniteSet(B) /\ Cardinality(B) = IF a + 1 > a + n THEN 0 ELSE (a + n) - (a + 1) + 1
    BY <2>1, FS_Interval
  <2> QED
    BY <2>2
<1>3. BodyUnits(d, a + n) = A \cup B /\ A \cap B = {}
  BY DEF BodyUnits
<1> HIDE DEF A, B
<1>4. Cardinality(A \cup B) = Cardinality(A) + Cardinality(B) - Cardinality(A \cap B)
  BY <1>1, <1>2, FS_Union
<1>5. Cardinality(A \cap B) = 0
  BY <1>3, FS_EmptySet
<1>6. Cardinality(A \cup B) = Cardinality(A) + n
  BY <1>1, <1>2, <1>4, <1>5
<1>7. Cardinality(BodyUnits(d, a + n)) = Cardinality(A) + n
  BY <1>3, <1>6
<1> QED
  BY <1>1, <1>7 DEF A

LEMMA BodyUnitsSame ==
    ASSUME NEW d \in Dir, NEW a \in Nat, NEW n \in Nat,
           \A k \in a + 1..a + n : ~(wire[k].i > 0 /\ msgs[wire[k].msg].type = d)
    PROVE  /\ Cardinality(BodyUnits(d, a)) \in Nat
           /\ BodyUnits(d, a + n) = BodyUnits(d, a)
<1>1. IsFiniteSet(1..a) /\ BodyUnits(d, a) \subseteq 1..a
  BY FS_Interval DEF BodyUnits
<1>2. Cardinality(BodyUnits(d, a)) \in Nat
  BY <1>1, FS_Subset, FS_CardinalityType
<1> QED
  BY <1>2 DEF BodyUnits

-----------------------------------------------------------------------------
(***************************************************************************)
(* Steps of the process.                                                   *)
(***************************************************************************)
\* The whole of the next message has been read.
Whole(p) ==
    LET h == Len(handled)
    IN  Framed(taken) =>
            /\ h + 1 \in 1..Len(msgs)
            /\ p.head = msgs[h + 1]
            /\ p.buf = Body(h + 1)
            /\ Through(h + 1)
            /\ \A d \in Dir :
                   proc.total[d] + (IF p.head.type = d THEN p.head.len ELSE 0)
                       = Cardinality(BodyUnits(d, taken))

\* A message that is handled before the end of the stream was read as a whole;
\* behind the end the next round is over.
LEMMA HandledInv ==
    ASSUME StreamInv, NEW p \in Process, NEW e \in Handled,
           handled' = Append(handled, e), Handles(p, e, proc'),
           UNCHANGED <<msgs, wire, taken>>,
           proc.at["setup"] \in {"head", "body"}, proc.eof => p.eof,
           p.total = proc.total, ~p.eof => Whole(p)
    PROVE  /\ handled' \in Seq(Handled)
           /\ LastRound' /\ InStep' /\ Counted' /\ Intact'
<1> DEFINE h == Len(handled)
<1>1. /\ handled \in Seq(Handled) /\ h \in Nat /\ e.eof = p.eof
      /\ handled' \in Seq(Handled) /\ Len(handled') = h + 1
      /\ handled'[h + 1] = e
      /\ \A k \in 1..h : handled'[k] = handled[k]
      /\ \A k \in 1..Len(handled') : k \in 1..h \/ k = h + 1
  BY DEF StreamInv, Typed, TypeOK, Handles
<1>2. \A k \in 1..h : ~handled[k].eof
  BY DEF StreamInv, LastRound
<1>3. /\ proc'.eof = p.eof
      /\ proc'.at["setup"] \in {"head", "answer", "idle"}
      /\ proc'.res["setup"] \in {"none", "err"}
      /\ proc'.at["setup"] = "head" => ~p.eof
  BY DEF Handles
<1>4. LastRound'
  BY <1>1, <1>2, <1>3 DEF LastRound
<1>5. ASSUME Framed(taken), ~p.eof
      PROVE  /\ h + 1 \in 1..Len(msgs) /\ Through(h + 1)
             /\ e = Sent(h + 1)
  <2>1. p.eof = FALSE
    BY <1>5, Fields
  <2> QED
    BY <1>5, <2>1 DEF Whole, Sent, Handles
<1>6. Intact'
  <2> SUFFICES ASSUME Framed(taken), NEW k \in 1..Len(handled'), ~handled'[k].eof
               PROVE  k \in 1..Len(msgs) /\ handled'[k] = Sent(k)
    BY DEF Intact, Framed, Sent, Body
  <2>1. CASE k \in 1..h
    BY <1>1, <2>1 DEF StreamInv, Intact
  <2>2. CASE k = h + 1
    BY <1>1, <1>5, <2>2
  <2> QED
    BY <1>1, <2>1, <2>2
<1>7. ASSUME Follows'
      PROVE  Through(h + 1) /\ Framed(taken) /\ ~p.eof
             /\ proc'.at["setup"] \in {"head", "answer"} /\ proc'.res["setup"] = "none"
  BY <1>3, <1>5, <1>7 DEF Follows, Framed
<1>8. InStep'
  <2>1. h + 1 # 0
    BY <1>1
  <2> SUFFICES ASSUME Follows' PROVE Through(Len(handled))'
    BY <1>7 DEF InStep
  <2>2. /\ h + 1 \in 1..Len(msgs) /\ taken > 0
        /\ wire[taken] = [msg |-> h + 1, i |-> msgs[h + 1].len]
        /\ \A k \in 1..taken : wire[k].msg <= h + 1
    BY <1>7, <2>1 DEF Through, Reached
  <2> QED
    BY <1>1, <2>1, <2>2 DEF Through, Reached
<1>9. Counted'
  <2> SUFFICES ASSUME Follows', NEW d \in Dir
               PROVE  proc'.total[d] + 0 = Cardinality(BodyUnits(d, taken))
    BY <1>7 DEF Counted, BodyUnits
  <2>1. /\ proc'.total[d] = p.total[d] + IF p.head.type = d THEN p.head.len ELSE 0
        /\ proc'.total[d] \in Nat
    <3>1. proc' \in Process
      BY DEF Handles
    <3> QED
      BY <1>7, <3>1, Fields DEF Handles
  <2> QED
    BY <1>7, <2>1 DEF Whole
<1> QED
  BY <1>1, <1>4, <1>6, <1>8, <1>9

\* Setup waits or comes to an end, or goes from an answer to the next round.
Stays(u) ==
    \/ u.at["setup"] = "idle"
    \/ /\ u.at["setup"] = proc.at["setup"]
       /\ \/ u.res["setup"] \in {"eof", "err"}
          \/ u.res["setup"] = proc.res["setup"] /\ u.buf = proc.buf
          \/ proc.at["setup"] = "answer" /\ proc.res["setup"] = "none"
    \/ /\ proc.at["setup"] = "answer" /\ proc.res["setup"] = "ok"
       /\ u.at["setup"] = "head" /\ ~u.eof /\ u.buf = <<>>
       /\ u.res["setup"] \in {"none", "err"}

LEMMA StaysInv ==
    ASSUME StreamInv, Stays(proc'), Keeps(proc, proc'),
           UNCHANGED <<msgs, wire, taken, handled>>
    PROVE  LastRound' /\ InStep' /\ Counted' /\ Intact'
<1>1. LastRound'
  BY DEF StreamInv, LastRound, Stays, Keeps
<1>2. Intact'
  BY DEF StreamInv, Intact, Framed, Sent, Body
<1>3. ASSUME Follows'
      PROVE  /\ Follows
             /\ \/ /\ proc'.at["setup"] = proc.at["setup"]
                   /\ proc'.res["setup"] = proc.res["setup"] /\ proc'.buf = proc.buf
                \/ proc'.at["setup"] = "answer" /\ proc.at["setup"] = "answer"
                \/ /\ proc.at["setup"] = "answer" /\ proc'.at["setup"] = "head"
                   /\ proc'.buf = <<>> /\ proc'.res["setup"] = "none"
  <2>1. /\ proc'.at["setup"] # "idle" /\ proc'.res["setup"] \in {"none", "ok"}
        /\ Framed(taken) /\ ~proc.eof
    BY <1>3 DEF Follows, Keeps, Framed
  <2> QED
    BY <2>1 DEF Follows, Stays
<1>4. InStep'
  <2>0. \A m : (Through(m)' <=> Through(m)) /\ \A i : (Reached(m, i)' <=> Reached(m, i))
    BY DEF Through, Reached
  <2>1. Len(handled)' = Len(handled) /\ Len(msgs)' = Len(msgs) /\ msgs' = msgs
        /\ proc'.head = proc.head
    BY DEF Keeps
  <2> DEFINE h == Len(handled)
  <2> SUFFICES ASSUME Follows'
               PROVE
            /\ proc'.at["setup"] = "head" /\ proc'.res["setup"] = "none" => Through(h)
            /\ proc'.at["setup"] = "head" /\ proc'.res["setup"] = "ok" =>
                   proc'.buf = <<[msg |-> h + 1, i |-> 0]>> /\ Reached(h + 1, 0)
            /\ proc'.at["setup"] = "body" =>
                   /\ h + 1 \in 1..Len(msgs)
                   /\ proc'.head = msgs[h + 1]
                   /\ \A j \in 1..Len(proc'.buf) : proc'.buf[j] = [msg |-> h + 1, i |-> j]
                   /\ Reached(h + 1, Len(proc'.buf))
                   /\ proc'.res["setup"] = "ok" => Len(proc'.buf) = proc'.head.len
            /\ proc'.at["setup"] = "answer" => Through(h)
    BY <2>0, <2>1 DEF InStep
  <2>2. /\ proc.at["setup"] = "head" /\ proc.res["setup"] = "none" => Through(h)
        /\ proc.at["setup"] = "head" /\ proc.res["setup"] = "ok" =>
               proc.buf = <<[msg |-> h + 1, i |-> 0]>> /\ Reached(h + 1, 0)
        /\ proc.at["setup"] = "body" =>
               /\ h + 1 \in 1..Len(msgs)
               /\ proc.head = msgs[h + 1]
               /\ \A j \in 1..Len(proc.buf) : proc.buf[j] = [msg |-> h + 1, i |-> j]
               /\ Reached(h + 1, Len(proc.buf))
               /\ proc.res["setup"] = "ok" => Len(proc.buf) = proc.head.len
        /\ proc.at["setup"] = "answer" => Through(h)
    BY <1>3 DEF StreamInv, InStep
  <2>3. CASE /\ proc'.at["setup"] = proc.at["setup"]
             /\ proc'.res["setup"] = proc.res["setup"] /\ proc'.buf = proc.buf
    BY <2>1, <2>2, <2>3
  <2>4. CASE proc.at["setup"] = "answer" /\ proc'.at["setup"] = "answer"
    BY <2>2, <2>4
  <2>5. CASE /\ proc.at["setup"] = "answer" /\ proc'.at["setup"] = "head"
             /\ proc'.buf = <<>> /\ proc'.res["setup"] = "none"
    BY <2>2, <2>5
  <2> QED
    BY <1>3, <2>3, <2>4, <2>5
<1>5. Counted'
  <2> SUFFICES ASSUME Follows', NEW d \in Dir
               PROVE  proc'.total[d] + (IF proc'.at["setup"] = "body" /\ proc'.head.type = d
                                        THEN Len(proc'.buf) ELSE 0)
                          = Cardinality(BodyUnits(d, taken))
    BY DEF Counted, BodyUnits
  <2>1. proc.total[d] + (IF proc.at["setup"] = "body" /\ proc.head.type = d
                         THEN Len(proc.buf) ELSE 0) = Cardinality(BodyUnits(d, taken))
    BY <1>3 DEF StreamInv, Counted
  <2>2. proc'.total = proc.total /\ proc'.head = proc.head
    BY DEF Keeps
  <2>3. \/ proc'.at["setup"] = proc.at["setup"] /\ proc'.buf = proc.buf
        \/ proc'.at["setup"] # "body" /\ proc.at["setup"] # "body"
    BY <1>3
  <2> QED
    BY <2>1, <2>2, <2>3
<1> QED
  BY <1>1, <1>2, <1>4, <1>5

\* What remains of the invariant when a step of the process has left the
\* messages and the stream alone.
LEMMA ProcessLeaves ==
    ASSUME StreamInv, Aside, UNCHANGED <<msgs, wire, conn>>,
           taken' \in 0..Len(wire), down' \in Seq(Answer),
           conn # "up" => down' = <<>>,
           proc' \in Process, handled' \in Seq(Handled), Reading(proc)',
           proc'.eof \/ proc'.res["setup"] = "eof" => conn # "up",
           LastRound', InStep', Counted', Intact', AcknowledgesOnlySent'
    PROVE  StreamInv'
<1>1. UNCHANGED <<bypassed, out, queue, mem, acked>>
  BY DEF Aside, proxyVars
<1>2. TypeOK'
  BY <1>1 DEF StreamInv, Typed, TypeOK
<1>3. Outgoing'
  BY <1>1 DEF StreamInv, Typed, Outgoing, NoDuplicates, Pending
<1>4. OnWire'
  BY <1>1 DEF StreamInv, OnWire, HeadOut, Pending
<1>5. Ending'
  BY <1>1 DEF StreamInv, Ending
<1> QED
  BY <1>2, <1>3, <1>4, <1>5 DEF StreamInv, Typed

\* Most steps of the process leave the stream and the answers alone, too.
LEMMA StreamLeft ==
    ASSUME StreamInv, Aside, UNCHANGED stream,
           proc' \in Process, handled' \in Seq(Handled), Reading(proc)',
           proc'.eof \/ proc'.res["setup"] = "eof" => conn # "up",
           LastRound', InStep', Counted', Intact'
    PROVE  StreamInv'
<1>1. UNCHANGED <<msgs, wire, conn, taken, down, acked>>
  BY DEF stream, Aside, proxyVars
<1>2. AcknowledgesOnlySent'
  BY <1>1 DEF StreamInv, AcknowledgesOnlySent, Framed, OnStream
<1>3. taken' \in 0..Len(wire) /\ down' \in Seq(Answer) /\ (conn # "up" => down' = <<>>)
  BY <1>1 DEF StreamInv, Typed, TypeOK, Ending
<1> QED
  BY <1>1, <1>2, <1>3, ProcessLeaves

LEMMA StepStays ==
    ASSUME StreamInv, Aside, UNCHANGED <<stream, handled>>,
           proc' \in Process, Keeps(proc, proc'), Stays(proc'), Reading(proc)',
           proc'.res["setup"] = "eof" => conn # "up"
    PROVE  StreamInv'
<1>1. UNCHANGED <<msgs, wire, taken, handled>> /\ UNCHANGED stream
  BY DEF stream
<1>2. LastRound' /\ InStep' /\ Counted' /\ Intact'
  BY <1>1, StaysInv
<1>3. handled' \in Seq(Handled)
  BY <1>1 DEF StreamInv, Typed, TypeOK
<1>4. proc'.eof => conn # "up"
  BY DEF StreamInv, Ending, Keeps
<1> QED
  BY <1>1, <1>2, <1>3, <1>4, StreamLeft

\* Outside of "answer" no answer is being written, and there only one.
LEMMA AnswersOnce ==
    ASSUME Reading(proc), proc.at["setup"] # "answer" \/ proc.res["setup"] # "none"
    PROVE  NoAnswer(proc)
BY DEF Reading, NoAnswer

LEMMA StepAnswerWritten ==
    ASSUME StreamInv, Aside, AnswerWritten
    PROVE  StreamInv'
<1>1. /\ proc.at["setup"] = "answer" /\ proc.res["setup"] = "ok"
      /\ proc' = NextMessage(proc) /\ UNCHANGED <<stream, handled>>
  BY DEF AnswerWritten, Runs
<1>2. proc \in Process /\ Reading(proc)
  BY DEF StreamInv, Typed, TypeOK
<1>3. NoAnswer(proc)
  BY <1>1, <1>2, AnswersOnce
<1>4. /\ proc' \in Process /\ Keeps(proc, proc')
      /\ proc'.at["setup"] \in {"head", "idle"}
      /\ proc'.at["setup"] = "head" => ~proc.eof /\ proc'.buf = <<>>
      /\ proc'.res["setup"] \in {"none", "err"}
      /\ NoAnswer(proc')
  BY <1>1, <1>2, <1>3, NextMessageIs
<1>5. Stays(proc')
  BY <1>1, <1>4 DEF Stays, Keeps
<1>6. Reading(proc)'
  BY <1>4, RoundReads DEF Reading, NoAnswer
<1> QED
  BY <1>1, <1>4, <1>5, <1>6, StepStays

LEMMA StepSetupFails ==
    ASSUME StreamInv, Aside, SetupFails
    PROVE  StreamInv'
<1>1. /\ proc.res["setup"] = "err"
      /\ proc' = GiveUp(proc, "setup") /\ UNCHANGED <<stream, handled>>
  BY DEF SetupFails, Runs
<1>2. proc \in Process /\ Reading(proc)
  BY DEF StreamInv, Typed, TypeOK
<1>3. NoAnswer(proc)
  BY <1>1, <1>2, AnswersOnce
<1>4. /\ proc' \in Process /\ Keeps(proc, proc')
      /\ proc'.at = [proc.at EXCEPT !["setup"] = "idle"]
      /\ proc'.res["setup"] = "none"
      /\ proc'.writes = proc.writes \/ proc'.writes = <<>>
  BY <1>1, <1>2, GiveUpIs DEF Coroutine
<1>5. proc'.at["setup"] = "idle" /\ NoAnswer(proc')
  BY <1>2, <1>3, <1>4, Fields DEF Coroutine, NoAnswer
<1>6. Stays(proc')
  BY <1>5 DEF Stays
<1>7. Reading(proc)'
  BY <1>5 DEF Reading, NoAnswer
<1> QED
  BY <1>1, <1>4, <1>6, <1>7, StepStays

LEMMA StepBeatDue ==
    ASSUME StreamInv, Aside, BeatDue
    PROVE  StreamInv'
<1>1. proc' = Await(proc, "heartbeat", "beat") /\ UNCHANGED <<stream, handled>>
  BY DEF BeatDue
<1>2. proc \in Process /\ Reading(proc) /\ msgs' = msgs
  BY <1>1 DEF StreamInv, Typed, TypeOK, stream
<1>3. /\ proc' \in Process /\ Keeps(proc, proc')
      /\ proc'.at = [proc.at EXCEPT !["heartbeat"] = "beat"]
      /\ proc'.res = [proc.res EXCEPT !["heartbeat"] = IF proc.closed THEN "err" ELSE "none"]
      /\ proc'.buf = proc.buf
      /\ proc'.writes = IF "beat" \in {"answer", "beat"} /\ ~proc.closed
                        THEN Append(proc.writes, "heartbeat") ELSE proc.writes
  <2>1. "heartbeat" \in Coroutine /\ "beat" \in LabelOf
    BY DEF Coroutine, LabelOf
  <2> QED
    BY <1>1, <1>2, <2>1, AwaitIs
<1>4. proc'.at["setup"] = proc.at["setup"] /\ proc'.res["setup"] = proc.res["setup"]
  BY <1>2, <1>3, Fields DEF Coroutine
<1>5. \A i \in 1..Len(proc'.writes) :
          proc'.writes[i] = "setup" => i \in 1..Len(proc.writes) /\ proc.writes[i] = "setup"
  <2>1. proc.writes \in Seq(Coroutine)
    BY <1>2, Fields
  <2> QED
    BY <1>3, <2>1
<1>6. Stays(proc') /\ (proc'.res["setup"] = "eof" => conn # "up")
  BY <1>3, <1>4 DEF Stays, StreamInv, Ending
<1>7. Reading(proc)'
  BY <1>2, <1>3, <1>4, <1>5 DEF Reading, Keeps
<1> QED
  BY <1>1, <1>3, <1>6, <1>7, StepStays

LEMMA StepBeatDone ==
    ASSUME StreamInv, Aside, BeatDone
    PROVE  StreamInv'
<1>1. /\ \/ proc' = Return(proc, "heartbeat") \/ proc' = Await(proc, "heartbeat", "timer")
      /\ UNCHANGED <<stream, handled>>
  BY DEF BeatDone, NextBeat
<1>2. proc \in Process /\ Reading(proc) /\ msgs' = msgs
  BY <1>1 DEF StreamInv, Typed, TypeOK, stream
<1>3. /\ proc' \in Process /\ Keeps(proc, proc')
      /\ \E l \in LabelOf : proc'.at = [proc.at EXCEPT !["heartbeat"] = l]
      /\ \E r \in ResultOf : proc'.res = [proc.res EXCEPT !["heartbeat"] = r]
      /\ proc'.buf = proc.buf /\ proc'.writes = proc.writes
  <2>1. "heartbeat" \in Coroutine /\ "timer" \in LabelOf /\ "idle" \in LabelOf
        /\ "none" \in ResultOf /\ "err" \in ResultOf
    BY DEF Coroutine, LabelOf, ResultOf
  <2>2. CASE proc' = Return(proc, "heartbeat")
    BY <1>2, <2>1, <2>2, ReturnIs
  <2>3. CASE proc' = Await(proc, "heartbeat", "timer")
    <3> DEFINE u == Await(proc, "heartbeat", "timer")
    <3>1. /\ u \in Process /\ Keeps(proc, u)
          /\ u.at = [proc.at EXCEPT !["heartbeat"] = "timer"]
          /\ u.res = [proc.res EXCEPT !["heartbeat"] = IF proc.closed THEN "err" ELSE "none"]
          /\ u.buf = proc.buf
          /\ u.writes = IF "timer" \in {"answer", "beat"} /\ ~proc.closed
                        THEN Append(proc.writes, "heartbeat") ELSE proc.writes
      BY <1>2, <2>1, AwaitIs
    <3>2. u.writes = proc.writes /\ proc' = u
      BY <2>3, <3>1
    <3> HIDE DEF u
    <3> QED
      BY <2>1, <3>1, <3>2
  <2> QED
    BY <1>1, <2>2, <2>3
<1>4. proc'.at["setup"] = proc.at["setup"] /\ proc'.res["setup"] = proc.res["setup"]
  BY <1>2, <1>3, Fields DEF Coroutine
<1>5. Stays(proc') /\ (proc'.res["setup"] = "eof" => conn # "up")
  BY <1>3, <1>4 DEF Stays, StreamInv, Ending
<1>6. Reading(proc)'
  BY <1>2, <1>3, <1>4 DEF Reading, Keeps
<1> QED
  BY <1>1, <1>3, <1>5, <1>6, StepStays

LEMMA StepBeatFails ==
    ASSUME StreamInv, Aside, BeatFails
    PROVE  StreamInv'
<1>1. proc' = GiveUp(proc, "heartbeat") /\ UNCHANGED <<stream, handled>>
  BY DEF BeatFails
<1>2. proc \in Process /\ Reading(proc) /\ msgs' = msgs
  BY <1>1 DEF StreamInv, Typed, TypeOK, stream
<1>3. /\ proc' \in Process /\ Keeps(proc, proc')
      /\ proc'.at = [proc.at EXCEPT !["heartbeat"] = "idle"]
      /\ \/ proc'.res["setup"] = proc.res["setup"]
         \/ proc'.res["setup"] = "err" /\ proc'.writes = <<>>
      /\ proc'.buf = proc.buf
      /\ proc'.writes = proc.writes \/ proc'.writes = <<>>
  BY <1>1, <1>2, GiveUpIs DEF Coroutine
<1>4. proc'.at["setup"] = proc.at["setup"]
  BY <1>2, <1>3, Fields DEF Coroutine
<1>5. Stays(proc') /\ (proc'.res["setup"] = "eof" => conn # "up")
  BY <1>3, <1>4 DEF Stays, StreamInv, Ending
<1>6. Reading(proc)'
  BY <1>2, <1>3, <1>4 DEF Reading, Keeps
<1> QED
  BY <1>1, <1>3, <1>5, <1>6, StepStays

\* The end of an operation changes nothing but its result.
LEMMA DoneIs ==
    ASSUME NEW p \in Process, NEW c \in Coroutine, NEW r \in ResultOf
    PROVE  LET u == Done(p, c, r)
           IN  /\ u \in Process /\ Keeps(p, u)
               /\ u.at = p.at /\ u.res = [p.res EXCEPT ![c] = r]
               /\ u.buf = p.buf /\ u.writes = p.writes
BY DEF Done, Process, Keeps, ResultOf

LEMMA StepBeatTimer ==
    ASSUME StreamInv, Aside, BeatTimer
    PROVE  StreamInv'
<1>1. proc' = Done(proc, "heartbeat", "ok") /\ UNCHANGED <<stream, handled>>
  BY DEF BeatTimer
<1>2. proc \in Process /\ Reading(proc) /\ msgs' = msgs
  BY <1>1 DEF StreamInv, Typed, TypeOK, stream
<1>3. /\ proc' \in Process /\ Keeps(proc, proc')
      /\ proc'.at = proc.at /\ proc'.res = [proc.res EXCEPT !["heartbeat"] = "ok"]
      /\ proc'.buf = proc.buf /\ proc'.writes = proc.writes
  BY <1>1, <1>2, DoneIs DEF Coroutine, ResultOf
<1>4. proc'.at["setup"] = proc.at["setup"] /\ proc'.res["setup"] = proc.res["setup"]
  BY <1>2, <1>3, Fields DEF Coroutine
<1>5. Stays(proc') /\ (proc'.res["setup"] = "eof" => conn # "up")
  BY <1>3, <1>4 DEF Stays, StreamInv, Ending
<1>6. Reading(proc)'
  BY <1>2, <1>3, <1>4 DEF Reading, Keeps
<1> QED
  BY <1>1, <1>3, <1>5, <1>6, StepStays

LEMMA StepStreamEnds ==
    ASSUME StreamInv, Aside, StreamEnds
    PROVE  StreamInv'
<1>1. /\ proc.at["setup"] \in {"head", "body"} /\ proc.res["setup"] = "none"
      /\ conn \in {"eof", "err"}
      /\ proc' = Done(proc, "setup", conn) /\ UNCHANGED <<stream, handled>>
  BY DEF StreamEnds, StreamInv, Typed, TypeOK
<1>2. proc \in Process /\ Reading(proc) /\ msgs' = msgs
  BY <1>1 DEF StreamInv, Typed, TypeOK, stream
<1>3. /\ proc' \in Process /\ Keeps(proc, proc')
      /\ proc'.at = proc.at /\ proc'.res = [proc.res EXCEPT !["setup"] = conn]
      /\ proc'.buf = proc.buf /\ proc'.writes = proc.writes
  <2>1. "setup" \in Coroutine /\ conn \in ResultOf
    BY <1>1 DEF Coroutine, ResultOf
  <2> QED
    BY <1>1, <1>2, <2>1, DoneIs
<1>4. proc'.at["setup"] = proc.at["setup"] /\ proc'.res["setup"] = conn
  BY <1>2, <1>3, Fields DEF Coroutine
<1>5. Stays(proc') /\ (proc'.res["setup"] = "eof" => conn # "up")
  BY <1>1, <1>4 DEF Stays
<1>6. Reading(proc)'
  BY <1>1, <1>2, <1>3, <1>4 DEF Reading, Keeps
<1> QED
  BY <1>1, <1>3, <1>5, <1>6, StepStays

\* What was read of a direction is on the stream.
LEMMA BodyUnitsOnStream ==
    ASSUME NEW d \in Dir, NEW n \in Nat, Len(wire) \in Nat, n <= Len(wire)
    PROVE  /\ Cardinality(BodyUnits(d, n)) \in Nat /\ OnStream(d) \in Nat
           /\ Cardinality(BodyUnits(d, n)) <= OnStream(d)
<1> DEFINE B == {k \in 1..Len(wire) : wire[k].i > 0 /\ msgs[wire[k].msg].type = d}
<1>1. IsFiniteSet(1..Len(wire)) /\ B \subseteq 1..Len(wire) /\ BodyUnits(d, n) \subseteq B
  <2>1. IsFiniteSet(1..Len(wire))
    BY FS_Interval
  <2>2. \A k \in 1..n : k \in 1..Len(wire)
    OBVIOUS
  <2> QED
    BY <2>1, <2>2 DEF BodyUnits
<1> HIDE DEF B
<1>2. IsFiniteSet(B) /\ Cardinality(B) \in Nat
  BY <1>1, FS_Subset, FS_CardinalityType
<1>3. Cardinality(BodyUnits(d, n)) \in Nat /\ Cardinality(BodyUnits(d, n)) <= Cardinality(B)
  BY <1>1, <1>2, FS_Subset, FS_CardinalityType
<1>4. OnStream(d) = Cardinality(B)
  BY DEF OnStream, B
<1> QED
  BY <1>2, <1>3, <1>4

LEMMA StepTransmit ==
    ASSUME StreamInv, Aside, Transmit
    PROVE  StreamInv'
<1> DEFINE c == Head(proc.writes)
           p == [proc EXCEPT !.writes = Tail(@)]
<1>1. /\ proc.writes # <<>>
      /\ \/ conn = "up" /\ down' = Append(down, AnswerOf(c)) /\ proc' = Done(p, c, "ok")
         \/ conn # "up" /\ down' = down /\ proc' = Done(p, c, "err")
      /\ UNCHANGED <<msgs, wire, taken, conn, handled>>
  BY DEF Transmit
<1>2. proc \in Process /\ Reading(proc) /\ msgs' = msgs /\ UNCHANGED acked
  BY <1>1 DEF StreamInv, Typed, TypeOK, Aside, proxyVars
<1>3. /\ proc.writes \in Seq(Coroutine) /\ c = proc.writes[1] /\ c \in Coroutine
      /\ Tail(proc.writes) \in Seq(Coroutine)
      /\ Len(Tail(proc.writes)) = Len(proc.writes) - 1
      /\ Len(proc.writes) \in Nat \ {0}
      /\ \A i \in 1..Len(proc.writes) - 1 : Tail(proc.writes)[i] = proc.writes[i + 1]
  <2>1. proc.writes \in Seq(Coroutine)
    BY <1>2, Fields
  <2> QED
    BY <1>1, <2>1
<1>4. /\ p \in Process /\ Keeps(proc, p) /\ p.at = proc.at /\ p.res = proc.res
      /\ p.buf = proc.buf /\ p.writes = Tail(proc.writes)
  BY <1>2, <1>3 DEF Process, Keeps
<1> HIDE DEF p, c
<1>5. PICK r \in {"ok", "err"} :
          /\ proc' \in Process /\ Keeps(proc, proc')
          /\ proc'.at = proc.at /\ proc'.res = [proc.res EXCEPT ![c] = r]
          /\ proc'.buf = proc.buf /\ proc'.writes = Tail(proc.writes)
  <2>1. PICK r \in {"ok", "err"} : proc' = Done(p, c, r)
    BY <1>1
  <2>2. r \in ResultOf
    BY DEF ResultOf
  <2>3. /\ proc' \in Process /\ Keeps(p, proc')
        /\ proc'.at = p.at /\ proc'.res = [p.res EXCEPT ![c] = r]
        /\ proc'.buf = p.buf /\ proc'.writes = p.writes
    BY <1>3, <1>4, <2>1, <2>2, DoneIs
  <2> QED
    BY <1>4, <2>3 DEF Keeps
<1>6. proc'.res["setup"] = IF c = "setup" THEN r ELSE proc.res["setup"]
  <2>1. proc.res \in [Coroutine -> ResultOf]
    BY <1>2, Fields
  <2> QED
    BY <1>3, <1>5, <2>1 DEF Coroutine
<1>7. c = "setup" => /\ proc.at["setup"] = "answer" /\ proc.res["setup"] = "none"
                     /\ proc.head.type \in Dir
  <2>1. 1 \in 1..Len(proc.writes)
    BY <1>3
  <2> QED
    BY <1>2, <1>3, <2>1 DEF Reading
<1>8. Stays(proc')
  BY <1>5, <1>6, <1>7 DEF Stays
<1>9. Reading(proc)'
  <2>1. \A i \in 1..Len(proc'.writes) :
            proc'.writes[i] = "setup" => i + 1 \in 1..Len(proc.writes) /\ proc.writes[i + 1] = "setup"
    BY <1>3, <1>5
  <2>2. c = "setup" => \A i \in 1..Len(proc'.writes) : proc'.writes[i] # "setup"
    <3> SUFFICES ASSUME c = "setup", NEW i \in 1..Len(proc'.writes), proc'.writes[i] = "setup"
                 PROVE  FALSE
      OBVIOUS
    <3>1. i + 1 \in 1..Len(proc.writes) /\ proc.writes[i + 1] = "setup" /\ i + 1 # 1
      BY <2>1
    <3>2. 1 \in 1..Len(proc.writes) /\ proc.writes[1] = "setup"
      BY <1>3
    <3> QED
      BY <1>2, <3>1, <3>2 DEF Reading
  <2>3. CASE c = "setup"
    BY <1>2, <1>5, <1>6, <1>7, <2>2, <2>3 DEF Reading, Keeps
  <2>4. CASE c # "setup"
    <3>1. proc'.res["setup"] = proc.res["setup"] /\ proc'.at = proc.at
          /\ proc'.head = proc.head /\ proc'.buf = proc.buf
      BY <1>5, <1>6, <2>4 DEF Keeps
    <3>2. \A i, j \in 1..Len(proc'.writes) :
              proc'.writes[i] = "setup" /\ proc'.writes[j] = "setup" => i = j
      <4> TAKE i, j \in 1..Len(proc'.writes)
      <4> HAVE proc'.writes[i] = "setup" /\ proc'.writes[j] = "setup"
      <4>1. i + 1 = j + 1
        BY <1>2, <2>1 DEF Reading
      <4> QED
        BY <1>3, <1>5, <4>1
    <3> QED
      BY <1>2, <2>1, <3>1, <3>2 DEF Reading
  <2> QED
    BY <2>3, <2>4
<1>10. LastRound' /\ InStep' /\ Counted' /\ Intact'
  BY <1>1, <1>5, <1>8, StaysInv
<1>11. down' \in Seq(Answer) /\ (conn # "up" => down' = <<>>)
  <2>1. AnswerOf(c) \in Answer
    <3>1. proc.total \in [Dir -> Nat]
      BY <1>2, Fields
    <3> QED
      BY <1>3, <1>7, <3>1 DEF AnswerOf, Answer, Coroutine
  <2>2. down \in Seq(Answer) /\ (conn # "up" => down = <<>>)
    BY DEF StreamInv, Typed, TypeOK, Ending
  <2> QED
    BY <1>1, <2>1, <2>2
<1>12. AcknowledgesOnlySent'
  <2> SUFFICES ASSUME Framed(taken), NEW d \in Dir
               PROVE  /\ acked[d] <= OnStream(d)
                      /\ \A k \in 1..Len(down') :
                             down'[k].type = d => down'[k].total <= OnStream(d)
    BY <1>1, <1>2 DEF AcknowledgesOnlySent, Framed, OnStream
  <2>1. /\ acked[d] <= OnStream(d)
        /\ \A k \in 1..Len(down) : down[k].type = d => down[k].total <= OnStream(d)
    BY DEF StreamInv, AcknowledgesOnlySent
  <2>2. CASE down' = down
    BY <2>1, <2>2
  <2>3. CASE conn = "up" /\ down' = Append(down, AnswerOf(c)) /\ AnswerOf(c).type = d
    <3>1. c = "setup" /\ proc.head.type = d /\ AnswerOf(c).total = proc.total[d]
      BY <1>3, <2>3 DEF AnswerOf, Dir, Coroutine
    <3>2. Follows
      BY <1>7, <2>3, <3>1 DEF Follows, StreamInv, Ending
    <3>3. proc.total[d] + 0 = Cardinality(BodyUnits(d, taken))
      BY <1>7, <3>1, <3>2 DEF StreamInv, Counted
    <3>4. proc.total[d] \in Nat /\ taken \in Nat /\ Len(wire) \in Nat /\ taken <= Len(wire)
      BY <1>2, Fields DEF StreamInv, Typed, TypeOK
    <3>5. proc.total[d] <= OnStream(d)
      BY <3>3, <3>4, BodyUnitsOnStream
    <3>6. down \in Seq(Answer)
      BY DEF StreamInv, Typed, TypeOK
    <3>7. \A k \in 1..Len(down') : (k \in 1..Len(down) /\ down'[k] = down[k]) \/ down'[k] = AnswerOf(c)
      BY <2>3, <3>6
    <3> QED
      BY <2>1, <3>1, <3>5, <3>7
  <2>4. CASE down' = Append(down, AnswerOf(c)) /\ AnswerOf(c).type # d
    <3>1. down \in Seq(Answer)
      BY DEF StreamInv, Typed, TypeOK
    <3>2. \A k \in 1..Len(down') : (k \in 1..Len(down) /\ down'[k] = down[k]) \/ down'[k] = AnswerOf(c)
      BY <2>4, <3>1
    <3> QED
      BY <2>1, <2>4, <3>2
  <2> QED
    BY <1>1, <2>2, <2>3, <2>4
<1>13. proc'.eof \/ proc'.res["setup"] = "eof" => conn # "up"
  BY <1>5, <1>6 DEF Keeps, StreamInv, Ending
<1>14. taken' \in 0..Len(wire) /\ handled' \in Seq(Handled)
  BY <1>1 DEF StreamInv, Typed, TypeOK
<1> QED
  BY <1>1, <1>5, <1>9, <1>10, <1>11, <1>12, <1>13, <1>14, ProcessLeaves

LEMMA StepHandles ==
    ASSUME StreamInv, Aside, UNCHANGED stream, NEW p \in Process, NoAnswer(p), Handle(p),
           proc.at["setup"] \in {"head", "body"}, p.total = proc.total,
           proc.eof => p.eof, p.eof => conn # "up", ~p.eof => Whole(p)
    PROVE  StreamInv'
<1>1. PICK e \in Handled : handled' = Append(handled, e) /\ Handles(p, e, proc')
  BY HandleIs
<1>2. UNCHANGED <<msgs, wire, taken, conn>>
  BY DEF stream
<1>3. /\ handled' \in Seq(Handled)
      /\ LastRound' /\ InStep' /\ Counted' /\ Intact'
  BY <1>1, <1>2, HandledInv
<1>4. /\ proc' \in Process /\ proc'.eof = p.eof /\ proc'.res["setup"] # "eof"
      /\ Reading(proc)'
  BY <1>1, <1>2 DEF Handles, Reading
<1> QED
  BY <1>3, <1>4, StreamLeft

\* The head of the next message has been read.
HeadKnown(p) ==
    Framed(taken) =>
        /\ Len(handled) + 1 \in 1..Len(msgs)
        /\ p.head = msgs[Len(handled) + 1]
        /\ Reached(Len(handled) + 1, 0)
        /\ \A d \in Dir : proc.total[d] = Cardinality(BodyUnits(d, taken))

LEMMA StepBegins ==
    ASSUME StreamInv, Aside, UNCHANGED stream, NEW p \in Process, NoAnswer(p), Begin(p),
           proc.at["setup"] = "head", p.at = proc.at, p.total = proc.total,
           p.buf = <<>>, p.eof => conn # "up", ~p.eof => HeadKnown(p)
    PROVE  StreamInv'
<1> DEFINE h == Len(handled)
<1>1. ~proc.eof /\ \A k \in 1..h : ~handled[k].eof
  BY DEF StreamInv, LastRound
<1>2. /\ p.head.len \in Nat /\ p.total \in [Dir -> Nat] /\ h \in Nat
      /\ handled \in Seq(Handled) /\ proc.at \in [Coroutine -> LabelOf]
      /\ proc.res \in [Coroutine -> ResultOf] /\ p.res \in [Coroutine -> ResultOf]
      /\ p.writes \in Seq(Coroutine)
  BY Fields DEF StreamInv, Typed, TypeOK
<1>3. CASE p.head.len = 0
  <2>1. Whole(p) \/ p.eof
    <3> SUFFICES ASSUME ~p.eof, Framed(taken)
                 PROVE  /\ h + 1 \in 1..Len(msgs)
                        /\ p.head = msgs[h + 1]
                        /\ p.buf = Body(h + 1)
                        /\ Through(h + 1)
                        /\ \A d \in Dir :
                               proc.total[d] + (IF p.head.type = d THEN p.head.len ELSE 0)
                                   = Cardinality(BodyUnits(d, taken))
      BY DEF Whole
    <3>1. /\ h + 1 \in 1..Len(msgs) /\ p.head = msgs[h + 1] /\ Reached(h + 1, 0)
          /\ \A d \in Dir : proc.total[d] = Cardinality(BodyUnits(d, taken))
      BY DEF HeadKnown
    <3>2. msgs[h + 1].len = 0
      BY <1>3, <3>1
    <3>3. Body(h + 1) = <<>>
      BY <3>2 DEF Body
    <3>4. Through(h + 1)
      BY <1>2, <3>1, <3>2 DEF Through
    <3>5. \A d \in Dir : proc.total[d] + (IF p.head.type = d THEN p.head.len ELSE 0) = proc.total[d]
      BY <1>2, <1>3
    <3> QED
      BY <3>1, <3>3, <3>4, <3>5
  <2>2. Handle(p)
    BY <1>3 DEF Begin
  <2> QED
    BY <1>1, <2>1, <2>2, StepHandles
<1>4. CASE p.head.len # 0
  <2>1. proc' = Await(p, "setup", "body") /\ handled' = handled
    BY <1>4 DEF Begin
  <2>2. "setup" \in Coroutine /\ "body" \in LabelOf
    BY DEF Coroutine, LabelOf
  <2> DEFINE u == Await(p, "setup", "body")
  <2>3. /\ u \in Process /\ Keeps(p, u)
        /\ u.at = [p.at EXCEPT !["setup"] = "body"]
        /\ u.res = [p.res EXCEPT !["setup"] = IF p.closed THEN "err" ELSE "none"]
        /\ u.buf = p.buf
        /\ u.writes = IF "body" \in {"answer", "beat"} /\ ~p.closed
                      THEN Append(p.writes, "setup") ELSE p.writes
    BY <2>2, AwaitIs
  <2> HIDE DEF u
  <2>4. /\ proc' \in Process /\ proc'.eof = p.eof /\ proc'.total = proc.total
        /\ proc'.head = p.head /\ proc'.at["setup"] = "body"
        /\ proc'.res["setup"] \in {"none", "err"}
        /\ proc'.buf = <<>> /\ proc'.writes = p.writes
    BY <1>2, <2>1, <2>2, <2>3 DEF Keeps, u
  <2>5. UNCHANGED <<msgs, wire, taken, conn, handled>>
    BY <2>1 DEF stream
  <2>6. Reading(proc)'
    BY <1>2, <1>4, <2>4 DEF Reading, NoAnswer
  <2>7. LastRound'
    BY <1>1, <2>4, <2>5 DEF StreamInv, LastRound
  <2>8. Intact'
    BY <2>5 DEF StreamInv, Intact, Framed, Sent, Body
  <2>9. ASSUME Follows'
        PROVE  /\ h + 1 \in 1..Len(msgs) /\ p.head = msgs[h + 1]
               /\ taken > 0 /\ wire[taken] = [msg |-> h + 1, i |-> 0]
               /\ \A k \in 1..taken : wire[k].msg <= h + 1
               /\ \A d \in Dir : proc.total[d] = Cardinality(BodyUnits(d, taken))
               /\ proc'.res["setup"] = "none"
    <3>1. Framed(taken) /\ ~p.eof /\ proc'.res["setup"] = "none"
      BY <2>4, <2>5, <2>9 DEF Follows, Framed
    <3> QED
      BY <3>1 DEF HeadKnown, Reached
  <2>10. InStep'
    BY <1>2, <2>4, <2>5, <2>9 DEF InStep, Reached
  <2>11. Counted'
    <3> SUFFICES ASSUME Follows', NEW d \in Dir
                 PROVE  proc'.total[d] + (IF proc'.at["setup"] = "body" /\ proc'.head.type = d
                                          THEN Len(proc'.buf) ELSE 0)
                            = Cardinality(BodyUnits(d, taken))
      BY <2>5 DEF Counted, BodyUnits
    <3>1. Len(proc'.buf) = 0 /\ proc.total[d] \in Nat
      BY <1>2, <2>4
    <3> QED
      BY <2>4, <2>9, <3>1
  <2>12. handled' \in Seq(Handled)
    BY <1>2, <2>5
  <2> QED
    BY <2>4, <2>6, <2>7, <2>8, <2>10, <2>11, <2>12, StreamLeft
<1> QED
  BY <1>3, <1>4

LEMMA StepHeadRead ==
    ASSUME StreamInv, Aside, HeadRead
    PROVE  StreamInv'
<1>1. /\ proc.at["setup"] = "head" /\ proc.res["setup"] = "ok" /\ UNCHANGED stream
      /\ proc \in Process /\ Reading(proc) /\ ~proc.eof
  BY DEF HeadRead, Runs, StreamInv, Typed, TypeOK, LastRound
<1>2. proc.buf \in Seq(Unit) /\ Len(proc.buf) = 1 /\ proc.buf[1].msg \in 1..Len(msgs)
      /\ proc.total \in [Dir -> Nat]
  BY <1>1, Fields DEF Reading
<1>3. PICK m \in IF proc.buf[1].i = 0 THEN {msgs[proc.buf[1].msg]} ELSE AnyHead :
          Begin([proc EXCEPT !.head = m, !.buf = <<>>])
  BY DEF HeadRead
<1> DEFINE p == [proc EXCEPT !.head = m, !.buf = <<>>]
<1>4. m \in MessageHead
  <2>1. msgs[proc.buf[1].msg] \in MessageHead
    BY <1>2 DEF StreamInv, Typed, TypeOK
  <2>2. AnyHead \subseteq MessageHead
    BY SocketBounds DEF AnyHead, MessageHead
  <2> QED
    BY <2>1, <2>2
<1>5. /\ p \in Process /\ p.at = proc.at /\ p.total = proc.total /\ p.buf = <<>>
      /\ p.eof = proc.eof /\ p.head = m /\ p.writes = proc.writes
  <2>1. <<>> \in Seq(Unit)
    OBVIOUS
  <2> QED
    BY <1>1, <1>4, <2>1 DEF Process
<1>6. NoAnswer(p)
  BY <1>1, <1>5, AnswersOnce DEF NoAnswer
<1>7. HeadKnown(p)
  <2> SUFFICES ASSUME Framed(taken)
               PROVE  /\ Len(handled) + 1 \in 1..Len(msgs)
                      /\ m = msgs[Len(handled) + 1]
                      /\ Reached(Len(handled) + 1, 0)
                      /\ \A d \in Dir : proc.total[d] = Cardinality(BodyUnits(d, taken))
    BY <1>5 DEF HeadKnown
  <2>1. Follows
    BY <1>1 DEF Follows
  <2>2. proc.buf = <<[msg |-> Len(handled) + 1, i |-> 0]>> /\ Reached(Len(handled) + 1, 0)
    BY <1>1, <2>1 DEF StreamInv, InStep
  <2>3. proc.buf[1] = [msg |-> Len(handled) + 1, i |-> 0]
    BY <2>2
  <2>4. m = msgs[Len(handled) + 1] /\ Len(handled) + 1 \in 1..Len(msgs)
    BY <1>2, <1>3, <2>3
  <2>5. \A d \in Dir : proc.total[d] + 0 = Cardinality(BodyUnits(d, taken))
    BY <1>1, <2>1 DEF StreamInv, Counted
  <2> QED
    BY <1>2, <2>2, <2>4, <2>5
<1> HIDE DEF p
<1> QED
  BY <1>1, <1>3, <1>5, <1>6, <1>7, StepBegins DEF p

LEMMA StepHeadMissing ==
    ASSUME StreamInv, Aside, HeadMissing
    PROVE  StreamInv'
<1>1. /\ proc.at["setup"] = "head" /\ proc.res["setup"] = "eof" /\ UNCHANGED stream
      /\ proc \in Process /\ Reading(proc) /\ conn # "up"
  BY DEF HeadMissing, Runs, StreamInv, Typed, TypeOK, Ending
<1>2. PICK m \in {proc.head} \cup AnyHead :
          Begin([proc EXCEPT !.eof = TRUE, !.head = m, !.buf = <<>>])
  BY DEF HeadMissing
<1> DEFINE p == [proc EXCEPT !.eof = TRUE, !.head = m, !.buf = <<>>]
<1>3. m \in MessageHead
  <2>1. proc.head \in MessageHead
    BY <1>1, Fields
  <2>2. AnyHead \subseteq MessageHead
    BY SocketBounds DEF AnyHead, MessageHead
  <2> QED
    BY <2>1, <2>2
<1>4. /\ p \in Process /\ p.at = proc.at /\ p.total = proc.total /\ p.buf = <<>>
      /\ p.eof = TRUE /\ p.writes = proc.writes
  <2>1. <<>> \in Seq(Unit)
    OBVIOUS
  <2> QED
    BY <1>1, <1>3, <2>1 DEF Process
<1>5. NoAnswer(p)
  BY <1>1, <1>4, AnswersOnce DEF NoAnswer
<1> HIDE DEF p
<1> QED
  BY <1>1, <1>2, <1>4, <1>5, StepBegins DEF p

LEMMA StepBodyRead ==
    ASSUME StreamInv, Aside, BodyRead
    PROVE  StreamInv'
<1>1. /\ proc.at["setup"] = "body" /\ proc.res["setup"] = "ok"
      /\ Handle(proc) /\ UNCHANGED stream
      /\ proc \in Process /\ Reading(proc) /\ (proc.eof => conn # "up")
  BY DEF BodyRead, Runs, StreamInv, Typed, TypeOK, Ending
<1>2. NoAnswer(proc)
  BY <1>1, AnswersOnce
<1>3. ~proc.eof => Whole(proc)
  <2> SUFFICES ASSUME ~proc.eof, Framed(taken)
               PROVE  /\ Len(handled) + 1 \in 1..Len(msgs)
                      /\ proc.head = msgs[Len(handled) + 1]
                      /\ proc.buf = Body(Len(handled) + 1)
                      /\ Through(Len(handled) + 1)
                      /\ \A d \in Dir :
                             proc.total[d] + (IF proc.head.type = d THEN proc.head.len ELSE 0)
                                 = Cardinality(BodyUnits(d, taken))
    BY DEF Whole
  <2>1. Follows
    BY <1>1 DEF Follows
  <2> DEFINE h == Len(handled)
  <2>2. /\ h + 1 \in 1..Len(msgs)
        /\ proc.head = msgs[h + 1]
        /\ \A j \in 1..Len(proc.buf) : proc.buf[j] = [msg |-> h + 1, i |-> j]
        /\ Reached(h + 1, Len(proc.buf))
        /\ Len(proc.buf) = proc.head.len
    BY <1>1, <2>1 DEF StreamInv, InStep
  <2>3. proc.buf = Body(h + 1)
    <3>1. proc.buf \in Seq(Unit)
      BY <1>1, Fields
    <3>2. proc.buf = [j \in 1..Len(proc.buf) |-> proc.buf[j]]
      BY <3>1
    <3> HIDE DEF h
    <3> QED
      BY <2>2, <3>2 DEF Body
  <2>4. Through(h + 1)
    <3>1. h + 1 # 0
      BY <2>2
    <3> QED
      BY <2>2, <3>1 DEF Through
  <2>5. \A d \in Dir :
            proc.total[d] + (IF proc.head.type = d THEN Len(proc.buf) ELSE 0)
                = Cardinality(BodyUnits(d, taken))
    BY <1>1, <2>1 DEF StreamInv, Counted
  <2> QED
    BY <2>2, <2>3, <2>4, <2>5
<1> QED
  BY <1>1, <1>2, <1>3, StepHandles

LEMMA StepBodyMissing ==
    ASSUME StreamInv, Aside, BodyMissing
    PROVE  StreamInv'
<1> DEFINE p == [proc EXCEPT !.eof = TRUE]
<1>1. /\ proc.at["setup"] = "body" /\ proc.res["setup"] = "eof"
      /\ Handle(p) /\ UNCHANGED stream
      /\ proc \in Process /\ Reading(proc) /\ conn # "up"
  BY DEF BodyMissing, Runs, StreamInv, Typed, TypeOK, Ending
<1>2. p \in Process /\ p.total = proc.total /\ p.eof = TRUE /\ p.writes = proc.writes
  BY <1>1 DEF Process
<1>3. NoAnswer(p)
  BY <1>1, <1>2, AnswersOnce DEF NoAnswer
<1> HIDE DEF p
<1> QED
  BY <1>1, <1>2, <1>3, StepHandles

\* Two sequences of units, one after the other.
LEMMA Joined ==
    ASSUME NEW s \in Seq(Unit), NEW t \in Seq(Unit)
    PROVE  /\ s \o t \in Seq(Unit) /\ Len(s \o t) = Len(s) + Len(t)
           /\ \A j \in 1..Len(s) : (s \o t)[j] = s[j]
           /\ \A i \in 1..Len(t) : (s \o t)[Len(s) + i] = t[i]
           /\ \A j \in 1..Len(s) + Len(t) :
                  j \in 1..Len(s) \/ \E i \in 1..Len(t) : j = Len(s) + i
<1>1. Len(s) \in Nat /\ Len(t) \in Nat
  OBVIOUS
<1>2. \A j \in 1..Len(s) + Len(t) :
          j \in 1..Len(s) \/ \E i \in 1..Len(t) : j = Len(s) + i
  <2> TAKE j \in 1..Len(s) + Len(t)
  <2>1. CASE j > Len(s)
    <3>1. j - Len(s) \in 1..Len(t) /\ j = Len(s) + (j - Len(s))
      BY <1>1, <2>1
    <3> QED
      BY <3>1
  <2> QED
    BY <1>1, <2>1
<1> QED
  BY <1>1, <1>2

LEMMA StepReceive ==
    ASSUME StreamInv, Aside, Receive
    PROVE  StreamInv'
<1> DEFINE h == Len(handled)
           at == proc.at["setup"]
           b == Len(proc.buf)
           due == (IF at = "head" THEN 1 ELSE proc.head.len) - b
           n == IF Len(wire) - taken < due THEN Len(wire) - taken ELSE due
           q == SubSeq(wire, taken + 1, taken + n)
           p == [proc EXCEPT !.buf = @ \o q]
<1>1. /\ at \in {"head", "body"} /\ proc.res["setup"] = "none"
      /\ n > 0 /\ taken' = taken + n
      /\ proc' = IF n = due THEN Done(p, "setup", "ok") ELSE p
      /\ UNCHANGED <<msgs, wire, down, conn, handled>>
  BY DEF Receive
<1>2. /\ TypeOK /\ OnWire /\ Reading(proc) /\ proc \in Process
      /\ proc.buf \in Seq(Unit) /\ b \in Nat /\ h \in Nat
      /\ proc.head.len \in Nat /\ proc.total \in [Dir -> Nat]
      /\ proc.res \in [Coroutine -> ResultOf] /\ proc.at \in [Coroutine -> LabelOf]
      /\ wire \in Seq(Unit) /\ taken \in Nat /\ Len(wire) \in Nat /\ taken <= Len(wire)
      /\ acked' = acked
  BY Fields DEF StreamInv, Typed, TypeOK, Aside, proxyVars
<1>3. /\ at = "head" => b = 0 /\ due = 1
      /\ at = "body" => b < proc.head.len /\ due = proc.head.len - b
  BY <1>1, <1>2 DEF Reading
<1>4. n \in Nat \ {0} /\ n <= due /\ taken + n <= Len(wire) /\ due \in Nat
  BY <1>1, <1>2, <1>3
<1> HIDE DEF n
<1>5. /\ q \in Seq(Unit) /\ Len(q) = n
      /\ \A j \in 1..n : q[j] = wire[taken + j] /\ taken + j \in 1..Len(wire)
  BY <1>2, <1>4
<1> HIDE DEF q
<1>6. /\ proc.buf \o q \in Seq(Unit) /\ Len(proc.buf \o q) = b + n
      /\ \A j \in 1..b + n :
             \/ j \in 1..b /\ (proc.buf \o q)[j] = proc.buf[j]
             \/ \E i \in 1..n : /\ j = b + i /\ (proc.buf \o q)[j] = wire[taken + i]
                                /\ taken + i \in 1..Len(wire)
  <2>1. /\ proc.buf \o q \in Seq(Unit) /\ Len(proc.buf \o q) = b + Len(q)
        /\ \A j \in 1..b : (proc.buf \o q)[j] = proc.buf[j]
        /\ \A i \in 1..Len(q) : (proc.buf \o q)[b + i] = q[i]
        /\ \A j \in 1..b + Len(q) : j \in 1..b \/ \E i \in 1..Len(q) : j = b + i
    BY <1>2, <1>5, Joined
  <2> HIDE DEF b
  <2>2. Len(q) = n /\ \A i \in 1..n : q[i] = wire[taken + i] /\ taken + i \in 1..Len(wire)
    BY <1>5
  <2>3. ASSUME NEW j \in 1..b + n
        PROVE  \/ j \in 1..b /\ (proc.buf \o q)[j] = proc.buf[j]
               \/ \E i \in 1..n : /\ j = b + i /\ (proc.buf \o q)[j] = wire[taken + i]
                                  /\ taken + i \in 1..Len(wire)
    <3>1. CASE j \in 1..b
      BY <2>1, <3>1
    <3>2. CASE \E i \in 1..n : j = b + i
      <4>1. PICK i \in 1..n : j = b + i
        BY <3>2
      <4>2. (proc.buf \o q)[b + i] = q[i]
        BY <2>1, <2>2
      <4> QED
        BY <2>2, <4>1, <4>2
    <3> QED
      BY <2>1, <2>2, <3>1, <3>2
  <2> QED
    BY <2>1, <2>2, <2>3
<1>7. /\ p \in Process /\ Keeps(proc, p) /\ p.at = proc.at /\ p.res = proc.res
      /\ p.buf = proc.buf \o q /\ p.writes = proc.writes
  BY <1>2, <1>6 DEF Process, Keeps
<1> HIDE DEF p
<1>8. /\ proc' \in Process /\ Keeps(proc, proc') /\ proc'.at = proc.at
      /\ proc'.res["setup"] = IF n = due THEN "ok" ELSE "none"
      /\ proc'.buf = proc.buf \o q /\ proc'.writes = proc.writes
  <2>1. "setup" \in Coroutine /\ "ok" \in ResultOf
    BY DEF Coroutine, ResultOf
  <2>2. CASE n = due
    <3>1. proc' = Done(p, "setup", "ok")
      BY <1>1, <2>2
    <3>2. /\ proc' \in Process /\ Keeps(p, proc')
          /\ proc'.at = p.at /\ proc'.res = [p.res EXCEPT !["setup"] = "ok"]
          /\ proc'.buf = p.buf /\ proc'.writes = p.writes
      BY <1>7, <2>1, <3>1, DoneIs
    <3> QED
      BY <1>2, <1>7, <2>1, <2>2, <3>2 DEF Keeps
  <2>3. CASE n # due
    BY <1>1, <1>7, <2>3
  <2> QED
    BY <2>2, <2>3
<1>9. proc'.at["setup"] = at /\ proc'.head = proc.head /\ proc'.eof = proc.eof
      /\ proc'.total = proc.total
  BY <1>8 DEF Keeps
<1>10. Reading(proc)'
  <2>1. \A i \in 1..Len(proc'.buf) : proc'.buf[i].msg \in 1..Len(msgs')
    <3> TAKE i \in 1..Len(proc'.buf)
    <3>1. CASE i \in 1..b /\ proc'.buf[i] = proc.buf[i]
      BY <1>1, <1>2, <3>1 DEF Reading
    <3>2. CASE \E j \in 1..n : proc'.buf[i] = wire[taken + j] /\ taken + j \in 1..Len(wire)
      BY <1>1, <1>2, <3>2, StreamTypes
    <3> QED
      BY <1>6, <1>8, <3>1, <3>2
  <2>2. at = "head" => proc'.res["setup"] = "ok" /\ Len(proc'.buf) = 1
    <3>1. at = "head" => n = 1 /\ b + n = 1
      BY <1>3, <1>4
    <3> QED
      BY <1>3, <1>6, <1>8, <3>1
  <2>3. at = "body" /\ proc'.res["setup"] = "none" => Len(proc'.buf) < proc'.head.len
    <3> HAVE at = "body" /\ proc'.res["setup"] = "none"
    <3>1. n # due /\ due = proc.head.len - b
      BY <1>3, <1>8
    <3>2. b + n < proc.head.len
      BY <1>2, <1>4, <3>1
    <3> QED
      BY <1>6, <1>8, <1>9, <3>2
  <2>4. \A i \in 1..Len(proc'.writes) : proc'.writes[i] # "setup"
    BY <1>1, <1>2, <1>8 DEF Reading
  <2> QED
    BY <1>1, <1>9, <2>1, <2>2, <2>3, <2>4 DEF Reading
<1>11. LastRound'
  BY <1>1, <1>9 DEF StreamInv, LastRound
<1>12. Framed(taken)' => Framed(taken + n) /\ Framed(taken)
  <2>1. Framed(taken)' => Framed(taken + n)
    BY <1>1 DEF Framed
  <2> QED
    BY <1>2, <1>4, <2>1, FramedPrefix
<1>13. Intact' /\ AcknowledgesOnlySent'
  BY <1>1, <1>2, <1>12 DEF StreamInv, Intact, AcknowledgesOnlySent, Sent, Body, OnStream
<1>14. ASSUME Follows', NEW d \in Dir
       PROVE  /\ Follows /\ Framed(taken + n)
              /\ proc.total[d] + (IF at = "body" /\ proc.head.type = d THEN b ELSE 0)
                     = Cardinality(BodyUnits(d, taken))
  <2>1. Framed(taken + n) /\ Follows
    BY <1>1, <1>9, <1>12, <1>14 DEF Follows
  <2> QED
    BY <2>1 DEF StreamInv, Counted
<1>15. ASSUME Follows', at = "head"
       PROVE  /\ wire[taken + 1] = [msg |-> h + 1, i |-> 0]
              /\ \A k \in 1..taken + 1 : wire[k].msg <= h + 1
              /\ n = 1
  <2>1. Framed(taken + n) /\ Follows
    BY <1>14, <1>15 DEF Dir
  <2>2. n = 1
    BY <1>3, <1>4, <1>15
  <2>3. Through(h)
    BY <1>1, <1>15, <2>1 DEF StreamInv, InStep
  <2>4. taken < Len(wire) /\ Framed(taken + 1)
    BY <1>2, <1>4, <2>1, <2>2
  <2> QED
    BY <1>2, <2>2, <2>3, <2>4, NextHead
<1>16. ASSUME Follows', at = "body"
       PROVE  /\ h + 1 \in 1..Len(msgs) /\ proc.head = msgs[h + 1]
              /\ \A j \in 1..b : proc.buf[j] = [msg |-> h + 1, i |-> j]
              /\ \A j \in 1..n : wire[taken + j] = [msg |-> h + 1, i |-> b + j]
              /\ \A k \in 1..taken : wire[k].msg <= h + 1
  <2>1. Framed(taken + n) /\ Follows
    BY <1>14, <1>16 DEF Dir
  <2>2. /\ h + 1 \in 1..Len(msgs) /\ proc.head = msgs[h + 1]
        /\ \A j \in 1..b : proc.buf[j] = [msg |-> h + 1, i |-> j]
        /\ taken > 0 /\ wire[taken] = [msg |-> h + 1, i |-> b]
        /\ \A k \in 1..taken : wire[k].msg <= h + 1
    BY <1>16, <2>1 DEF StreamInv, InStep, Reached
  <2>3. taken \in 1..Len(wire) /\ wire[taken].i = b /\ wire[taken].msg = h + 1
    BY <1>2, <2>2
  <2>4. b + n <= msgs[h + 1].len
    BY <1>2, <1>3, <1>4, <1>16, <2>2
  <2>5. \A j \in 0..n : wire[taken + j] = [msg |-> wire[taken].msg, i |-> wire[taken].i + j]
    <3>1. n \in Nat /\ wire[taken].i + n <= msgs[wire[taken].msg].len
      BY <1>4, <2>3, <2>4
    <3> QED
      BY <1>2, <1>4, <2>1, <2>3, <3>1, FramedRun
  <2> QED
    BY <2>2, <2>3, <2>5
<1>17. \A k \in 1..taken + n : k \in 1..taken \/ \E j \in 1..n : k = taken + j
  <2> TAKE k \in 1..taken + n
  <2>1. CASE k <= taken
    BY <2>1
  <2>2. CASE k > taken
    <3>1. k - taken \in 1..n /\ k = taken + (k - taken)
      BY <1>2, <1>4, <2>2
    <3> QED
      BY <3>1
  <2> QED
    BY <1>2, <1>4, <2>1, <2>2
<1>22. \A k \in taken + 1..taken + n : \E j \in 1..n : k = taken + j
  <2> TAKE k \in taken + 1..taken + n
  <2>1. k \in 1..taken + n /\ ~(k \in 1..taken)
    BY <1>2, <1>4
  <2> QED
    BY <1>17, <2>1
<1>18. InStep'
  <2>1. CASE at = "head"
    <3> SUFFICES ASSUME Follows'
                 PROVE  /\ proc'.res["setup"] = "ok"
                        /\ proc'.buf = <<[msg |-> h + 1, i |-> 0]>>
                        /\ taken' > 0 /\ wire[taken'] = [msg |-> h + 1, i |-> 0]
                        /\ \A k \in 1..taken' : wire[k].msg <= h + 1
      BY <1>1, <1>9, <2>1 DEF InStep, Reached
    <3>1. /\ wire[taken + 1] = [msg |-> h + 1, i |-> 0]
          /\ \A k \in 1..taken + 1 : wire[k].msg <= h + 1
          /\ n = 1 /\ b = 0 /\ due = 1
      BY <1>3, <1>15, <2>1
    <3>2. taken' = taken + 1 /\ proc'.res["setup"] = "ok"
      BY <1>1, <1>8, <3>1
    <3>3. proc'.buf = <<[msg |-> h + 1, i |-> 0]>>
      <4>1. proc'.buf \in Seq(Unit) /\ Len(proc'.buf) = 1
        BY <1>6, <1>8, <3>1
      <4>2. 1 \in 1..b + n /\ ~(1 \in 1..b) /\ 1 - b = 1
        BY <3>1
      <4>3. proc'.buf[1] = wire[taken + 1]
        BY <1>6, <1>8, <3>1, <4>2
      <4> QED
        BY <3>1, <4>1, <4>3
    <3> QED
      BY <1>2, <3>1, <3>2, <3>3
  <2>2. CASE at = "body"
    <3> SUFFICES ASSUME Follows'
                 PROVE  /\ h + 1 \in 1..Len(msgs)
                        /\ proc'.head = msgs[h + 1]
                        /\ \A j \in 1..Len(proc'.buf) : proc'.buf[j] = [msg |-> h + 1, i |-> j]
                        /\ taken' > 0 /\ wire[taken'] = [msg |-> h + 1, i |-> Len(proc'.buf)]
                        /\ \A k \in 1..taken' : wire[k].msg <= h + 1
                        /\ proc'.res["setup"] = "ok" => Len(proc'.buf) = proc'.head.len
      BY <1>1, <1>9, <2>2 DEF InStep, Reached
    <3>1. /\ h + 1 \in 1..Len(msgs) /\ proc.head = msgs[h + 1]
          /\ \A j \in 1..b : proc.buf[j] = [msg |-> h + 1, i |-> j]
          /\ \A j \in 1..n : wire[taken + j] = [msg |-> h + 1, i |-> b + j]
          /\ \A k \in 1..taken : wire[k].msg <= h + 1
      BY <1>16, <2>2
    <3>2. Len(proc'.buf) = b + n
      BY <1>6, <1>8
    <3>3. \A j \in 1..b + n : proc'.buf[j] = [msg |-> h + 1, i |-> j]
      <4> TAKE j \in 1..b + n
      <4>1. CASE j \in 1..b /\ proc'.buf[j] = proc.buf[j]
        BY <3>1, <4>1
      <4>2. CASE \E i \in 1..n : j = b + i /\ proc'.buf[j] = wire[taken + i]
        BY <3>1, <4>2
      <4> QED
        BY <1>6, <1>8, <4>1, <4>2
    <3>4. taken' > 0 /\ wire[taken'] = [msg |-> h + 1, i |-> b + n]
      <4>1. n \in 1..n /\ taken' = taken + n /\ taken + n > 0
        BY <1>1, <1>2, <1>4
      <4> QED
        BY <3>1, <4>1
    <3>5. \A k \in 1..taken + n : wire[k].msg <= h + 1
      <4> TAKE k \in 1..taken + n
      <4>1. CASE k \in 1..taken
        BY <3>1, <4>1
      <4>2. CASE \E j \in 1..n : k = taken + j
        <5>1. PICK j \in 1..n : k = taken + j
          BY <4>2
        <5>2. wire[k] = [msg |-> h + 1, i |-> b + j]
          BY <3>1, <5>1
        <5> QED
          BY <1>2, <5>2
      <4> QED
        BY <1>17, <4>1, <4>2
    <3>6. proc'.res["setup"] = "ok" => b + n = proc'.head.len
      <4>1. proc'.res["setup"] = "ok" => n = due
        BY <1>8
      <4> QED
        BY <1>2, <1>3, <1>4, <1>9, <2>2, <4>1
    <3> QED
      BY <1>1, <1>9, <3>1, <3>2, <3>3, <3>4, <3>5, <3>6
  <2> QED
    BY <1>1, <2>1, <2>2
<1>19. Counted'
  <2> SUFFICES ASSUME Follows', NEW d \in Dir
               PROVE  proc.total[d] + (IF at = "body" /\ proc.head.type = d THEN b + n ELSE 0)
                          = Cardinality(BodyUnits(d, taken + n))
    <3>1. Len(proc'.buf) = b + n /\ proc'.at["setup"] = at /\ proc'.head = proc.head
          /\ proc'.total = proc.total /\ taken' = taken + n /\ msgs' = msgs /\ wire' = wire
      BY <1>1, <1>6, <1>8, <1>9
    <3> QED
      BY <3>1 DEF Counted, BodyUnits
  <2>1. /\ proc.total[d] + (IF at = "body" /\ proc.head.type = d THEN b ELSE 0)
               = Cardinality(BodyUnits(d, taken))
        /\ proc.total[d] \in Nat
    BY <1>2, <1>14
  <2>2. CASE at = "body" /\ proc.head.type = d
    <3>1. \A k \in taken + 1..taken + n : wire[k].i > 0 /\ msgs[wire[k].msg].type = d
      <4> TAKE k \in taken + 1..taken + n
      <4>1. PICK j \in 1..n : k = taken + j
        BY <1>22
      <4>2. wire[k] = [msg |-> h + 1, i |-> b + j] /\ msgs[h + 1].type = d
        BY <1>16, <2>2, <4>1
      <4> QED
        BY <1>2, <4>2
    <3>2. Cardinality(BodyUnits(d, taken + n)) = Cardinality(BodyUnits(d, taken)) + n
      BY <1>2, <1>4, <3>1, BodyUnitsGrow
    <3>3. proc.total[d] + b = Cardinality(BodyUnits(d, taken))
      BY <2>1, <2>2
    <3>4. proc.total[d] + (b + n) = Cardinality(BodyUnits(d, taken + n))
      BY <1>2, <1>4, <2>1, <3>2, <3>3
    <3> QED
      BY <2>2, <3>4
  <2>3. CASE ~(at = "body" /\ proc.head.type = d)
    <3>1. \A k \in taken + 1..taken + n : ~(wire[k].i > 0 /\ msgs[wire[k].msg].type = d)
      <4> TAKE k \in taken + 1..taken + n
      <4>1. PICK j \in 1..n : k = taken + j
        BY <1>22
      <4>2. CASE at = "head"
        <5>1. k = taken + 1 /\ wire[taken + 1].i = 0
          BY <1>2, <1>15, <4>1, <4>2
        <5> QED
          BY <5>1
      <4>3. CASE at = "body"
        <5>1. wire[k] = [msg |-> h + 1, i |-> b + j] /\ msgs[h + 1] = proc.head
          BY <1>16, <4>1, <4>3
        <5> QED
          BY <2>3, <4>3, <5>1
      <4> QED
        BY <1>1, <4>2, <4>3
    <3>2. BodyUnits(d, taken + n) = BodyUnits(d, taken)
      BY <1>2, <1>4, <3>1, BodyUnitsSame
    <3> QED
      BY <2>1, <2>3, <3>2
  <2> QED
    BY <2>2, <2>3
<1>20. /\ taken' \in 0..Len(wire) /\ down' \in Seq(Answer) /\ handled' \in Seq(Handled)
       /\ conn # "up" => down' = <<>>
  <2>1. taken + n \in 0..Len(wire)
    BY <1>2, <1>4
  <2> QED
    BY <1>1, <2>1 DEF StreamInv, Typed, TypeOK, Ending
<1>21. proc'.eof \/ proc'.res["setup"] = "eof" => conn # "up"
  BY <1>8, <1>9 DEF StreamInv, Ending
<1> QED
  BY <1>1, <1>8, <1>10, <1>11, <1>13, <1>18, <1>19, <1>20, <1>21, ProcessLeaves

-----------------------------------------------------------------------------
(***************************************************************************)
(* Steps of the proxy, which only add to the messages and the stream.      *)
(***************************************************************************)
Grown ==
    /\ Len(msgs) <= Len(msgs') /\ \A m \in 1..Len(msgs) : msgs'[m] = msgs[m]
    /\ Len(wire) <= Len(wire') /\ \A k \in 1..Len(wire) : wire'[k] = wire[k]

\* What the process has read stays what it was.
LEMMA ProcessStands ==
    ASSUME StreamInv, Alone, taken' = taken, Grown,
           msgs' \in Seq(MessageHead), wire' \in Seq(Unit)
    PROVE  /\ Framed(taken)' <=> Framed(taken)
           /\ Reading(proc)' /\ LastRound' /\ InStep' /\ Counted' /\ Intact'
           /\ proc' \in Process /\ handled' \in Seq(Handled) /\ taken' \in 0..Len(wire')
<1>1. /\ msgs \in Seq(MessageHead) /\ wire \in Seq(Unit) /\ handled \in Seq(Handled)
      /\ taken \in Nat /\ Len(wire) \in Nat /\ Len(msgs) \in Nat /\ taken <= Len(wire)
      /\ \A k \in 1..Len(wire) : wire[k].msg \in 1..Len(msgs)
      /\ Len(wire') \in Nat /\ Len(msgs') \in Nat /\ proc \in Process
  <2>1. TypeOK /\ OnWire /\ proc \in Process
    BY DEF StreamInv, Typed, TypeOK
  <2>2. Len(wire') \in Nat /\ Len(msgs') \in Nat
    OBVIOUS
  <2> QED
    BY <2>1, <2>2, StreamTypes
<1>2. proc' = proc /\ handled' = handled
  BY DEF Alone, procVars
<1>3. \A k \in 1..taken : /\ wire'[k] = wire[k] /\ wire[k].msg \in 1..Len(msgs)
                          /\ msgs'[wire[k].msg] = msgs[wire[k].msg]
  BY <1>1 DEF Grown
<1>4. Framed(taken)' <=> Framed(taken)
  <2>1. \A k \in 1..taken - 1 : k \in 1..taken /\ k + 1 \in 1..taken
    BY <1>1
  <2>2. \A k \in 1..taken - 1 : /\ wire'[k] = wire[k] /\ wire'[k + 1] = wire[k + 1]
                                /\ msgs'[wire[k].msg] = msgs[wire[k].msg]
    BY <1>3, <2>1
  <2>3. taken' = taken
    OBVIOUS
  <2>4. ASSUME Framed(taken), NEW k \in 1..taken - 1
        PROVE  \/ wire'[k + 1] = [wire'[k] EXCEPT !.i = @ + 1]
               \/ wire'[k].i = msgs'[wire'[k].msg].len /\ wire'[k + 1].i = 0
    BY <2>2, <2>4 DEF Framed
  <2>5. ASSUME Framed(taken)', NEW k \in 1..taken - 1
        PROVE  \/ wire[k + 1] = [wire[k] EXCEPT !.i = @ + 1]
               \/ wire[k].i = msgs[wire[k].msg].len /\ wire[k + 1].i = 0
    <3>1. \/ wire'[k + 1] = [wire'[k] EXCEPT !.i = @ + 1]
          \/ wire'[k].i = msgs'[wire'[k].msg].len /\ wire'[k + 1].i = 0
      BY <2>3, <2>5 DEF Framed
    <3> QED
      BY <2>2, <3>1
  <2>6. Framed(taken) => Framed(taken)'
    BY <2>3, <2>4 DEF Framed
  <2> QED
    BY <2>5, <2>6 DEF Framed
<1>5. Reading(proc)'
  <2>1. \A i \in 1..Len(msgs) : i \in 1..Len(msgs')
    BY <1>1 DEF Grown
  <2> QED
    BY <1>2, <2>1 DEF StreamInv, Typed, Reading
<1>6. LastRound'
  BY <1>2 DEF StreamInv, LastRound
<1>7. \A m \in 1..Len(msgs) : m \in 1..Len(msgs') /\ msgs'[m] = msgs[m]
  BY <1>1 DEF Grown
<1>8. ASSUME Follows' PROVE Follows
  BY <1>2, <1>4, <1>8 DEF Follows
<1>9. InStep'
  <2> DEFINE h == Len(handled)
             at == proc.at["setup"]
             res == proc.res["setup"]
             ReachedIs(m, i) == /\ taken > 0
                                /\ wire[taken] = [msg |-> m, i |-> i]
                                /\ \A k \in 1..taken : wire[k].msg <= m
             ThroughIs == IF h = 0 THEN taken = 0
                          ELSE h \in 1..Len(msgs) /\ ReachedIs(h, msgs[h].len)
  <2>1. taken > 0 => wire'[taken] = wire[taken]
    BY <1>1, <1>3
  <2>2. /\ taken' = taken /\ proc' = proc /\ handled' = handled
        /\ \A k \in 1..taken : wire'[k] = wire[k]
    BY <1>2, <1>3
  <2>3. ASSUME Follows'
        PROVE  /\ at = "head" /\ res = "none" => ThroughIs
               /\ at = "head" /\ res = "ok" =>
                      proc.buf = <<[msg |-> h + 1, i |-> 0]>> /\ ReachedIs(h + 1, 0)
               /\ at = "body" =>
                      /\ h + 1 \in 1..Len(msgs)
                      /\ proc.head = msgs[h + 1]
                      /\ \A j \in 1..Len(proc.buf) : proc.buf[j] = [msg |-> h + 1, i |-> j]
                      /\ ReachedIs(h + 1, Len(proc.buf))
                      /\ res = "ok" => Len(proc.buf) = proc.head.len
               /\ at = "answer" => ThroughIs
    BY <1>8, <2>3 DEF StreamInv, InStep, Through, Reached
  <2>4. ThroughIs => Through(Len(handled))'
    BY <1>7, <2>1, <2>2 DEF Through, Reached
  <2>5. ASSUME Follows', at = "head", res = "ok"
        PROVE  Reached(Len(handled) + 1, 0)'
    BY <2>1, <2>2, <2>3, <2>5 DEF Reached
  <2>6. ASSUME Follows', at = "body"
        PROVE  Reached(Len(handled) + 1, Len(proc.buf))'
    BY <2>1, <2>2, <2>3, <2>6 DEF Reached
  <2>7. ASSUME Follows', at = "body"
        PROVE  h + 1 \in 1..Len(msgs') /\ proc.head = msgs'[h + 1]
    BY <1>7, <2>3, <2>7
  <2> QED
    BY <2>2, <2>3, <2>4, <2>5, <2>6, <2>7 DEF InStep
<1>10. Counted'
  <2> SUFFICES ASSUME Follows', NEW d \in Dir
               PROVE  proc.total[d] + (IF proc.at["setup"] = "body" /\ proc.head.type = d
                                       THEN Len(proc.buf) ELSE 0)
                          = Cardinality({k \in 1..taken : wire'[k].i > 0
                                                          /\ msgs'[wire'[k].msg].type = d})
    BY <1>2 DEF Counted, BodyUnits
  <2>1. {k \in 1..taken : wire'[k].i > 0 /\ msgs'[wire'[k].msg].type = d} = BodyUnits(d, taken)
    BY <1>3 DEF BodyUnits
  <2> QED
    BY <1>8, <2>1 DEF StreamInv, Counted
<1>11. Intact'
  <2> SUFFICES ASSUME Framed(taken), NEW k \in 1..Len(handled), ~handled[k].eof
               PROVE  k \in 1..Len(msgs') /\ handled[k] = Sent(k)'
    BY <1>2, <1>4 DEF Intact
  <2>1. k \in 1..Len(msgs) /\ handled[k] = Sent(k)
    BY DEF StreamInv, Intact
  <2>2. msgs'[k] = msgs[k] /\ k \in 1..Len(msgs')
    BY <1>7, <2>1
  <2> QED
    BY <2>1, <2>2 DEF Sent, Body
<1>12. taken' \in 0..Len(wire')
  BY <1>1 DEF Grown
<1> QED
  BY <1>1, <1>2, <1>4, <1>5, <1>6, <1>9, <1>10, <1>11, <1>12

\* More is on the stream after a step than before.
LEMMA StreamGrows ==
    ASSUME StreamInv, Alone, taken' = taken, Grown, NEW d \in Dir,
           msgs' \in Seq(MessageHead), wire' \in Seq(Unit)
    PROVE  OnStream(d) \in Nat /\ OnStream(d)' \in Nat /\ OnStream(d) <= OnStream(d)'
<1> DEFINE A == {k \in 1..Len(wire) : wire[k].i > 0 /\ msgs[wire[k].msg].type = d}
           B == {k \in 1..Len(wire') : wire'[k].i > 0 /\ msgs'[wire'[k].msg].type = d}
<1>1. /\ Len(wire) \in Nat /\ Len(wire') \in Nat
      /\ \A k \in 1..Len(wire) : wire[k].msg \in 1..Len(msgs)
  <2>1. TypeOK /\ OnWire
    BY DEF StreamInv, Typed
  <2>2. Len(wire') \in Nat
    OBVIOUS
  <2> QED
    BY <2>1, <2>2, StreamTypes
<1>2. IsFiniteSet(B)
  <2>1. IsFiniteSet(1..Len(wire')) /\ B \subseteq 1..Len(wire')
    BY <1>1, FS_Interval
  <2> HIDE DEF B
  <2> QED
    BY <2>1, FS_Subset
<1>3. A \subseteq B
  <2>1. \A k \in 1..Len(wire) : k \in 1..Len(wire')
    BY <1>1 DEF Grown
  <2> QED
    BY <1>1, <2>1 DEF Grown
<1>4. OnStream(d) = Cardinality(A) /\ OnStream(d)' = Cardinality(B)
  BY DEF OnStream
<1> HIDE DEF A, B
<1> QED
  BY <1>2, <1>3, <1>4, FS_Subset, FS_CardinalityType

\* So no answer that counts what was on the stream before counts too much.
LEMMA AnswersStand ==
    ASSUME StreamInv, Alone, taken' = taken, Grown,
           msgs' \in Seq(MessageHead), wire' \in Seq(Unit),
           acked' = acked, down' = down \/ down' = <<>>
    PROVE  AcknowledgesOnlySent'
<1>1. Framed(taken)' <=> Framed(taken)
  BY ProcessStands
<1> SUFFICES ASSUME Framed(taken), NEW d \in Dir
             PROVE  /\ acked[d] <= OnStream(d)'
                    /\ \A k \in 1..Len(down') : down'[k].type = d => down'[k].total <= OnStream(d)'
  BY <1>1 DEF AcknowledgesOnlySent
<1>2. /\ acked[d] <= OnStream(d)
      /\ \A k \in 1..Len(down) : down[k].type = d => down[k].total <= OnStream(d)
  BY DEF StreamInv, AcknowledgesOnlySent
<1>3. OnStream(d) \in Nat /\ OnStream(d)' \in Nat /\ OnStream(d) <= OnStream(d)'
  BY StreamGrows
<1>4. acked[d] \in Nat /\ \A k \in 1..Len(down) : down[k].total \in Nat
  <2>1. \A k \in 1..Len(down) : down[k] \in Answer
    BY DEF StreamInv, Typed, TypeOK
  <2> QED
    BY <2>1 DEF StreamInv, Typed, TypeOK, Answer
<1>5. \A x \in Nat : x <= OnStream(d) => x <= OnStream(d)'
  BY <1>3
<1>6. acked[d] <= OnStream(d)'
  BY <1>2, <1>4, <1>5
<1>7. CASE down' = down
  BY <1>2, <1>4, <1>5, <1>6, <1>7
<1>8. CASE down' = <<>>
  BY <1>6, <1>8
<1> QED
  BY <1>7, <1>8

\* What remains of the invariant when a step of the proxy has left the
\* process alone.
LEMMA ProxyStep ==
    ASSUME StreamInv, Alone, taken' = taken, Grown,
           TypeOK', Outgoing', OnWire', Ending', AcknowledgesOnlySent'
    PROVE  StreamInv'
<1>1. msgs' \in Seq(MessageHead) /\ wire' \in Seq(Unit)
  BY DEF TypeOK
<1>2. Reading(proc)' /\ LastRound' /\ InStep' /\ Counted' /\ Intact'
  BY <1>1, ProcessStands
<1> QED
  BY <1>2 DEF StreamInv, Typed

\* What the writers and the queue are.
LEMMA WriterTypes ==
    ASSUME StreamInv
    PROVE  /\ TypeOK /\ OnWire
           /\ queue \in Seq(Writer) /\ Len(queue) \in Nat
           /\ \A i \in 1..Len(queue) : queue[i] \in Writer
           /\ out \in [Writer -> Progress]
           /\ \A w \in Writer : /\ out[w].msg \in Nat /\ out[w].next \in Nat
                                /\ out[w].st \in {"idle", "queued", "ready"}
           /\ \A w \in Writer, m, k \in Nat, s \in {"idle", "queued", "ready"} :
                  [msg |-> m, next |-> k, st |-> s] \in Progress
<1>1. queue \in Seq(Writer) /\ out \in [Writer -> Progress]
  BY DEF StreamInv, Typed, TypeOK
<1>2. \A i \in 1..Len(queue) : queue[i] \in Writer
  BY <1>1
<1> QED
  BY <1>1, <1>2 DEF StreamInv, Typed, Progress

LEMMA StepWrites ==
    ASSUME StreamInv, Alone, NEW w \in Writer, NEW head \in MessageHead,
           conn = "up", out[w].st = "idle", Write(w, head),
           mem' \in [Dir -> Memory]
    PROVE  StreamInv'
<1> DEFINE m == Len(msgs) + 1
           new == [msg |-> m, next |-> 0, st |-> "queued"]
<1>1. /\ TypeOK /\ OnWire
      /\ queue \in Seq(Writer) /\ Len(queue) \in Nat
      /\ \A i \in 1..Len(queue) : queue[i] \in Writer
      /\ out \in [Writer -> Progress]
      /\ \A v \in Writer : /\ out[v].msg \in Nat /\ out[v].next \in Nat
                           /\ out[v].st \in {"idle", "queued", "ready"}
  BY WriterTypes
<1>2. /\ msgs \in Seq(MessageHead) /\ wire \in Seq(Unit)
      /\ Len(wire) \in Nat /\ Len(msgs) \in Nat /\ m \in Nat \ {0}
      /\ \A k \in 1..Len(wire) : wire[k].msg \in 1..Len(msgs)
      /\ \A k \in 1..Len(msgs) : msgs[k].len \in Nat
  <2>1. m \in Nat \ {0} <=> Len(msgs) + 1 \in Nat \ {0}
    OBVIOUS
  <2> HIDE DEF m
  <2>2. Len(msgs) \in Nat => Len(msgs) + 1 \in Nat \ {0}
    OBVIOUS
  <2> QED
    BY <1>1, <2>1, <2>2, StreamTypes
<1>3. /\ msgs' = Append(msgs, head) /\ out' = [out EXCEPT ![w] = new]
      /\ queue' = Append(queue, w)
      /\ UNCHANGED <<wire, taken, down, conn, bypassed, acked>>
  BY DEF Write
<1>4. /\ msgs' \in Seq(MessageHead) /\ Len(msgs') = m /\ msgs'[m] = head
      /\ \A k \in 1..Len(msgs) : msgs'[k] = msgs[k] /\ k \in 1..m
  BY <1>2, <1>3
<1>5. /\ queue' \in Seq(Writer) /\ Len(queue') = Len(queue) + 1
      /\ queue'[Len(queue) + 1] = w
      /\ \A i \in 1..Len(queue) : queue'[i] = queue[i]
      /\ \A i \in 1..Len(queue') : i \in 1..Len(queue) \/ i = Len(queue) + 1
  BY <1>1, <1>3
<1>6. /\ new \in Progress /\ out' \in [Writer -> Progress]
      /\ out'[w] = new
      /\ \A v \in Writer \ {w} : out'[v] = out[v]
      /\ new.msg = m /\ new.next = 0 /\ new.st = "queued"
  BY <1>1, <1>2, <1>3 DEF Progress
<1>7. \A i \in 1..Len(queue) : /\ queue[i] # w /\ out[queue[i]].st = "queued"
                               /\ out'[queue[i]] = out[queue[i]]
  BY <1>1, <1>6 DEF StreamInv, Typed, Outgoing
<1> HIDE DEF new
<1>8. Outgoing'
  <2>1. NoDuplicates(queue)'
    BY <1>1, <1>5, <1>7 DEF StreamInv, Typed, Outgoing, NoDuplicates
  <2>2. \A i \in 1..Len(queue') : out'[queue'[i]].st = "queued"
    BY <1>5, <1>6, <1>7
  <2>3. \A v \in Writer :
           /\ out'[v].st # "idle" => out'[v].msg \in 1..Len(msgs')
           /\ out'[v].st = "queued" => out'[v].next <= msgs'[out'[v].msg].len
           /\ out'[v].st = "ready" => out'[v].next \in 1..msgs'[out'[v].msg].len + 1
    <3> TAKE v \in Writer
    <3>1. CASE v = w
      <4>1. m \in 1..m /\ head.len \in Nat
        BY <1>2 DEF MessageHead
      <4> QED
        BY <1>4, <1>6, <3>1, <4>1
    <3>2. CASE v # w
      <4>1. /\ out[v].st # "idle" => out[v].msg \in 1..Len(msgs)
            /\ out[v].st = "queued" => out[v].next <= msgs[out[v].msg].len
            /\ out[v].st = "ready" => out[v].next \in 1..msgs[out[v].msg].len + 1
        BY DEF StreamInv, Typed, Outgoing
      <4> QED
        BY <1>4, <1>6, <3>2, <4>1
    <3> QED
      BY <3>1, <3>2
  <2>4. \A u, v \in Writer :
           out'[u].st # "idle" /\ out'[v].st # "idle" /\ out'[u].msg = out'[v].msg => u = v
    <3>1. \A v \in Writer \ {w} : out'[v].st # "idle" => out'[v].msg # m
      <4>1. \A v \in Writer : out[v].st # "idle" => out[v].msg \in 1..Len(msgs)
        BY DEF StreamInv, Typed, Outgoing
      <4>2. m \notin 1..Len(msgs)
        BY <1>2
      <4> QED
        BY <1>6, <4>1, <4>2
    <3> QED
      BY <1>6, <3>1 DEF StreamInv, Typed, Outgoing
  <2>5. \A i, j \in 1..Len(queue') :
           /\ i < j
           /\ out'[queue'[i]].st = "queued" /\ out'[queue'[i]].next = 0
           /\ out'[queue'[j]].st = "queued" /\ out'[queue'[j]].next = 0
           => out'[queue'[i]].msg < out'[queue'[j]].msg
    <3> SUFFICES ASSUME NEW i \in 1..Len(queue'), NEW j \in 1..Len(queue'), i < j,
                        out'[queue'[i]].st = "queued", out'[queue'[i]].next = 0,
                        out'[queue'[j]].st = "queued", out'[queue'[j]].next = 0
                 PROVE  out'[queue'[i]].msg < out'[queue'[j]].msg
      OBVIOUS
    <3>1. i \in 1..Len(queue)
      BY <1>1, <1>5
    <3>2. CASE j \in 1..Len(queue)
      BY <1>5, <1>7, <3>1, <3>2 DEF StreamInv, Typed, Outgoing, Pending
    <3>3. CASE j = Len(queue) + 1
      <4>1. out'[queue'[j]].msg = m /\ out'[queue'[i]].msg = out[queue[i]].msg
        BY <1>5, <1>6, <1>7, <3>1, <3>3
      <4>2. out[queue[i]].msg \in 1..Len(msgs)
        BY <1>1, <1>7, <3>1 DEF StreamInv, Typed, Outgoing
      <4> QED
        BY <1>2, <4>1, <4>2
    <3> QED
      BY <1>5, <3>2, <3>3
  <2> QED
    BY <2>1, <2>2, <2>3, <2>4, <2>5 DEF Outgoing, Pending
<1>9. OnWire'
  <2>1. wire' = wire
    BY <1>3
  <2>2. \A k \in 1..Len(wire) :
           /\ wire[k].msg \in 1..Len(msgs')
           /\ wire[k].i <= msgs'[wire[k].msg].len
           /\ HeadOut(wire[k].msg, k)
           /\ wire[k].i = 0 => /\ ~HeadOut(wire[k].msg, k - 1)
                               /\ \A n \in 1..wire[k].msg - 1 : HeadOut(n, k - 1)
    <3> TAKE k \in 1..Len(wire)
    <3>1. wire[k].msg \in 1..Len(msgs) /\ wire[k].msg \in 1..Len(msgs')
          /\ msgs'[wire[k].msg] = msgs[wire[k].msg]
      BY <1>2, <1>4
    <3> QED
      BY <1>1, <3>1 DEF OnWire
  <2>3. ~HeadOut(m, Len(wire))
    <3>1. \A k \in 1..Len(wire) : wire[k].msg # m
      BY <1>2
    <3> QED
      BY <3>1 DEF HeadOut
  <2>4. \A v \in Writer :
          out'[v].st # "idle" => (out'[v].st = "queued" /\ out'[v].next = 0
                                     <=> ~HeadOut(out'[v].msg, Len(wire)))
    <3> TAKE v \in Writer
    <3>1. CASE v = w
      BY <1>6, <2>3, <3>1 DEF Pending
    <3>2. CASE v # w
      BY <1>1, <1>6, <3>2 DEF Pending, OnWire
    <3> QED
      BY <3>1, <3>2
  <2>5. \A n \in 1..Len(msgs') :
           \/ HeadOut(n, Len(wire))
           \/ \E i \in 1..Len(queue') : /\ out'[queue'[i]].st = "queued"
                                        /\ out'[queue'[i]].next = 0
                                        /\ out'[queue'[i]].msg = n
    <3> TAKE n \in 1..Len(msgs')
    <3>1. CASE n = m
      <4>1. Len(queue) + 1 \in 1..Len(queue')
        BY <1>1, <1>5
      <4> QED
        BY <1>5, <1>6, <3>1, <4>1
    <3>2. CASE n # m
      <4>1. n \in 1..Len(msgs)
        BY <1>2, <1>4, <3>2
      <4>2. \/ HeadOut(n, Len(wire))
            \/ \E i \in 1..Len(queue) : Pending(queue[i]) /\ out[queue[i]].msg = n
        BY <1>1, <4>1 DEF OnWire
      <4>3. \A i \in 1..Len(queue) : i \in 1..Len(queue')
        BY <1>1, <1>5
      <4> QED
        BY <1>5, <1>7, <4>2, <4>3 DEF Pending
    <3> QED
      BY <3>1, <3>2
  <2> QED
    BY <2>1, <2>2, <2>4, <2>5 DEF OnWire, HeadOut, Pending
<1>10. Ending'
  BY <1>3 DEF StreamInv, Ending, Alone, procVars
<1>11. Grown
  BY <1>2, <1>3, <1>4 DEF Grown
<1>12. TypeOK'
  BY <1>1, <1>3, <1>4, <1>5, <1>6 DEF TypeOK, Alone, procVars
<1>13. AcknowledgesOnlySent'
  <2>1. wire' \in Seq(Unit) /\ taken' = taken /\ acked' = acked /\ down' = down
    BY <1>2, <1>3
  <2> QED
    BY <1>4, <1>11, <2>1, AnswersStand
<1>14. taken' = taken
  BY <1>3
<1> QED
  BY <1>8, <1>9, <1>10, <1>11, <1>12, <1>13, <1>14, ProxyStep

LEMMA StepForward ==
    ASSUME StreamInv, IInv', Alone, NEW d \in Dir, NEW n \in Lens, Forward(d, n)
    PROVE  StreamInv'
<1>1. d \in Writer /\ [type |-> d, len |-> n] \in MessageHead
  BY LinkBounds DEF Writer, MessageHead, DataType
<1>2. conn = "up" /\ out[d].st = "idle" /\ Write(d, [type |-> d, len |-> n])
  BY DEF Forward
<1>3. mem' \in [Dir -> Memory]
  BY DEF IInv
<1> QED
  BY <1>1, <1>2, <1>3, StepWrites

LEMMA StepNotify ==
    ASSUME StreamInv, IInv', Alone, Notify
    PROVE  StreamInv'
<1>1. "res" \in Writer /\ [type |-> "res", len |-> 0] \in MessageHead
  BY DEF Writer, Dir, MessageHead, DataType
<1>2. conn = "up" /\ out["res"].st = "idle" /\ Write("res", [type |-> "res", len |-> 0])
  BY DEF Notify
<1>3. mem' \in [Dir -> Memory]
  BY DEF IInv
<1> QED
  BY <1>1, <1>2, <1>3, StepWrites

\* The head of a queue and the rest of it.
LEMMA QueueSplits ==
    ASSUME NEW q \in Seq(Writer), q # <<>>
    PROVE  /\ Len(q) \in Nat \ {0} /\ Head(q) = q[1] /\ 1 \in 1..Len(q) /\ q[1] \in Writer
           /\ Tail(q) \in Seq(Writer) /\ Len(Tail(q)) = Len(q) - 1
           /\ \A i \in 1..Len(q) - 1 : /\ Tail(q)[i] = q[i + 1]
                                      /\ i + 1 \in 1..Len(q) /\ i + 1 # 1
<1>1. Len(q) \in Nat \ {0} /\ Head(q) = q[1]
  OBVIOUS
<1>2. 1 \in 1..Len(q) /\ \A i \in 1..Len(q) - 1 : i + 1 \in 1..Len(q) /\ i + 1 # 1
  BY <1>1
<1>3. Tail(q) \in Seq(Writer) /\ Len(Tail(q)) = Len(q) - 1
  OBVIOUS
<1>4. \A i \in 1..Len(q) - 1 : Tail(q)[i] = q[i + 1]
  OBVIOUS
<1> QED
  BY <1>1, <1>2, <1>3, <1>4

LEMMA StepSocketTakes ==
    ASSUME StreamInv, Alone, SocketTakes
    PROVE  StreamInv'
<1> DEFINE w == Head(queue)
           o == out[w]
           room == UpCap - (Len(wire) - taken)
           left == msgs[o.msg].len + 1 - o.next
           n == IF room < left THEN room ELSE left
           q == [k \in 1..n |-> [msg |-> o.msg, i |-> o.next + k - 1]]
           new == [o EXCEPT !.next = @ + n, !.st = "ready"]
           l == Len(wire)
<1>1. /\ queue # <<>> /\ room > 0
      /\ wire' = wire \o q
      /\ out' = [out EXCEPT ![w].next = @ + n, ![w].st = "ready"]
      /\ queue' = Tail(queue)
      /\ UNCHANGED <<msgs, taken, down, conn, bypassed, mem, acked>>
  BY DEF SocketTakes
<1>2. /\ TypeOK /\ OnWire
      /\ queue \in Seq(Writer) /\ Len(queue) \in Nat
      /\ \A i \in 1..Len(queue) : queue[i] \in Writer
      /\ out \in [Writer -> Progress]
      /\ \A v \in Writer : /\ out[v].msg \in Nat /\ out[v].next \in Nat
                           /\ out[v].st \in {"idle", "queued", "ready"}
  BY WriterTypes
<1>3. /\ msgs \in Seq(MessageHead) /\ wire \in Seq(Unit)
      /\ l \in Nat /\ Len(msgs) \in Nat /\ taken \in Nat
      /\ \A k \in 1..l : wire[k].msg \in 1..Len(msgs)
      /\ \A k \in 1..Len(msgs) : msgs[k].len \in Nat
  BY <1>2, StreamTypes
<1>4. /\ 1 \in 1..Len(queue) /\ w = queue[1] /\ w \in Writer
      /\ Tail(queue) \in Seq(Writer) /\ Len(Tail(queue)) = Len(queue) - 1
      /\ \A i \in 1..Len(queue) - 1 : /\ Tail(queue)[i] = queue[i + 1]
                                      /\ i + 1 \in 1..Len(queue) /\ i + 1 # 1
  BY <1>1, <1>2, QueueSplits
<1>5. /\ o.st = "queued" /\ o.msg \in 1..Len(msgs) /\ o.next \in Nat
      /\ o.next <= msgs[o.msg].len /\ msgs[o.msg].len \in Nat
  <2>1. out[w].st = "queued"
    BY <1>4 DEF StreamInv, Typed, Outgoing
  <2> QED
    BY <1>2, <1>3, <1>4, <2>1 DEF StreamInv, Typed, Outgoing
<1>6. n \in Nat \ {0} /\ o.next + n <= msgs[o.msg].len + 1
  <2>1. room \in Int
    BY <1>3, LinkBounds
  <2> QED
    <3> DEFINE len == msgs[o.msg].len
               next == o.next
    <3>1. len \in Nat /\ next \in Nat /\ next <= len /\ room > 0
      BY <1>1, <1>5
    <3>2. n = IF room < len + 1 - next THEN room ELSE len + 1 - next
      OBVIOUS
    <3> HIDE DEF n, room, len, next
    <3>3. n \in Nat \ {0} /\ next + n <= len + 1
      BY <2>1, <3>1, <3>2
    <3> QED
      BY <3>3 DEF len, next
<1> HIDE DEF n
<1>7. /\ out' \in [Writer -> Progress] /\ out'[w] = new
      /\ new.msg = o.msg /\ new.next = o.next + n /\ new.st = "ready"
      /\ \A v \in Writer \ {w} : out'[v] = out[v]
  <2>1. out[w] \in Progress /\ out' = [out EXCEPT ![w] = new]
    BY <1>1, <1>2, <1>4
  <2>2. \A p \in Progress, k \in Nat :
            [p EXCEPT !.next = @ + k, !.st = "ready"] \in Progress
    <3> TAKE p \in Progress, k \in Nat
    <3>1. p.next + k \in Nat
      BY DEF Progress
    <3> QED
      BY <3>1 DEF Progress
  <2>3. new \in Progress /\ new.msg = o.msg /\ new.next = o.next + n /\ new.st = "ready"
    <3>1. new \in Progress
      BY <1>6, <2>1, <2>2
    <3> QED
      BY <2>1, <3>1 DEF Progress
  <2> HIDE DEF new
  <2> QED
    BY <1>2, <1>4, <2>1, <2>3
<1> HIDE DEF new
<1>8. /\ q \in Seq(Unit) /\ Len(q) = n
      /\ \A k \in 1..n : q[k] = [msg |-> o.msg, i |-> o.next + k - 1]
  <2>1. \A k \in 1..n : [msg |-> o.msg, i |-> o.next + k - 1] \in Unit
    <3> TAKE k \in 1..n
    <3>1. o.next + k - 1 \in Nat /\ o.msg \in Nat
      BY <1>3, <1>5, <1>6
    <3> QED
      BY <3>1 DEF Unit
  <2> QED
    BY <1>6, <2>1
<1> HIDE DEF q, o, w
<1>9. /\ wire' \in Seq(Unit) /\ Len(wire') = l + n
      /\ \A k \in 1..l : wire'[k] = wire[k]
      /\ \A j \in 1..n : wire'[l + j] = [msg |-> o.msg, i |-> o.next + j - 1]
      /\ \A k \in 1..l + n : k \in 1..l \/ \E j \in 1..n : k = l + j
  <2>1. /\ wire' \in Seq(Unit) /\ Len(wire') = l + Len(q)
        /\ \A k \in 1..l : wire'[k] = wire[k]
        /\ \A j \in 1..Len(q) : wire'[l + j] = q[j]
        /\ \A k \in 1..l + Len(q) : k \in 1..l \/ \E j \in 1..Len(q) : k = l + j
    BY <1>1, <1>3, <1>8, Joined
  <2> HIDE DEF l
  <2> QED
    BY <1>8, <2>1
<1>10. Grown
  <2>1. l <= l + n
    BY <1>3, <1>6
  <2> QED
    BY <1>1, <1>3, <1>9, <2>1 DEF Grown
<1>11. TypeOK'
  <2>1. taken' \in 0..Len(wire')
    BY <1>1, <1>2, <1>3, <1>6, <1>9 DEF TypeOK
  <2> QED
    BY <1>1, <1>2, <1>4, <1>7, <1>9, <2>1 DEF TypeOK, Alone, procVars
<1>12. /\ Len(queue') = Len(queue) - 1
       /\ \A i \in 1..Len(queue') : /\ i + 1 \in 1..Len(queue) /\ i + 1 # 1
                                    /\ queue'[i] = queue[i + 1] /\ queue[i + 1] # w
                                    /\ out'[queue[i + 1]] = out[queue[i + 1]]
  <2>1. \A i \in 1..Len(queue') : i \in 1..Len(queue) - 1
    BY <1>1, <1>4
  <2>2. \A i \in 1..Len(queue) : i # 1 => queue[i] # w
    BY <1>4 DEF StreamInv, Typed, Outgoing, NoDuplicates
  <2> QED
    BY <1>1, <1>2, <1>4, <1>7, <2>1, <2>2
<1>13. Outgoing'
  <2>1. NoDuplicates(queue)'
    <3> SUFFICES ASSUME NEW i \in 1..Len(queue'), NEW j \in 1..Len(queue'),
                        queue'[i] = queue'[j]
                 PROVE  i = j
      BY DEF NoDuplicates
    <3>1. i + 1 = j + 1
      BY <1>12 DEF StreamInv, Typed, Outgoing, NoDuplicates
    <3> QED
      BY <1>2, <1>12, <3>1
  <2>2. \A i \in 1..Len(queue') : out'[queue'[i]].st = "queued"
    BY <1>12 DEF StreamInv, Typed, Outgoing
  <2>3. \A v \in Writer :
           /\ out'[v].st # "idle" => out'[v].msg \in 1..Len(msgs)
           /\ out'[v].st = "queued" => out'[v].next <= msgs[out'[v].msg].len
           /\ out'[v].st = "ready" => out'[v].next \in 1..msgs[out'[v].msg].len + 1
    <3> TAKE v \in Writer
    <3>1. CASE v = w
      <4>1. o.next + n \in 1..msgs[o.msg].len + 1
        BY <1>5, <1>6
      <4> QED
        BY <1>5, <1>7, <3>1, <4>1
    <3>2. CASE v # w
      BY <1>7, <3>2 DEF StreamInv, Typed, Outgoing
    <3> QED
      BY <3>1, <3>2
  <2>4. \A u, v \in Writer :
           out'[u].st # "idle" /\ out'[v].st # "idle" /\ out'[u].msg = out'[v].msg => u = v
    <3>1. \A u \in Writer : /\ out'[u].msg = out[u].msg
                            /\ out'[u].st # "idle" => out[u].st # "idle"
      BY <1>5, <1>7 DEF o
    <3> QED
      BY <3>1 DEF StreamInv, Typed, Outgoing
  <2>5. \A i, j \in 1..Len(queue') :
           /\ i < j
           /\ out'[queue'[i]].st = "queued" /\ out'[queue'[i]].next = 0
           /\ out'[queue'[j]].st = "queued" /\ out'[queue'[j]].next = 0
           => out'[queue'[i]].msg < out'[queue'[j]].msg
    <3> TAKE i, j \in 1..Len(queue')
    <3>1. i < j => i + 1 < j + 1
      BY <1>2, <1>12
    <3> QED
      BY <1>12, <3>1 DEF StreamInv, Typed, Outgoing, Pending
  <2> QED
    BY <1>1, <2>1, <2>2, <2>3, <2>4, <2>5 DEF Outgoing, Pending
<1>14. conn = "up"
  <2>1. queue # <<>>
    BY <1>1
  <2> QED
    BY <2>1 DEF StreamInv, Ending
<1>15. Ending'
  BY <1>1, <1>14 DEF StreamInv, Ending, Alone, procVars
<1>16. AcknowledgesOnlySent'
  <2>1. msgs' \in Seq(MessageHead) /\ taken' = taken /\ acked' = acked /\ down' = down
    BY <1>1, <1>3
  <2> QED
    BY <1>9, <1>10, <2>1, AnswersStand
<1> DEFINE Out(m, k) == \E j \in 1..k : wire'[j] = [msg |-> m, i |-> 0]
<1>17. /\ \A k \in 0..l : \A m : Out(m, k) <=> HeadOut(m, k)
       /\ \A m, j \in Nat, k \in Nat : Out(m, j) /\ j <= k => Out(m, k)
  <2>1. \A k \in 0..l : \A m : Out(m, k) <=> HeadOut(m, k)
    <3> TAKE k \in 0..l
    <3> TAKE m
    <3>1. \A j \in 1..k : wire'[j] = wire[j]
      BY <1>3, <1>9
    <3> QED
      BY <3>1 DEF HeadOut
  <2> QED
    BY <2>1
<1>18. o.next = 0 => Out(o.msg, l + 1)
  <2> HAVE o.next = 0
  <2>1. 1 \in 1..n /\ o.next + 1 - 1 = 0 /\ l + 1 \in 1..l + 1
    BY <1>3, <1>6
  <2>2. wire'[l + 1] = [msg |-> o.msg, i |-> 0]
    BY <1>9, <2>1
  <2> QED
    BY <2>1, <2>2
<1>19. o.next = 0 <=> ~HeadOut(o.msg, l)
  BY <1>4, <1>5 DEF OnWire, StreamInv, Pending, o
<1>20. o.next = 0 => \A m \in 1..o.msg - 1 : HeadOut(m, l)
  <2> SUFFICES ASSUME o.next = 0, NEW m \in 1..o.msg - 1, ~HeadOut(m, l)
               PROVE  FALSE
    OBVIOUS
  <2>1. m \in 1..Len(msgs) /\ m < o.msg
    BY <1>3, <1>5
  <2>2. PICK i \in 1..Len(queue) : Pending(queue[i]) /\ out[queue[i]].msg = m
    BY <1>14, <2>1 DEF StreamInv, OnWire
  <2>3. Pending(queue[1]) /\ out[queue[1]].msg = o.msg
    BY <1>4, <1>5 DEF Pending, o
  <2>4. 1 < i
    BY <2>1, <2>2, <2>3
  <2>5. out[queue[1]].msg < out[queue[i]].msg
    BY <1>4, <2>2, <2>3, <2>4 DEF StreamInv, Typed, Outgoing
  <2> QED
    BY <1>3, <1>5, <2>1, <2>2, <2>3, <2>5
<1>21. Out(o.msg, l + n) /\ \A j \in 1..n : Out(o.msg, l + j)
  <2>1. Out(o.msg, l + 1)
    <3>1. l \in 0..l /\ l \in Nat /\ l + 1 \in Nat /\ l <= l + 1
      BY <1>3
    <3> QED
      BY <1>17, <1>18, <1>19, <3>1
  <2>2. n \in 1..n /\ \A j \in 1..n : l + 1 \in Nat /\ l + j \in Nat /\ l + 1 <= l + j
    BY <1>3, <1>6
  <2> QED
    BY <1>17, <2>1, <2>2
<1>22. \A m : m # o.msg => (Out(m, l + n) <=> HeadOut(m, l))
  <2> TAKE m
  <2> HAVE m # o.msg
  <2>1. \A k \in 1..l + n : wire'[k] = [msg |-> m, i |-> 0] => k \in 1..l
    <3> SUFFICES ASSUME NEW j \in 1..n, wire'[l + j] = [msg |-> m, i |-> 0] PROVE FALSE
      BY <1>9
    <3>1. wire'[l + j] = [msg |-> o.msg, i |-> o.next + j - 1]
      BY <1>9
    <3> QED
      BY <3>1
  <2>2. l \in 0..l /\ l \in Nat /\ l + n \in Nat /\ l <= l + n
    BY <1>3, <1>6
  <2>3. Out(m, l + n) => Out(m, l)
    BY <2>1
  <2> QED
    BY <1>17, <2>2, <2>3
<1>23. OnWire'
  <2>1. \A k \in 1..l + n :
           /\ wire'[k].msg \in 1..Len(msgs)
           /\ wire'[k].i <= msgs[wire'[k].msg].len
           /\ Out(wire'[k].msg, k)
           /\ wire'[k].i = 0 => /\ ~Out(wire'[k].msg, k - 1)
                                /\ \A m \in 1..wire'[k].msg - 1 : Out(m, k - 1)
    <3> TAKE k \in 1..l + n
    <3>1. CASE k \in 1..l
      <4>1. k \in 0..l /\ k - 1 \in 0..l /\ wire'[k] = wire[k]
        BY <1>3, <1>9, <3>1
      <4>2. /\ wire[k].msg \in 1..Len(msgs)
            /\ wire[k].i <= msgs[wire[k].msg].len
            /\ HeadOut(wire[k].msg, k)
            /\ wire[k].i = 0 => /\ ~HeadOut(wire[k].msg, k - 1)
                                /\ \A m \in 1..wire[k].msg - 1 : HeadOut(m, k - 1)
        BY <1>2, <3>1 DEF OnWire
      <4> QED
        BY <1>17, <4>1, <4>2
    <3>2. CASE \E j \in 1..n : k = l + j
      <4>1. PICK j \in 1..n : k = l + j
        BY <3>2
      <4>2. /\ wire'[k] = [msg |-> o.msg, i |-> o.next + j - 1]
            /\ wire'[k].msg = o.msg /\ wire'[k].i = o.next + j - 1
        BY <1>9, <4>1
      <4>3. o.next + j - 1 <= msgs[o.msg].len
        BY <1>5, <1>6
      <4>4. Out(o.msg, k)
        BY <1>21, <4>1
      <4>5. ASSUME wire'[k].i = 0
            PROVE  /\ ~Out(o.msg, k - 1)
                   /\ \A m \in 1..o.msg - 1 : Out(m, k - 1)
        <5>1. o.next = 0 /\ j = 1 /\ k - 1 = l /\ l \in 0..l
          BY <1>3, <1>5, <4>1, <4>2, <4>5
        <5> QED
          BY <1>17, <1>19, <1>20, <5>1
      <4> QED
        BY <1>5, <4>2, <4>3, <4>4, <4>5
    <3> QED
      BY <1>9, <3>1, <3>2
  <2>2. \A v \in Writer :
          out'[v].st # "idle" => (out'[v].st = "queued" /\ out'[v].next = 0
                                     <=> ~Out(out'[v].msg, l + n))
    <3> TAKE v \in Writer
    <3>1. CASE v = w
      BY <1>7, <1>21, <3>1
    <3>2. CASE v # w
      <4> HAVE out'[v].st # "idle"
      <4>1. out'[v] = out[v] /\ out[v].msg # o.msg
        BY <1>4, <1>5, <1>7, <3>2 DEF StreamInv, Typed, Outgoing, o
      <4>2. out[v].st = "queued" /\ out[v].next = 0 <=> ~HeadOut(out[v].msg, l)
        BY <1>2, <4>1 DEF OnWire, Pending
      <4> QED
        BY <1>22, <4>1, <4>2
    <3> QED
      BY <3>1, <3>2
  <2>3. \A m \in 1..Len(msgs) :
           \/ Out(m, l + n)
           \/ \E i \in 1..Len(queue') : /\ out'[queue'[i]].st = "queued"
                                        /\ out'[queue'[i]].next = 0
                                        /\ out'[queue'[i]].msg = m
    <3> TAKE m \in 1..Len(msgs)
    <3>1. CASE HeadOut(m, l) \/ m = o.msg
      BY <1>21, <1>22, <3>1
    <3>2. CASE ~HeadOut(m, l) /\ m # o.msg
      <4>1. PICK i \in 1..Len(queue) : Pending(queue[i]) /\ out[queue[i]].msg = m
        BY <1>2, <1>14, <3>2 DEF OnWire
      <4>2. i # 1
        BY <1>4, <3>2, <4>1 DEF o
      <4>3. i - 1 \in 1..Len(queue') /\ (i - 1) + 1 = i
        BY <1>2, <1>12, <4>2
      <4>4. queue'[i - 1] = queue[i] /\ out'[queue[i]] = out[queue[i]]
        BY <1>12, <4>3
      <4> QED
        BY <4>1, <4>3, <4>4 DEF Pending
    <3> QED
      BY <3>1, <3>2
  <2>4. msgs' = msgs /\ Len(wire') = l + n
    BY <1>1, <1>9
  <2> HIDE DEF l
  <2> QED
    BY <2>1, <2>2, <2>3, <2>4 DEF OnWire, HeadOut, Pending
<1>24. taken' = taken
  BY <1>1
<1> QED
  BY <1>10, <1>11, <1>13, <1>15, <1>16, <1>23, <1>24, ProxyStep

LEMMA StepWriteGoesOn ==
    ASSUME StreamInv, Alone, NEW w \in Writer, WriteGoesOn(w)
    PROVE  StreamInv'
<1>1. /\ out[w].st = "ready" /\ UNCHANGED <<stream, bypassed, mem, acked>>
      /\ \/ /\ out[w].next <= msgs[out[w].msg].len
            /\ out' = [out EXCEPT ![w].st = "queued"]
            /\ queue' = Append(queue, w)
         \/ /\ out' = [out EXCEPT ![w].st = "idle"]
            /\ queue' = queue
  BY DEF WriteGoesOn
<1>2. /\ TypeOK /\ OnWire
      /\ queue \in Seq(Writer) /\ Len(queue) \in Nat
      /\ \A i \in 1..Len(queue) : queue[i] \in Writer
      /\ out \in [Writer -> Progress]
      /\ \A v \in Writer : /\ out[v].msg \in Nat /\ out[v].next \in Nat
                           /\ out[v].st \in {"idle", "queued", "ready"}
  BY WriterTypes
<1>3. UNCHANGED <<msgs, wire, taken, down, conn, bypassed, mem, acked>>
  BY <1>1 DEF stream
<1>4. out[w].next # 0 /\ out[w].next \in Nat
  BY <1>1, <1>2 DEF StreamInv, Typed, Outgoing
<1>5. /\ out' \in [Writer -> Progress]
      /\ \A v \in Writer : /\ out'[v].msg = out[v].msg /\ out'[v].next = out[v].next
                           /\ v # w => out'[v].st = out[v].st
      /\ out'[w].st = "queued" \/ out'[w].st = "idle"
      /\ out'[w].st = "queued" => /\ out[w].next <= msgs[out[w].msg].len
                                  /\ queue' = Append(queue, w)
      /\ out'[w].st = "idle" => queue' = queue
  <2>1. out[w] \in Progress
    BY <1>2
  <2>2. \A s \in {"queued", "idle"} :
            LET u == [out EXCEPT ![w].st = s]
            IN  /\ u \in [Writer -> Progress]
                /\ \A v \in Writer : /\ u[v].msg = out[v].msg /\ u[v].next = out[v].next
                                     /\ v # w => u[v].st = out[v].st
                /\ u[w].st = s
    BY <1>2, <2>1 DEF Progress
  <2> QED
    BY <1>1, <2>2
<1>6. \A v \in Writer : Pending(v)' <=> Pending(v)
  BY <1>1, <1>4, <1>5 DEF Pending
<1>7. \A i \in 1..Len(queue) : queue[i] # w
  BY <1>1, <1>2 DEF StreamInv, Typed, Outgoing
<1>8. /\ queue' \in Seq(Writer) /\ NoDuplicates(queue')
      /\ \A i \in 1..Len(queue) : i \in 1..Len(queue') /\ queue'[i] = queue[i]
      /\ \A i \in 1..Len(queue') :
             \/ i \in 1..Len(queue) /\ queue'[i] = queue[i]
             \/ queue'[i] = w /\ out'[w].st = "queued"
  <2>0. NoDuplicates(queue)
    BY DEF StreamInv, Typed, Outgoing
  <2>1. CASE out'[w].st = "queued"
    <3>1. queue' = Append(queue, w)
      BY <1>5, <2>1
    <3>2. /\ queue' \in Seq(Writer) /\ Len(queue') = Len(queue) + 1
          /\ \A i \in 1..Len(queue) : queue'[i] = queue[i] /\ i \in 1..Len(queue')
          /\ queue'[Len(queue) + 1] = w
          /\ \A i \in 1..Len(queue') : i \in 1..Len(queue) \/ i = Len(queue) + 1
      BY <1>2, <3>1
    <3>3. NoDuplicates(queue')
      BY <1>2, <1>7, <2>0, <3>2 DEF NoDuplicates
    <3> QED
      BY <2>1, <3>2, <3>3
  <2>2. CASE out'[w].st = "idle"
    BY <1>2, <1>5, <2>0, <2>2
  <2> QED
    BY <1>5, <2>1, <2>2
<1>9. Outgoing'
  <2>1. \A i \in 1..Len(queue') : out'[queue'[i]].st = "queued"
    BY <1>2, <1>5, <1>7, <1>8 DEF StreamInv, Typed, Outgoing
  <2>2. \A v \in Writer :
           /\ out'[v].st # "idle" => out'[v].msg \in 1..Len(msgs)
           /\ out'[v].st = "queued" => out'[v].next <= msgs[out'[v].msg].len
           /\ out'[v].st = "ready" => out'[v].next \in 1..msgs[out'[v].msg].len + 1
    <3> TAKE v \in Writer
    <3>1. CASE v = w
      BY <1>1, <1>5, <3>1 DEF StreamInv, Typed, Outgoing
    <3>2. CASE v # w
      BY <1>5, <3>2 DEF StreamInv, Typed, Outgoing
    <3> QED
      BY <3>1, <3>2
  <2>3. \A u, v \in Writer :
           out'[u].st # "idle" /\ out'[v].st # "idle" /\ out'[u].msg = out'[v].msg => u = v
    <3>1. \A u \in Writer : out'[u].st # "idle" => out[u].st # "idle"
      BY <1>1, <1>5
    <3> QED
      BY <1>5, <3>1 DEF StreamInv, Typed, Outgoing
  <2>4. \A i, j \in 1..Len(queue') :
           /\ i < j
           /\ out'[queue'[i]].st = "queued" /\ out'[queue'[i]].next = 0
           /\ out'[queue'[j]].st = "queued" /\ out'[queue'[j]].next = 0
           => out'[queue'[i]].msg < out'[queue'[j]].msg
    <3> SUFFICES ASSUME NEW i \in 1..Len(queue'), NEW j \in 1..Len(queue'), i < j,
                        out'[queue'[i]].st = "queued", out'[queue'[i]].next = 0,
                        out'[queue'[j]].st = "queued", out'[queue'[j]].next = 0
                 PROVE  out'[queue'[i]].msg < out'[queue'[j]].msg
      OBVIOUS
    <3>1. /\ i \in 1..Len(queue) /\ queue'[i] = queue[i] /\ queue[i] # w
          /\ j \in 1..Len(queue) /\ queue'[j] = queue[j] /\ queue[j] # w
      BY <1>4, <1>5, <1>7, <1>8
    <3> QED
      BY <1>2, <1>5, <3>1 DEF StreamInv, Typed, Outgoing, Pending
  <2> QED
    BY <1>3, <1>8, <2>1, <2>2, <2>3, <2>4 DEF Outgoing, Pending, NoDuplicates
<1>10. OnWire'
  <2>1. \A v \in Writer :
          out'[v].st # "idle" => (out'[v].st = "queued" /\ out'[v].next = 0
                                     <=> ~HeadOut(out'[v].msg, Len(wire)))
    BY <1>1, <1>2, <1>4, <1>5 DEF OnWire, Pending
  <2>2. conn = "up" => \A m \in 1..Len(msgs) :
           \/ HeadOut(m, Len(wire))
           \/ \E i \in 1..Len(queue') : /\ out'[queue'[i]].st = "queued"
                                        /\ out'[queue'[i]].next = 0
                                        /\ out'[queue'[i]].msg = m
    <3> SUFFICES ASSUME conn = "up", NEW m \in 1..Len(msgs), ~HeadOut(m, Len(wire))
                 PROVE  \E i \in 1..Len(queue') : /\ out'[queue'[i]].st = "queued"
                                                   /\ out'[queue'[i]].next = 0
                                                   /\ out'[queue'[i]].msg = m
      OBVIOUS
    <3>1. PICK i \in 1..Len(queue) : Pending(queue[i]) /\ out[queue[i]].msg = m
      BY <1>2 DEF OnWire
    <3>2. i \in 1..Len(queue') /\ queue'[i] = queue[i] /\ queue[i] \in Writer /\ queue[i] # w
      BY <1>2, <1>7, <1>8
    <3>3. out'[queue[i]].st = "queued" /\ out'[queue[i]].next = 0 /\ out'[queue[i]].msg = m
      BY <1>5, <3>1, <3>2 DEF Pending
    <3> QED
      BY <3>2, <3>3
  <2>3. \A k \in 1..Len(wire) :
           /\ wire[k].msg \in 1..Len(msgs)
           /\ wire[k].i <= msgs[wire[k].msg].len
           /\ HeadOut(wire[k].msg, k)
           /\ wire[k].i = 0 => /\ ~HeadOut(wire[k].msg, k - 1)
                               /\ \A m \in 1..wire[k].msg - 1 : HeadOut(m, k - 1)
    BY <1>2 DEF OnWire
  <2> QED
    BY <1>3, <2>1, <2>2, <2>3 DEF OnWire, HeadOut, Pending
<1>11. conn = "up"
  BY <1>1 DEF StreamInv, Ending
<1>12. Ending'
  BY <1>3, <1>11 DEF StreamInv, Ending, Alone, procVars
<1>13. Grown
  BY <1>2, <1>3, StreamTypes DEF Grown
<1>14. TypeOK'
  BY <1>2, <1>3, <1>5, <1>8 DEF TypeOK, Alone, procVars
<1>15. AcknowledgesOnlySent'
  BY <1>3 DEF StreamInv, AcknowledgesOnlySent, Framed, OnStream
<1>16. taken' = taken
  BY <1>3
<1> QED
  BY <1>9, <1>10, <1>12, <1>13, <1>14, <1>15, <1>16, ProxyStep

LEMMA StepProxyReads ==
    ASSUME StreamInv, IInv', Alone, ProxyReads
    PROVE  StreamInv'
<1> DEFINE a == Head(down)
<1>1. /\ conn = "up" /\ down # <<>> /\ down' = Tail(down)
      /\ \/ a.type \in Dir /\ acked' = [acked EXCEPT ![a.type] = a.total]
         \/ acked' = acked
      /\ UNCHANGED <<msgs, wire, taken, conn, bypassed, out, queue>>
  BY DEF ProxyReads
<1>2. TypeOK /\ OnWire /\ down \in Seq(Answer) /\ acked \in [Dir -> Nat]
  BY DEF StreamInv, Typed, TypeOK
<1>3. /\ Len(down) \in Nat \ {0} /\ 1 \in 1..Len(down) /\ a = down[1] /\ a \in Answer
      /\ down' \in Seq(Answer) /\ Len(down') = Len(down) - 1
      /\ \A k \in 1..Len(down') : k + 1 \in 1..Len(down) /\ down'[k] = down[k + 1]
  <2>1. Len(down) \in Nat \ {0} /\ a = down[1]
    BY <1>1, <1>2
  <2>2. down' \in Seq(Answer) /\ Len(down') = Len(down) - 1
    BY <1>1, <1>2
  <2>3. \A k \in 1..Len(down) - 1 : down'[k] = down[k + 1]
    BY <1>1, <1>2
  <2>4. 1 \in 1..Len(down) /\ \A k \in 1..Len(down) - 1 : k + 1 \in 1..Len(down)
    BY <2>1
  <2>5. down[1] \in Answer
    BY <1>2, <2>4
  <2> HIDE DEF a
  <2> QED
    BY <2>1, <2>2, <2>3, <2>4, <2>5
<1> HIDE DEF a
<1>4. acked' \in [Dir -> Nat]
  <2>1. a.total \in Nat
    BY <1>3 DEF Answer
  <2> QED
    BY <1>1, <1>2, <2>1
<1>5. AcknowledgesOnlySent'
  <2> SUFFICES ASSUME Framed(taken), NEW d \in Dir
               PROVE  /\ acked'[d] <= OnStream(d)
                      /\ \A k \in 1..Len(down') :
                             down'[k].type = d => down'[k].total <= OnStream(d)
    BY <1>1 DEF AcknowledgesOnlySent, Framed, OnStream
  <2>1. /\ acked[d] <= OnStream(d)
        /\ \A k \in 1..Len(down) : down[k].type = d => down[k].total <= OnStream(d)
    BY DEF StreamInv, AcknowledgesOnlySent
  <2>2. acked'[d] <= OnStream(d)
    BY <1>1, <1>2, <1>3, <2>1
  <2> QED
    BY <1>3, <2>1, <2>2
<1>6. Outgoing' /\ Ending'
  BY <1>1 DEF StreamInv, Typed, Outgoing, NoDuplicates, Pending, Ending, Alone, procVars
<1>7. OnWire'
  BY <1>1, <1>2 DEF OnWire, HeadOut, Pending
<1>8. Grown
  BY <1>1, <1>2, StreamTypes DEF Grown
<1>9. TypeOK'
  BY <1>1, <1>2, <1>3, <1>4 DEF TypeOK, Alone, procVars, IInv
<1>10. taken' = taken
  BY <1>1
<1> QED
  BY <1>5, <1>6, <1>7, <1>8, <1>9, <1>10, ProxyStep

LEMMA StepProxyCloses ==
    ASSUME StreamInv, Alone, ProxyCloses
    PROVE  StreamInv'
<1>1. /\ conn' \in {"eof", "err"} /\ down' = <<>> /\ queue' = <<>>
      /\ out' = [w \in Writer |-> [out[w] EXCEPT !.st = "idle"]]
      /\ UNCHANGED <<msgs, wire, taken, bypassed, mem, acked>>
  BY DEF ProxyCloses
<1>2. /\ TypeOK /\ OnWire /\ out \in [Writer -> Progress]
      /\ msgs \in Seq(MessageHead) /\ wire \in Seq(Unit)
  BY DEF StreamInv, Typed, TypeOK
<1>3. out' \in [Writer -> Progress] /\ \A w \in Writer : out'[w].st = "idle"
  BY <1>1, <1>2 DEF Progress
<1>4. Outgoing' /\ Ending'
  BY <1>1, <1>3 DEF Outgoing, NoDuplicates, Pending, Ending, Alone, procVars
<1>5. OnWire'
  BY <1>1, <1>2, <1>3 DEF OnWire, HeadOut, Pending
<1>6. Grown
  BY <1>1, <1>2, StreamTypes DEF Grown
<1>7. TypeOK'
  BY <1>1, <1>2, <1>3 DEF TypeOK, Alone, procVars
<1>8. AcknowledgesOnlySent' /\ taken' = taken
  BY <1>1, <1>2, <1>6, AnswersStand
<1> QED
  BY <1>4, <1>5, <1>6, <1>7, <1>8, ProxyStep

LEMMA StreamStands ==
    ASSUME StreamInv, UNCHANGED vars
    PROVE  StreamInv'
<1>1. Aside /\ UNCHANGED <<stream, handled>> /\ proc' = proc
  BY DEF vars, procVars, Aside
<1>2. proc \in Process /\ Reading(proc) /\ UNCHANGED msgs
  BY <1>1 DEF StreamInv, Typed, TypeOK, stream
<1>3. Reading(proc)' /\ (proc'.res["setup"] = "eof" => conn # "up")
  BY <1>1, <1>2 DEF Reading, StreamInv, Ending
<1>4. Stays(proc') /\ Keeps(proc, proc')
  BY <1>1 DEF Stays, Keeps
<1> QED
  BY <1>1, <1>2, <1>3, <1>4, StepStays

-----------------------------------------------------------------------------
LEMMA InitStream == Init => StreamInv
<1> SUFFICES ASSUME Init PROVE StreamInv
  OBVIOUS
<1>1. /\ msgs = <<FourTuple>> /\ Len(msgs) = 1 /\ msgs[1] = FourTuple
      /\ wire = <<>> /\ Len(wire) = 0 /\ taken = 0 /\ down = <<>> /\ Len(down) = 0
      /\ conn = "up" /\ proc = NewProcess /\ handled = <<>> /\ Len(handled) = 0
      /\ bypassed \in BOOLEAN
      /\ queue = <<"conn">> /\ Len(queue) = 1 /\ queue[1] = "conn"
      /\ mem = [d \in Dir |-> NoMemory]
      /\ acked = [d \in Dir |-> 0]
  BY LinkBounds DEF Init
<1>2. FourTuple \in MessageHead /\ FourTuple.len = 1
  BY DEF FourTuple, MessageHead, DataType
<1>3. /\ out \in [Writer -> Progress]
      /\ out["conn"].msg = 1 /\ out["conn"].next = 0 /\ out["conn"].st = "queued"
      /\ \A w \in Writer : w # "conn" => out[w].st = "idle"
      /\ "conn" \in Writer
  BY DEF Init, Progress, Writer
<1>4. /\ proc \in Process /\ proc.at["setup"] = "head" /\ proc.res["setup"] = "none"
      /\ proc.buf = <<>> /\ Len(proc.buf) = 0 /\ proc.writes = <<>> /\ Len(proc.writes) = 0
      /\ ~proc.eof /\ \A d \in Dir : proc.total[d] = 0
  <2>1. /\ <<>> \in Seq(Unit) /\ <<>> \in Seq(Coroutine) /\ NoMessage \in MessageHead
        /\ [d \in Dir |-> 0] \in [Dir -> Nat]
        /\ [setup |-> "head", heartbeat |-> "timer"] \in [Coroutine -> LabelOf]
        /\ [c \in Coroutine |-> "none"] \in [Coroutine -> ResultOf]
    BY DEF NoMessage, MessageHead, DataType, Coroutine, LabelOf, ResultOf
  <2> QED
    BY <1>1, <2>1 DEF NewProcess, Process, LabelOf, ResultOf, Coroutine
<1>5. TypeOK
  <2>1. mem \in [Dir -> Memory]
    BY <1>1, SizesFit DEF NoMemory, Memory
  <2>2. msgs \in Seq(MessageHead) /\ queue \in Seq(Writer)
    BY <1>1, <1>2, <1>3
  <2>3. wire \in Seq(Unit) /\ down \in Seq(Answer) /\ handled \in Seq(Handled)
    BY <1>1
  <2>4. acked \in [Dir -> Nat] /\ taken \in 0..Len(wire)
    BY <1>1
  <2> QED
    BY <1>1, <1>3, <1>4, <2>1, <2>2, <2>3, <2>4 DEF TypeOK
<1>6. Outgoing
  BY <1>1, <1>2, <1>3 DEF Outgoing, NoDuplicates, Pending
<1>7. Reading(proc)
  BY <1>4 DEF Reading
<1>8. OnWire
  <2>1. Pending(queue[1]) /\ out[queue[1]].msg = 1 /\ 1 \in 1..Len(queue)
    BY <1>1, <1>3 DEF Pending
  <2>2. \A w \in Writer : out[w].st # "idle" => Pending(w)
    BY <1>1, <1>3, <2>1
  <2>3. \A m : ~HeadOut(m, Len(wire))
    BY <1>1 DEF HeadOut
  <2>4. \A m \in 1..Len(msgs) : m = 1
    BY <1>1
  <2> QED
    BY <1>1, <2>1, <2>2, <2>3, <2>4 DEF OnWire
<1>9. Ending /\ LastRound
  BY <1>1, <1>4 DEF Ending, LastRound
<1>10. InStep
  BY <1>1, <1>4 DEF InStep, Through
<1>11. Counted
  <2> SUFFICES ASSUME NEW d \in Dir PROVE proc.total[d] + 0 = Cardinality(BodyUnits(d, taken))
    BY <1>4 DEF Counted
  <2>1. BodyUnits(d, taken) = {}
    BY <1>1 DEF BodyUnits
  <2> QED
    BY <1>4, <2>1, FS_EmptySet
<1>12. Intact
  BY <1>1 DEF Intact
<1>13. AcknowledgesOnlySent
  <2>1. \A d \in Dir : OnStream(d) \in Nat
    <3> TAKE d \in Dir
    <3> DEFINE E == {k \in 1..Len(wire) : wire[k].i > 0 /\ msgs[wire[k].msg].type = d}
    <3>1. E = {}
      BY <1>1
    <3>2. OnStream(d) = Cardinality(E)
      BY DEF OnStream
    <3> HIDE DEF E
    <3> QED
      BY <3>1, <3>2, FS_EmptySet
  <2>2. \A d \in Dir : 0 <= OnStream(d)
    BY <2>1
  <2> QED
    BY <1>1, <2>2 DEF AcknowledgesOnlySent
<1> QED
  BY <1>5, <1>6, <1>7, <1>8, <1>9, <1>10, <1>11, <1>12, <1>13 DEF StreamInv, Typed

LEMMA NextStream == StreamInv /\ IInv' /\ [Next]_vars => StreamInv'
<1> SUFFICES ASSUME StreamInv, IInv', [Next]_vars PROVE StreamInv'
  OBVIOUS
<1>1. CASE HeadRead /\ Aside
  BY <1>1, StepHeadRead
<1>2. CASE HeadMissing /\ Aside
  BY <1>2, StepHeadMissing
<1>3. CASE BodyRead /\ Aside
  BY <1>3, StepBodyRead
<1>4. CASE BodyMissing /\ Aside
  BY <1>4, StepBodyMissing
<1>5. CASE AnswerWritten /\ Aside
  BY <1>5, StepAnswerWritten
<1>6. CASE SetupFails /\ Aside
  BY <1>6, StepSetupFails
<1>7. CASE Receive /\ Aside
  BY <1>7, StepReceive
<1>8. CASE StreamEnds /\ Aside
  BY <1>8, StepStreamEnds
<1>9. CASE BeatDue /\ Aside
  BY <1>9, StepBeatDue
<1>10. CASE BeatDone /\ Aside
  BY <1>10, StepBeatDone
<1>11. CASE BeatFails /\ Aside
  BY <1>11, StepBeatFails
<1>12. CASE Transmit /\ Aside
  BY <1>12, StepTransmit
<1>13. CASE BeatTimer /\ Aside
  BY <1>13, StepBeatTimer
<1>14. CASE \E d \in Dir, n \in Lens : Forward(d, n) /\ Alone
  BY <1>14, StepForward
<1>15. CASE Notify /\ Alone
  BY <1>15, StepNotify
<1>16. CASE SocketTakes /\ Alone
  BY <1>16, StepSocketTakes
<1>17. CASE \E w \in Writer : WriteGoesOn(w) /\ Alone
  BY <1>17, StepWriteGoesOn
<1>18. CASE ProxyReads /\ Alone
  BY <1>18, StepProxyReads
<1>19. CASE ProxyCloses /\ Alone
  BY <1>19, StepProxyCloses
<1>20. CASE Terminated \/ UNCHANGED vars
  BY <1>20, StreamStands DEF Terminated
<1> QED
  BY <1>1, <1>2, <1>3, <1>4, <1>5, <1>6, <1>7, <1>8, <1>9, <1>10, <1>11, <1>12,
     <1>13, <1>14, <1>15, <1>16, <1>17, <1>18, <1>19, <1>20 DEF Next

LEMMA StreamInvariance == Spec => []StreamInv
BY InitIInv, NextIInv, InitStream, NextStream, PTL DEF Spec

\* Every variable of the link keeps its type: heads, lengths and totals that
\* the process computes with are numbers and known types, also behind the end
\* of the stream (process.cpp 98-146, local_protocol.hpp).
THEOREM LinkTypes == Spec => []TypeOK
<1>1. StreamInv => TypeOK
  BY DEF StreamInv, Typed
<1> QED
  BY <1>1, StreamInvariance, PTL

\* As long as what was read is framed, the process hands on the messages of
\* the proxy in their order, each with the whole of its own body
\* (process.cpp 106-143).
THEOREM MessagesInOrder == Spec => []HandledAsSent
<1>1. StreamInv => HandledAsSent
  BY DEF StreamInv, Intact, HandledAsSent, MessageIntact
<1> QED
  BY <1>1, StreamInvariance, PTL

\* No answer counts bytes that the proxy has not put on the stream
\* (process.cpp 117-124, 149-154).
THEOREM AnswersCountWhatWasSent == Spec => []AcknowledgesOnlySent
<1>1. StreamInv => AcknowledgesOnlySent
  BY DEF StreamInv
<1> QED
  BY <1>1, StreamInvariance, PTL

\* At most one message is handled behind the end of the stream (process.cpp
\* 100-105, 117, 141).
THEOREM LastMessageOnce == Spec => []OneAfterEof
<1>1. StreamInv => OneAfterEof
  <2> SUFFICES ASSUME StreamInv PROVE OneAfterEof
    OBVIOUS
  <2> DEFINE E == {k \in 1..Len(handled) : handled[k].eof}
  <2>1. \A j, k \in E : j = k
    BY DEF StreamInv, LastRound
  <2>2. CASE E = {}
    <3>1. Cardinality(E) = 0
      BY <2>2, FS_EmptySet
    <3> HIDE DEF E
    <3>2. Cardinality(E) <= 1
      BY <3>1
    <3> QED
      BY <3>2 DEF OneAfterEof, E
  <2>3. CASE E # {}
    <3>1. PICK k : E = {k}
      BY <2>1, <2>3
    <3>2. Cardinality(E) = 1
      BY <3>1, FS_Singleton
    <3> HIDE DEF E
    <3>3. Cardinality(E) <= 1
      BY <3>2
    <3> QED
      BY <3>3 DEF OneAfterEof, E
  <2> QED
    BY <2>2, <2>3
<1> QED
  BY <1>1, StreamInvariance, PTL
=============================================================================
