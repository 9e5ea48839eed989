----------------------------- MODULE SessionFacts -----------------------------
(***************************************************************************)
(* Facts about the operators of Session, for every session record and all  *)
(* values of the constants: each operator, applied to a session record     *)
(* that is Sane, leaves one that is Sane.  Sane is the part of the         *)
(* inductive invariant of ProxySession that is about the session alone.    *)
(*                                                                         *)
(* The facts come in the order of the operators: what the executor does    *)
(* with queues, channels and sockets, then what every piece of a coroutine *)
(* of session.hpp does, each composed of the facts about its parts.        *)
(***************************************************************************)
EXTENDS Session, FiniteSetTheorems, SequenceTheorems, TLAPS

\* The coroutines that can wait on a channel.
Waiters ==
    [clientRd |-> {"req"}, serverRd |-> {"res"}, processRd |-> Readers,
     clientWr |-> Dir \cup Readers, serverWr |-> {"setup"} \cup Dir \cup Readers,
     processWr |-> Connectors \cup Dir,
     detect |-> Detectors, retry |-> Connectors, resolve |-> {"setup"}]

Waited(st) == \A ch \in Chan : st.wait[ch] \in Seq(Waiters[ch])

\* A deque ends where a packet ends.
Ended(st) ==
    \A d \in Dir : st.stored[d] # <<>> => st.stored[d][Len(st.stored[d])].end

Formed(st) == st \in SessionState /\ Waited(st) /\ Ended(st)

\* Nothing waits on a socket without a descriptor ...
Dead(st, k) ==
    st.sock[k] = "closed" /\ st.wait[Rd[k]] = <<>> /\ st.wait[Wr[k]] = <<>>

\* ... and a closed session has no other sockets.
Shut(st) == st.closed => \A k \in Sock : Dead(st, k)

\* The flag process_connecting_ stands for one connect_process that tries.
Trying(st, k) == k \in Connectors /\ st.pc[k] \in {"connect", "retry"}

OneTrying(st) ==
    /\ \A k, l \in Connectors : Trying(st, k) /\ Trying(st, l) => k = l
    /\ ~st.closed => (st.connecting <=> \E k \in Connectors : Trying(st, k))

\* A reader past the switch on the type works on a head of a direction.
Headed == {"body", "wnew", "wfwd"}

Heads(st) ==
    \A r \in Readers : st.pc[r] \in Headed => st.msg[r].type \in Dir

Sane(st) == Formed(st) /\ Shut(st) /\ OneTrying(st) /\ Heads(st)

\* What no coroutine but setup_proxy undoes: a closed session stays closed,
\* and setup_proxy, once it has returned, does not come back.
Keeps(st, u) ==
    /\ st.closed => u.closed
    /\ u.pc["setup"] \in {st.pc["setup"], "idle"}

-----------------------------------------------------------------------------
(***************************************************************************)
(* The executor.                                                           *)
(***************************************************************************)
\* Taking the handler at the head of the ready queue.
LEMMA PopFormed ==
  ASSUME NEW st, Formed(st), st.runq # <<>>
  PROVE  Formed(Pop(st))
<1>1. st \in SessionState /\ st.runq \in Seq(Coro)
  BY DEF Formed, SessionState
<1>2. Tail(st.runq) \in Seq(Coro)
  BY <1>1
<1>3. Pop(st) \in SessionState
  BY <1>1, <1>2 DEF Pop, SessionState
<1>4. Pop(st).wait = st.wait /\ Pop(st).stored = st.stored
  BY <1>1 DEF Pop, SessionState
<1> QED
  BY <1>3, <1>4 DEF Formed, Waited, Ended

\* A handler goes to the end of the ready queue.
LEMMA CompleteFormed ==
  ASSUME NEW st, Formed(st), NEW c \in Coro, NEW r \in Result
  PROVE  Formed(Complete(st, c, r))
<1>1. st \in SessionState /\ st.runq \in Seq(Coro)
  BY DEF Formed, SessionState
<1>2. Append(st.runq, c) \in Seq(Coro)
  BY <1>1
<1>a. \A q \in Seq(Coro) : [st EXCEPT !.runq = q, !.res[c] = r] \in SessionState
  BY <1>1 DEF SessionState
<1>3. Complete(st, c, r) \in SessionState
  BY <1>a, <1>2 DEF Complete
<1>4. Complete(st, c, r).wait = st.wait /\ Complete(st, c, r).stored = st.stored
  BY <1>1 DEF Complete, SessionState
<1> QED
  BY <1>3, <1>4 DEF Formed, Waited, Ended

\* Only coroutines wait.
LEMMA WaitersAreCoroutines ==
  ASSUME NEW ch \in Chan
  PROVE  Waiters[ch] \subseteq Coro
<1>1. CASE ch = "clientRd"
  BY <1>1 DEF Waiters, Coro, Dir
<1>2. CASE ch = "serverRd"
  BY <1>2 DEF Waiters, Coro, Dir
<1>3. CASE ch = "processRd"
  BY <1>3 DEF Waiters, Coro
<1>4. CASE ch = "clientWr"
  BY <1>4 DEF Waiters, Coro
<1>5. CASE ch = "serverWr"
  BY <1>5 DEF Waiters, Coro
<1>6. CASE ch = "processWr"
  BY <1>6 DEF Waiters, Coro
<1>7. CASE ch = "detect"
  BY <1>7 DEF Waiters, Coro
<1>8. CASE ch = "retry"
  BY <1>8 DEF Waiters, Coro
<1>9. CASE ch = "resolve"
  BY <1>9 DEF Waiters, Coro
<1> QED
  BY <1>1, <1>2, <1>3, <1>4, <1>5, <1>6, <1>7, <1>8, <1>9 DEF Chan

\* Suspending on a channel keeps the record well formed, when the coroutine
\* is one that may wait there.
LEMMA AwaitFormed ==
  ASSUME NEW st, Formed(st), NEW ch \in Chan, NEW c \in Waiters[ch], NEW l \in Label
  PROVE  Formed(Await(st, c, l, ch))
<1>1. st \in SessionState /\ st.wait[ch] \in Seq(Coro) /\ st.wait[ch] \in Seq(Waiters[ch])
  BY DEF Formed, SessionState, Waited
<1>c. c \in Coro
  BY WaitersAreCoroutines
<1>2. Append(st.wait[ch], c) \in Seq(Coro) /\ Append(st.wait[ch], c) \in Seq(Waiters[ch])
  <2> \A S : \A q \in Seq(S), x \in S : Append(q, x) \in Seq(S)
    OBVIOUS
  <2> QED
  BY <1>1, <1>c
<1>a. \A q \in Seq(Coro) :
         /\ [st EXCEPT !.pc[c] = l, !.res[c] = "none", !.wait[ch] = q] \in SessionState
         /\ [st EXCEPT !.pc[c] = l, !.res[c] = "none", !.wait[ch] = q].wait
               = [st.wait EXCEPT ![ch] = q]
         /\ [st EXCEPT !.pc[c] = l, !.res[c] = "none", !.wait[ch] = q].stored = st.stored
  BY <1>1, <1>c DEF SessionState, Result
<1>3. Await(st, c, l, ch) \in SessionState
  BY <1>a, <1>2 DEF Await
<1>4. /\ Await(st, c, l, ch).wait = [st.wait EXCEPT ![ch] = Append(st.wait[ch], c)]
      /\ Await(st, c, l, ch).stored = st.stored
  BY <1>a, <1>2 DEF Await
<1>5. st.wait \in [Chan -> Seq(Coro)]
  BY <1>1 DEF SessionState
<1>6. Waited(Await(st, c, l, ch))
   BY <1>4, <1>5, <1>2 DEF Waited, Formed
<1> QED
  BY <1>3, <1>4, <1>6 DEF Formed, Ended

\* What suspending changes: the place of the coroutine and one channel.
LEMMA AwaitEffects ==
  ASSUME NEW st, Formed(st), NEW ch \in Chan, NEW c \in Waiters[ch], NEW l \in Label
  PROVE  /\ Await(st, c, l, ch).closed = st.closed
         /\ Await(st, c, l, ch).connecting = st.connecting
         /\ Await(st, c, l, ch).sock = st.sock
         /\ Await(st, c, l, ch).msg = st.msg
         /\ Await(st, c, l, ch).pc = [st.pc EXCEPT ![c] = l]
         /\ \A x \in Chan \ {ch} : Await(st, c, l, ch).wait[x] = st.wait[x]
BY DEF Formed, SessionState, Await

\* Cancelling keeps the record well formed.
LEMMA CancelFormed ==
  ASSUME NEW st, Formed(st), NEW ch \in Chan
  PROVE  Formed(Cancel(st, ch))
<1>1. /\ st \in SessionState /\ st.wait[ch] \in Seq(Coro) /\ st.runq \in Seq(Coro)
      /\ st.res \in [Coro -> Result] /\ st.wait \in [Chan -> Seq(Coro)]
  BY DEF Formed, SessionState
<1>2. (st.runq \o st.wait[ch]) \in Seq(Coro)
  BY <1>1
<1>3. [c \in Coro |-> IF c \in Members(st.wait[ch]) THEN "err" ELSE st.res[c]]
         \in [Coro -> Result]
  BY <1>1 DEF Result
<1>4. \A S : <<>> \in Seq(S)
  OBVIOUS
<1>5. \A q, p \in Seq(Coro), w \in [Coro -> Result] :
         /\ [st EXCEPT !.runq = q, !.res = w, !.wait[ch] = p] \in SessionState
         /\ [st EXCEPT !.runq = q, !.res = w, !.wait[ch] = p].wait
               = [st.wait EXCEPT ![ch] = p]
         /\ [st EXCEPT !.runq = q, !.res = w, !.wait[ch] = p].stored = st.stored
  BY <1>1 DEF SessionState
<1>6. /\ Cancel(st, ch) \in SessionState
      /\ Cancel(st, ch).wait = [st.wait EXCEPT ![ch] = <<>>]
      /\ Cancel(st, ch).stored = st.stored
   BY <1>2, <1>3, <1>4, <1>5 DEF Cancel
<1>7. Waited(Cancel(st, ch))
  BY <1>6, <1>1, <1>4 DEF Formed, Waited
<1> QED
  BY <1>6, <1>7 DEF Formed, Ended

\* What cancelling changes: one channel, and the ready queue.
LEMMA CancelEffects ==
  ASSUME NEW st, Formed(st), NEW ch \in Chan
  PROVE  /\ Cancel(st, ch).closed = st.closed
         /\ Cancel(st, ch).connecting = st.connecting
         /\ Cancel(st, ch).sock = st.sock
         /\ Cancel(st, ch).msg = st.msg
         /\ Cancel(st, ch).pc = st.pc
         /\ Cancel(st, ch).stored = st.stored
         /\ Cancel(st, ch).wait = [st.wait EXCEPT ![ch] = <<>>]
BY DEF Formed, SessionState, Cancel

\* A closed socket has no descriptor and nothing waits on it.
LEMMA CloseSockFormed ==
  ASSUME NEW st, Formed(st), NEW k \in Sock
  PROVE  LET u == CloseSock(st, k)
         IN  /\ Formed(u)
             /\ u.closed = st.closed
             /\ u.connecting = st.connecting
             /\ u.pc = st.pc
             /\ u.msg = st.msg
             /\ Dead(u, k)
             /\ \A j \in Sock : Dead(st, j) => Dead(u, j)
<1> DEFINE x == Rd[k]
           y == Wr[k]
           a == Cancel(st, x)
           b == Cancel(a, y)
           u == CloseSock(st, k)
<1>1. x \in Chan /\ y \in Chan /\ \A j \in Sock : Rd[j] \in Chan /\ Wr[j] \in Chan
  BY DEF Rd, Wr, Chan, Sock
<1>u. u = [b EXCEPT !.sock[k] = "closed"]
  BY DEF CloseSock
<1> HIDE DEF x, y
<1>2. Formed(a)
  BY <1>1, CancelFormed
<1>3. Formed(b)
  BY <1>1, <1>2, CancelFormed
<1>4. /\ a.closed = st.closed
      /\ a.connecting = st.connecting
      /\ a.sock = st.sock
      /\ a.pc = st.pc
      /\ a.msg = st.msg
      /\ a.wait = [st.wait EXCEPT ![x] = <<>>]
  BY <1>1, CancelEffects
<1> HIDE DEF a
<1>5. /\ b.closed = st.closed
      /\ b.connecting = st.connecting
      /\ b.sock = st.sock
      /\ b.pc = st.pc
      /\ b.msg = st.msg
      /\ b.wait = [a.wait EXCEPT ![y] = <<>>]
  BY <1>1, <1>2, <1>4, CancelEffects
<1> HIDE DEF b, u
<1>6. u \in SessionState
  <2>1. "closed" \in SockState
    BY DEF SockState
  <2> QED
    BY <2>1, <1>3, <1>u DEF Formed, SessionState
<1>7. /\ u.closed = b.closed
      /\ u.connecting = b.connecting
      /\ u.pc = b.pc
      /\ u.msg = b.msg
      /\ u.sock = [b.sock EXCEPT ![k] = "closed"]
      /\ u.wait = b.wait
      /\ u.stored = b.stored
   BY <1>3, <1>u DEF Formed, SessionState
<1>8. Formed(u)
  BY <1>3, <1>6, <1>7 DEF Formed, Waited, Ended
<1>9. st.wait \in [Chan -> Seq(Coro)] /\ st.sock \in [Sock -> SockState]
  BY DEF Formed, SessionState
<1>10. /\ \A ch \in Chan : u.wait[ch] \in {st.wait[ch], <<>>}
       /\ u.wait[x] = <<>> /\ u.wait[y] = <<>>
  <2>1. u.wait = [[st.wait EXCEPT ![x] = <<>>] EXCEPT ![y] = <<>>]
    BY <1>4, <1>5, <1>7
  <2> QED
    BY <1>1, <1>9, <2>1
<1>11. /\ \A j \in Sock : u.sock[j] \in {st.sock[j], "closed"}
       /\ u.sock[k] = "closed"
  BY <1>4, <1>5, <1>7, <1>9
<1>12. Dead(u, k)
  BY <1>10, <1>11 DEF Dead, x, y
<1>13. \A j \in Sock : Dead(st, j) => Dead(u, j)
  BY <1>1, <1>10, <1>11 DEF Dead
<1> QED
  BY <1>4, <1>5, <1>7, <1>8, <1>12, <1>13 DEF u

\* What the return of a coroutine changes.
LEMMA ReturnFormed ==
  ASSUME NEW st, Formed(st), NEW c \in Coro
  PROVE  LET u == Return(st, c)
         IN  /\ Formed(u)
             /\ u.closed = st.closed
             /\ u.connecting = st.connecting
             /\ u.sock = st.sock
             /\ u.msg = st.msg
             /\ u.pc = [st.pc EXCEPT ![c] = "idle"]
             /\ u.wait = st.wait
<1> DEFINE u == Return(st, c)
<1>1. u \in SessionState
  BY DEF Return, Formed, SessionState, Label, Result
<1>2. /\ u.closed = st.closed
             /\ u.connecting = st.connecting
             /\ u.sock = st.sock
             /\ u.msg = st.msg
             /\ u.pc = [st.pc EXCEPT ![c] = "idle"]
             /\ u.wait = st.wait
             /\ u.stored = st.stored
  BY DEF Return, Formed, SessionState
<1> QED
  BY <1>1, <1>2 DEF Formed, Waited, Ended

\* grace_close leaves a closed session with three closed sockets.
LEMMA GraceCloseSane ==
  ASSUME NEW st, Sane(st)
  PROVE  LET u == GraceClose(st)
         IN  /\ Sane(u)
             /\ u.closed
             /\ u.pc = st.pc
<1>1. CASE st.closed
  BY <1>1 DEF GraceClose
<1>2. CASE ~st.closed
  <2> DEFINE z == [st EXCEPT !.closed = TRUE]
             a == Cancel(z, "detect")
             b == CloseSock(a, "client")
             c == CloseSock(b, "server")
             u == CloseSock(c, "process")
  <2>1. GraceClose(st) = u
    BY <1>2 DEF GraceClose
  <2>2. z \in SessionState
    BY DEF Sane, Formed, SessionState
  <2>3. /\ z.closed /\ z.pc = st.pc /\ z.msg = st.msg
        /\ z.wait = st.wait /\ z.stored = st.stored /\ z.sock = st.sock
    BY DEF Sane, Formed, SessionState
  <2>4. Formed(z)
    BY <2>2, <2>3 DEF Sane, Formed, Waited, Ended
  <2>c. "detect" \in Chan
    BY DEF Chan
  <2>5. Formed(a) /\ a.closed /\ a.pc = st.pc /\ a.msg = st.msg
    BY <2>3, <2>4, <2>c, CancelFormed, CancelEffects
  <2>k. "client" \in Sock /\ "server" \in Sock /\ "process" \in Sock
    BY DEF Sock
  <2> HIDE DEF a
  <2>6. Formed(b) /\ b.closed /\ b.pc = st.pc /\ b.msg = st.msg /\ Dead(b, "client")
    BY <2>5, <2>k, CloseSockFormed
  <2> HIDE DEF b
  <2>8. /\ Formed(c) /\ c.closed /\ c.pc = st.pc /\ c.msg = st.msg
        /\ Dead(c, "client") /\ Dead(c, "server")
     BY <2>6, <2>k, CloseSockFormed
  <2> HIDE DEF c
  <2>10. /\ Formed(u) /\ u.closed /\ u.pc = st.pc /\ u.msg = st.msg
         /\ Dead(u, "client") /\ Dead(u, "server") /\ Dead(u, "process")
     BY <2>8, <2>k, CloseSockFormed
  <2> HIDE DEF u
  <2>12. Shut(u)
    BY <2>10 DEF Shut, Sock
  <2>13. OneTrying(u) /\ Heads(u)
    BY <2>10 DEF Sane, OneTrying, Trying, Heads
  <2> QED
    BY <2>1, <2>10, <2>12, <2>13 DEF Sane
<1> QED
  BY <1>1, <1>2

\* The channels of a socket.
LEMMA SockChannels ==
  ASSUME NEW k \in Sock
  PROVE  Rd[k] \in Chan /\ Wr[k] \in Chan
BY DEF Rd, Wr, Chan, Sock

\* Cancelling revives no socket.
LEMMA CancelKeepsDead ==
  ASSUME NEW st, Formed(st), NEW ch \in Chan, NEW k \in Sock, Dead(st, k)
  PROVE  Dead(Cancel(st, ch), k)
<1>1. st.wait \in [Chan -> Seq(Coro)]
  BY DEF Formed, SessionState
<1> QED
  BY <1>1, CancelEffects, SockChannels DEF Dead

\* Cancelling, as for the detector's timer.
LEMMA CancelSane ==
  ASSUME NEW st, Sane(st), NEW ch \in Chan
  PROVE  Sane(Cancel(st, ch)) /\ Keeps(st, Cancel(st, ch))
<1> DEFINE u == Cancel(st, ch)
<1>1. /\ Formed(u) /\ u.closed = st.closed /\ u.connecting = st.connecting
      /\ u.pc = st.pc /\ u.msg = st.msg
  BY CancelFormed, CancelEffects DEF Sane
<1>2. Shut(u)
  BY <1>1, CancelKeepsDead DEF Sane, Shut
<1> QED
  BY <1>1, <1>2 DEF Sane, OneTrying, Trying, Heads, Keeps

\* Closing one socket.
LEMMA CloseSockSane ==
  ASSUME NEW st, Sane(st), NEW k \in Sock
  PROVE  Sane(CloseSock(st, k)) /\ Keeps(st, CloseSock(st, k))
<1> DEFINE u == CloseSock(st, k)
<1>1. /\ Formed(u) /\ u.closed = st.closed /\ u.connecting = st.connecting
      /\ u.pc = st.pc /\ u.msg = st.msg /\ \A j \in Sock : Dead(st, j) => Dead(u, j)
  BY CloseSockFormed DEF Sane
<1> QED
  BY <1>1 DEF Sane, Shut, OneTrying, Trying, Heads, Keeps

\* Suspending on a channel of an open session, or on a timer.
LEMMA AwaitSane ==
  ASSUME NEW st, Sane(st), NEW ch \in Chan,
         NEW c \in Waiters[ch] \ Connectors, c # "setup",
         NEW l \in Label, l \in Headed => c \in Readers /\ st.msg[c].type \in Dir,
         ~st.closed \/ \A k \in Sock : ch \notin {Rd[k], Wr[k]}
  PROVE  Sane(Await(st, c, l, ch)) /\ Keeps(st, Await(st, c, l, ch))
<1> DEFINE u == Await(st, c, l, ch)
<1>1. /\ st.wait \in [Chan -> Seq(Coro)] /\ st.pc \in [Coro -> Label]
      /\ Connectors \subseteq Coro /\ Readers \subseteq Coro /\ "setup" \in Coro
  BY DEF Sane, Formed, SessionState, Coro
<1>2. /\ Formed(u) /\ u.closed = st.closed /\ u.connecting = st.connecting
      /\ u.sock = st.sock /\ u.msg = st.msg
      /\ u.pc = [st.pc EXCEPT ![c] = l]
      /\ \A x \in Chan \ {ch} : u.wait[x] = st.wait[x]
  BY AwaitFormed, AwaitEffects DEF Sane
<1>3. Shut(u)
  BY <1>1, <1>2, SockChannels DEF Sane, Shut, Dead
<1>4. \A k \in Connectors : u.pc[k] = st.pc[k]
  BY <1>1, <1>2
<1>5. OneTrying(u)
  BY <1>2, <1>4 DEF Sane, OneTrying, Trying
<1>6. Heads(u)
  BY <1>1, <1>2 DEF Sane, Heads
<1> QED
  BY <1>1, <1>2, <1>3, <1>5, <1>6 DEF Sane, Keeps

\* An operation that completes at once, whatever its result.
LEMMA CompletedAtOnceSane ==
  ASSUME NEW st, Sane(st), NEW c \in Coro \ Connectors, c # "setup",
         NEW l \in Label, NEW r \in Result,
         l \in Headed => c \in Readers /\ st.msg[c].type \in Dir
  PROVE  LET u == Complete([st EXCEPT !.pc[c] = l], c, r)
         IN  Sane(u) /\ Keeps(st, u)
<1> DEFINE z == [st EXCEPT !.pc[c] = l]
           u == Complete(z, c, r)
<1>1. /\ st.pc \in [Coro -> Label]
      /\ Connectors \subseteq Coro /\ Readers \subseteq Coro /\ "setup" \in Coro
  BY DEF Sane, Formed, SessionState, Coro
<1>2. /\ z \in SessionState /\ z.closed = st.closed /\ z.connecting = st.connecting
      /\ z.sock = st.sock /\ z.msg = st.msg
      /\ z.pc = [st.pc EXCEPT ![c] = l]
      /\ z.wait = st.wait
      /\ z.stored = st.stored
  BY DEF Sane, Formed, SessionState
<1> HIDE DEF z
<1>3. Formed(z)
  BY <1>2 DEF Sane, Formed, Waited, Ended
<1>4. /\ Formed(u)
  BY <1>3, CompleteFormed
<1>5. u.closed = z.closed /\ u.connecting = z.connecting
      /\ u.sock = z.sock /\ u.msg = z.msg
      /\ u.pc = z.pc
      /\ u.wait = z.wait
  BY <1>2 DEF Complete, SessionState
<1>6. Shut(u)
  BY <1>1, <1>2, <1>5 DEF Sane, Shut, Dead
<1>7. \A k \in Connectors : u.pc[k] = st.pc[k]
  BY <1>1, <1>2, <1>5
<1>8. OneTrying(u)
  BY <1>2, <1>5, <1>7 DEF Sane, OneTrying, Trying
<1>9. Heads(u)
  BY <1>1, <1>2, <1>5 DEF Sane, Heads
<1> QED
  BY <1>1, <1>2, <1>4, <1>5, <1>6, <1>8, <1>9 DEF Sane, Keeps, z

\* An operation on a socket, connected or not.
LEMMA AwaitIoSane ==
  ASSUME NEW st, Sane(st), NEW k \in Sock, NEW ch \in {Rd[k], Wr[k]},
         NEW c \in Waiters[ch] \ Connectors, c # "setup", NEW l \in Label,
         l \in Headed => c \in Readers /\ st.msg[c].type \in Dir
  PROVE  Sane(AwaitIo(st, c, l, k, ch)) /\ Keeps(st, AwaitIo(st, c, l, k, ch))
<1>0. ch \in Chan /\ c \in Coro
  BY SockChannels, WaitersAreCoroutines
<1>1. CASE st.sock[k] = "conn"
  <2>1. ~st.closed
    BY <1>1 DEF Sane, Shut, Dead
  <2> QED
    BY <1>0, <1>1, <2>1, AwaitSane DEF AwaitIo
<1>2. CASE st.sock[k] # "conn"
  BY <1>0, <1>2, CompletedAtOnceSane DEF AwaitIo, Result
<1> QED
  BY <1>1, <1>2

\* The return of a coroutine that is not the one that tries to connect.
LEMMA ReturnSane ==
  ASSUME NEW st, Sane(st), NEW c \in Coro,
         st.closed \/ c \notin Connectors \/ ~Trying(st, c)
  PROVE  Sane(Return(st, c)) /\ Keeps(st, Return(st, c))
<1> DEFINE u == Return(st, c)
<1>1. /\ st.pc \in [Coro -> Label] /\ Connectors \subseteq Coro /\ Readers \subseteq Coro
      /\ "setup" \in Coro
  BY DEF Sane, Formed, SessionState, Coro
<1>2. /\ Formed(u) /\ u.closed = st.closed /\ u.connecting = st.connecting
      /\ u.sock = st.sock /\ u.msg = st.msg
      /\ u.pc = [st.pc EXCEPT ![c] = "idle"]
      /\ u.wait = st.wait
  BY ReturnFormed DEF Sane
<1>3. Shut(u)
  BY <1>2 DEF Sane, Shut, Dead
<1>4. \A k \in Connectors : Trying(u, k) <=> (Trying(st, k) /\ k # c)
  BY <1>1, <1>2 DEF Trying
<1>5. OneTrying(u)
  BY <1>2, <1>4 DEF Sane, OneTrying, Trying
<1>6. Heads(u)
  BY <1>1, <1>2 DEF Sane, Heads, Headed
<1> QED
  BY <1>1, <1>2, <1>3, <1>5, <1>6 DEF Sane, Keeps

\* Pieces of a run add up.
LEMMA KeepsTransitive ==
  ASSUME NEW s, NEW t, NEW u, Keeps(s, t), Keeps(t, u)
  PROVE  Keeps(s, u)
BY DEF Keeps

\* A change of eof, bypass, data, handled or cut alone.
LEMMA SameSane ==
  ASSUME NEW st, Sane(st), NEW u \in SessionState, Ended(u),
         u.closed = st.closed, u.connecting = st.connecting,
         u.sock = st.sock, u.wait = st.wait, u.pc = st.pc, u.msg = st.msg
  PROVE  Sane(u) /\ Keeps(st, u)
BY DEF Sane, Formed, Waited, Shut, Dead, OneTrying, Trying, Heads, Keeps

\* The start of a run.
LEMMA PopSane ==
  ASSUME NEW st, Sane(st), st.runq # <<>>
  PROVE  Sane(Pop(st)) /\ Keeps(st, Pop(st))
<1>1. Formed(Pop(st))
  BY PopFormed DEF Sane
<1>2. /\ Pop(st).closed = st.closed /\ Pop(st).connecting = st.connecting
      /\ Pop(st).sock = st.sock /\ Pop(st).msg = st.msg
      /\ Pop(st).wait = st.wait /\ Pop(st).pc = st.pc
  BY DEF Pop, Sane, Formed, SessionState
<1> QED
  BY <1>1, <1>2, SameSane DEF Formed

\* A coroutine that closes the session and returns.
LEMMA GiveUpSane ==
  ASSUME NEW st, Sane(st), NEW c \in Coro
  PROVE  Sane(GiveUp(st, c)) /\ Keeps(st, GiveUp(st, c))
<1>1. Sane(GraceClose(st)) /\ GraceClose(st).closed /\ Keeps(st, GraceClose(st))
  BY GraceCloseSane DEF Keeps
<1> QED
  BY <1>1, ReturnSane, KeepsTransitive DEF GiveUp

\* After undefined behaviour the session is over.
LEMMA UndefinedSane ==
  ASSUME NEW st, Sane(st)
  PROVE  Sane(Undefined(st)) /\ Keeps(st, Undefined(st))
<1> DEFINE u == Undefined(st)
<1>1. \A S : <<>> \in Seq(S)
  OBVIOUS
<1>2. u \in SessionState
  BY <1>1 DEF Undefined, Sane, Formed, SessionState, SockState, Label, Result
<1>3. /\ u.closed /\ u.stored = st.stored
      /\ u.sock = [k \in Sock |-> "closed"]
      /\ u.wait = [ch \in Chan |-> <<>>]
      /\ u.pc = [c \in Coro |-> "idle"]
  BY DEF Undefined, Sane, Formed, SessionState
<1>4. Formed(u)
  BY <1>1, <1>2, <1>3 DEF Sane, Formed, Waited, Ended
<1>5. Shut(u)
  BY <1>3, SockChannels DEF Shut, Dead
<1>6. OneTrying(u) /\ Heads(u) /\ Keeps(st, u)
  BY <1>3 DEF OneTrying, Trying, Heads, Headed, Coro, Keeps
<1> QED
  BY <1>4, <1>5, <1>6 DEF Sane

-----------------------------------------------------------------------------
(***************************************************************************)
(* The session: connect_process, the detector and the reader.              *)
(***************************************************************************)
\* One round of the loop in connect_process, by the only one that tries; in a
\* closed session it returns.
LEMMA TryConnectSane ==
  ASSUME NEW st, Formed(st), Shut(st), Heads(st), NEW k \in Connectors,
         \A l \in Connectors : Trying(st, l) => (l = k \/ st.closed),
         \A l, m \in Connectors : Trying(st, l) /\ Trying(st, m) => l = m,
         st.closed \/ st.connecting
  PROVE  Sane(TryConnect(st, k)) /\ Keeps(st, TryConnect(st, k))
<1>1. k \in Coro /\ "setup" \in Coro /\ k # "setup" /\ st.pc \in [Coro -> Label]
  BY FramesAreDistinct DEF Coro, Formed, SessionState
<1>2. CASE st.closed
  <2>1. Sane(st)
    BY <1>2 DEF Sane, OneTrying
  <2> QED
    BY <1>1, <1>2, <2>1, ReturnSane DEF TryConnect
<1>3. CASE ~st.closed
  <2> DEFINE z == [st EXCEPT !.sock["process"] = "open"]
             u == Await(z, k, "connect", "processWr")
  <2>1. TryConnect(st, k) = u
    BY <1>3 DEF TryConnect
  <2>2. z \in SessionState /\ z.closed = st.closed /\ z.connecting = st.connecting
        /\ z.wait = st.wait /\ z.stored = st.stored /\ z.pc = st.pc /\ z.msg = st.msg
    BY DEF Formed, SessionState, SockState
  <2> HIDE DEF z
  <2>3. Formed(z)
    BY <2>2 DEF Formed, Waited, Ended
  <2>4. "processWr" \in Chan /\ k \in Waiters["processWr"] /\ "connect" \in Label
    BY DEF Chan, Waiters, Label
  <2>5. Formed(u) /\ u.closed = st.closed /\ u.connecting = st.connecting
        /\ u.pc = [st.pc EXCEPT ![k] = "connect"] /\ u.msg = st.msg
    <3>1. Formed(u)
      BY <2>3, <2>4, AwaitFormed
    <3>2. /\ u.closed = z.closed /\ u.connecting = z.connecting
          /\ u.pc = [z.pc EXCEPT ![k] = "connect"] /\ u.msg = z.msg
      BY <2>3, <2>4, AwaitEffects
    <3> QED
      BY <2>2, <3>1, <3>2
  <2>6. Shut(u)
    BY <1>3, <2>5 DEF Shut
  <2>7. \A l \in Connectors : Trying(u, l) <=> l = k
    BY <1>1, <1>3, <2>5 DEF Trying, Coro
  <2>8. OneTrying(u)
    BY <1>3, <2>5, <2>7 DEF OneTrying
  <2>9. Keeps(st, u)
    BY <1>1, <2>5 DEF Keeps
  <2>10. Heads(u)
    BY <1>1, <2>5 DEF Heads, Headed, Coro
  <2> QED
    BY <2>1, <2>5, <2>6, <2>8, <2>9, <2>10 DEF Sane
<1> QED
  BY <1>2, <1>3

\* A call of connect_process: the flag keeps a second one out.
LEMMA ConnectProcessSane ==
  ASSUME NEW st, Sane(st), NEW k \in Connectors
  PROVE  Sane(ConnectProcess(st, k)) /\ Keeps(st, ConnectProcess(st, k))
<1>1. CASE st.connecting
  BY <1>1 DEF ConnectProcess, Keeps
<1>2. CASE ~st.connecting
  <2> DEFINE a == CloseSock(st, "process")
             b == [a EXCEPT !.connecting = TRUE, !.handled = [d \in Dir |-> 0]]
             c == Cancel(b, "detect")
  <2>1. ConnectProcess(st, k) = TryConnect(c, k)
    BY <1>2 DEF ConnectProcess
  <2>2. Sane(a) /\ Keeps(st, a) /\ a.closed = st.closed /\ a.pc = st.pc
        /\ a.msg = st.msg
    BY CloseSockSane, CloseSockFormed DEF Sock, Sane
  <2> HIDE DEF a
  <2>3. /\ b \in SessionState /\ b.closed = a.closed /\ b.connecting
        /\ b.wait = a.wait /\ b.stored = a.stored /\ b.pc = a.pc /\ b.sock = a.sock
        /\ b.msg = a.msg
    BY <2>2 DEF Sane, Formed, SessionState
  <2> HIDE DEF b
  <2>4. Formed(b) /\ Shut(b)
    BY <2>2, <2>3 DEF Sane, Formed, Waited, Ended, Shut, Dead
  <2>5. "detect" \in Chan
    BY DEF Chan
  <2>6. Formed(c) /\ c.closed = st.closed /\ c.connecting /\ c.pc = st.pc
        /\ c.msg = st.msg
    BY <2>2, <2>3, <2>4, <2>5, CancelFormed, CancelEffects
  <2>7. Shut(c)
    BY <2>2, <2>3, <2>4, <2>5, <2>6, CancelKeepsDead DEF Shut
  <2> HIDE DEF c
  <2>h. Heads(c)
    BY <2>6 DEF Sane, Heads
  <2>8. /\ \A l, m \in Connectors : Trying(c, l) /\ Trying(c, m) => l = m
        /\ \A l \in Connectors : ~Trying(c, l) \/ c.closed
    BY <1>2, <2>6 DEF Sane, OneTrying, Trying
  <2>9. Sane(TryConnect(c, k)) /\ Keeps(c, TryConnect(c, k))
    BY <2>6, <2>7, <2>8, <2>h, TryConnectSane
  <2> QED
    BY <2>1, <2>6, <2>9 DEF Keeps
<1> QED
  BY <1>1, <1>2

\* The connection is there: the flag goes down with the one that tried.
LEMMA ConnectedSane ==
  ASSUME NEW st, Sane(st), NEW k \in Connectors, Trying(st, k)
  PROVE  Sane(Connected(st, k)) /\ Keeps(st, Connected(st, k))
<1> DEFINE z == [st EXCEPT !.bypass = FALSE, !.connecting = FALSE]
           u == Connected(st, k)
<1>1. /\ k \in Coro /\ "setup" \in Coro /\ k # "setup" /\ st.pc \in [Coro -> Label]
      /\ Connectors \subseteq Coro
      /\ st.wait \in [Chan -> Seq(Coro)]
      /\ "processWr" \in Chan /\ k \in Waiters["processWr"]
      /\ "tuple" \in Label /\ "process" \in Sock
  BY FramesAreDistinct DEF Coro, Sane, Formed, SessionState, Chan, Waiters, Label, Sock
<1>2. /\ z \in SessionState /\ z.closed = st.closed /\ ~z.connecting
      /\ z.wait = st.wait /\ z.stored = st.stored /\ z.pc = st.pc /\ z.sock = st.sock
      /\ z.msg = st.msg
  BY DEF Sane, Formed, SessionState
<1> HIDE DEF z
<1>3. Formed(z) /\ Shut(z)
  BY <1>2 DEF Sane, Formed, Waited, Ended, Shut, Dead
<1>4. /\ Formed(u) /\ Shut(u) /\ u.closed = st.closed /\ ~u.connecting
      /\ u.pc = [st.pc EXCEPT ![k] = "tuple"] /\ u.msg = st.msg
  <2>1. CASE z.sock["process"] = "conn"
    <3>1. u = Await(z, k, "tuple", "processWr")
      BY <2>1 DEF Connected, AwaitIo, z
    <3>2. Formed(u)
      BY <1>1, <1>3, <3>1, AwaitFormed
    <3>3. u.closed = z.closed /\ u.connecting = z.connecting
          /\ u.pc = [z.pc EXCEPT ![k] = "tuple"] /\ u.msg = z.msg
      BY <1>1, <1>3, <3>1, AwaitEffects
    <3>4. ~z.closed
      BY <1>1, <1>3, <2>1 DEF Shut, Dead
    <3> QED
      BY <1>2, <3>2, <3>3, <3>4 DEF Shut
  <2>2. CASE z.sock["process"] # "conn"
    <3> DEFINE y == [z EXCEPT !.pc[k] = "tuple"]
    <3>1. u = Complete(y, k, "err")
      BY <2>2 DEF Connected, AwaitIo, z
    <3>2. /\ y \in SessionState /\ y.closed = st.closed /\ ~y.connecting
          /\ y.wait = st.wait /\ y.stored = st.stored /\ y.sock = st.sock
          /\ y.pc = [st.pc EXCEPT ![k] = "tuple"] /\ y.msg = st.msg
      BY <1>1, <1>2 DEF SessionState
    <3> HIDE DEF y
    <3>3. Formed(y)
      BY <3>2 DEF Sane, Formed, Waited, Ended
    <3>4. Formed(u)
      BY <1>1, <3>1, <3>3, CompleteFormed DEF Result
    <3>5. /\ u.closed = y.closed /\ u.connecting = y.connecting /\ u.wait = y.wait
          /\ u.pc = y.pc /\ u.msg = y.msg /\ u.sock = y.sock
      BY <3>1, <3>2 DEF Complete, SessionState
    <3> QED
      BY <3>2, <3>4, <3>5 DEF Sane, Shut, Dead
  <2> QED
    BY <2>1, <2>2
<1>5. \A l \in Connectors : ~Trying(u, l)
  BY <1>1, <1>4 DEF Sane, OneTrying, Trying
<1>6. OneTrying(u)
  BY <1>4, <1>5 DEF OneTrying
<1>7. Heads(u)
  BY <1>1, <1>4 DEF Sane, Heads, Headed, Coro
<1> QED
  BY <1>1, <1>4, <1>6, <1>7 DEF Sane, Keeps

\* A round of detect_process_timeout.
LEMMA DetectSane ==
  ASSUME NEW st, Sane(st), NEW t \in Detectors
  PROVE  Sane(Detect(st, t)) /\ Keeps(st, Detect(st, t))
<1>1. /\ t \in Coro /\ t \notin Connectors /\ t # "setup" /\ "detect" \in Chan
      /\ t \in Waiters["detect"] /\ "wait" \in Label
  BY FramesAreDistinct DEF Coro, Chan, Waiters, Label
<1>2. CASE st.closed \/ st.connecting
  BY <1>1, <1>2, ReturnSane DEF Detect
<1>3. CASE ~(st.closed \/ st.connecting)
  <2> DEFINE c == Cancel(st, "detect")
  <2>1. Sane(c) /\ Keeps(st, c) /\ c.closed = st.closed
    BY <1>1, CancelSane, CancelEffects DEF Sane
  <2> HIDE DEF c
  <2>2. Sane(Await(c, t, "wait", "detect")) /\ Keeps(c, Await(c, t, "wait", "detect"))
    BY <1>1, <1>3, <2>1, AwaitSane DEF Headed
  <2> QED
    BY <1>3, <2>1, <2>2, KeepsTransitive DEF Detect, c
<1> QED
  BY <1>2, <1>3

\* The reader waits for the next head.
LEMMA ReadHeadSane ==
  ASSUME NEW st, Sane(st), NEW r \in Readers
  PROVE  Sane(ReadHead(st, r)) /\ Keeps(st, ReadHead(st, r))
<1>1. /\ r \notin Connectors /\ r # "setup" /\ Rd["process"] = "processRd"
      /\ r \in Waiters["processRd"] /\ "head" \in Label /\ "process" \in Sock
  BY FramesAreDistinct DEF Rd, Waiters, Label, Sock
<1> QED
  BY <1>1, AwaitIoSane DEF ReadHead, Headed

\* An operation of another coroutine does not touch connect_process.
LEMMA AwaitIoTrying ==
  ASSUME NEW st, Sane(st), NEW k \in Sock, NEW ch \in {Rd[k], Wr[k]},
         NEW c \in Waiters[ch] \ Connectors, NEW l \in Label, NEW j \in Connectors
  PROVE  Trying(AwaitIo(st, c, l, k, ch), j) <=> Trying(st, j)
<1>1. /\ ch \in Chan /\ c \in Coro /\ j \in Coro /\ c # j /\ Formed(st)
      /\ st.pc \in [Coro -> Label]
  BY SockChannels, WaitersAreCoroutines DEF Coro, Sane, Formed, SessionState
<1>2. AwaitIo(st, c, l, k, ch).pc = [st.pc EXCEPT ![c] = l]
  <2>1. CASE st.sock[k] = "conn"
    BY <1>1, <2>1, AwaitEffects DEF AwaitIo
  <2>2. CASE st.sock[k] # "conn"
    BY <1>1, <2>2 DEF AwaitIo, Complete, Formed, SessionState
  <2> QED
    BY <2>1, <2>2
<1> QED
  BY <1>1, <1>2 DEF Trying

\* Nor does the detector.
LEMMA DetectTrying ==
  ASSUME NEW st, Sane(st), NEW t \in Detectors, NEW j \in Connectors
  PROVE  Trying(Detect(st, t), j) <=> Trying(st, j)
<1>1. /\ t \in Coro /\ j \in Coro /\ t # j /\ Formed(st) /\ "detect" \in Chan
      /\ t \in Waiters["detect"] /\ "wait" \in Label
      /\ st.pc \in [Coro -> Label]
  BY FramesAreDistinct DEF Coro, Chan, Waiters, Label, Sane, Formed, SessionState
<1>2. CASE st.closed \/ st.connecting
  <2>1. Detect(st, t).pc = [st.pc EXCEPT ![t] = "idle"]
    BY <1>1, <1>2, ReturnFormed DEF Detect
  <2> QED
    BY <1>1, <2>1 DEF Trying
<1>3. CASE ~(st.closed \/ st.connecting)
  <2> DEFINE c == Cancel(st, "detect")
  <2>1. Formed(c) /\ c.pc = st.pc
    BY <1>1, CancelFormed, CancelEffects
  <2> HIDE DEF c
  <2>2. Await(c, t, "wait", "detect").pc = [c.pc EXCEPT ![t] = "wait"]
    BY <1>1, <2>1, AwaitEffects
  <2> QED
    BY <1>1, <1>3, <2>1, <2>2 DEF Detect, Trying, c
<1> QED
  BY <1>2, <1>3

\* The four tuple went through: a reader and a detector start.
LEMMA ServedSane ==
  ASSUME NEW st, Sane(st), NEW k \in Connectors, NEW r \in Readers, NEW t \in Detectors,
         ~Trying(st, k)
  PROVE  Sane(Served(st, k, r, t)) /\ Keeps(st, Served(st, k, r, t))
<1> DEFINE a == ReadHead(st, r)
           b == Detect(a, t)
<1>1. k \in Coro /\ k # "setup"
  BY FramesAreDistinct DEF Coro
<1>2. /\ r \notin Connectors /\ Rd["process"] = "processRd"
      /\ r \in Waiters["processRd"] /\ "head" \in Label /\ "process" \in Sock
  BY FramesAreDistinct DEF Rd, Waiters, Label, Sock
<1>3. Sane(a) /\ Keeps(st, a)
  BY ReadHeadSane
<1>4. ~Trying(a, k)
  BY <1>2, AwaitIoTrying DEF ReadHead
<1> HIDE DEF a
<1>5. Sane(b) /\ Keeps(a, b) /\ ~Trying(b, k)
  BY <1>3, <1>4, DetectSane, DetectTrying
<1> HIDE DEF b
<1>6. Sane(Return(b, k)) /\ Keeps(b, Return(b, k))
  BY <1>1, <1>5, ReturnSane
<1> QED
  BY <1>3, <1>5, <1>6, KeepsTransitive DEF Served, a, b

-----------------------------------------------------------------------------
(***************************************************************************)
(* The loops of the two directions.                                        *)
(***************************************************************************)
\* The sockets and channels of the two loops.
LEMMA LoopChannels ==
  ASSUME NEW d \in Dir
  PROVE  /\ d \notin Connectors /\ d # "setup" /\ d \in Coro
         /\ From[d] \in Sock /\ To[d] \in Sock
         /\ d \in Waiters[Rd[From[d]]] /\ d \in Waiters[Wr[To[d]]]
         /\ \A r \in Readers : r \in Waiters[Wr[To[d]]]
<1>1. CASE d = "req"
  BY <1>1, FramesAreDistinct DEF Dir, Coro, From, To, Sock, Rd, Wr, Waiters
<1>2. CASE d = "res"
  BY <1>2, FramesAreDistinct DEF Dir, Coro, From, To, Sock, Rd, Wr, Waiters
<1> QED
  BY <1>1, <1>2 DEF Dir

\* Both loops write to the process.
LEMMA LoopToProcess ==
  ASSUME NEW d \in Dir
  PROVE  "process" \in Sock /\ Wr["process"] = "processWr" /\ d \in Waiters["processWr"]
BY DEF Sock, Wr, Waiters

\* The head of the loops, in bypass or not, with the end of file seen or not.
LEMMA NextRoundSane ==
  ASSUME NEW st, Sane(st), NEW d \in Dir
  PROVE  Sane(NextRound(st, d)) /\ Keeps(st, NextRound(st, d))
<1>1. {"dread", "pread", "notify"} \subseteq Label
  BY DEF Label
<1>2. CASE st.eof
  BY <1>2, LoopChannels, GiveUpSane DEF NextRound
<1>3. CASE ~st.eof /\ st.bypass
  BY <1>1, <1>3, LoopChannels, AwaitIoSane DEF NextRound, Headed
<1>4. CASE ~st.eof /\ ~st.bypass /\ d = "res" /\ ResponseBypass
  BY <1>1, <1>4, LoopChannels, LoopToProcess, AwaitIoSane DEF NextRound, Headed
<1>5. CASE ~st.eof /\ ~st.bypass /\ ~(d = "res" /\ ResponseBypass)
  BY <1>1, <1>5, LoopChannels, AwaitIoSane DEF NextRound, Headed
<1> QED
  BY <1>2, <1>3, <1>4, <1>5

\* Data goes straight to the other side.
LEMMA WriteDirectSane ==
  ASSUME NEW st, Sane(st), NEW d \in Dir
  PROVE  Sane(WriteDirect(st, d)) /\ Keeps(st, WriteDirect(st, d))
<1>1. "dwrite" \in Label
  BY DEF Label
<1> QED
  BY <1>1, LoopChannels, AwaitIoSane DEF WriteDirect, Headed

-----------------------------------------------------------------------------
(***************************************************************************)
(* Bytes and packets.                                                      *)
(***************************************************************************)
\* A stored byte.
Byte == [b : Nat, end : BOOLEAN]

\* A packet has the bytes it was made of, and its last byte is marked.
LEMMA PacketType ==
  ASSUME NEW q \in Seq(Nat)
  PROVE  /\ Packet(q) \in Seq(Byte)
         /\ Len(Packet(q)) = Len(q)
         /\ q # <<>> => Packet(q)[Len(q)].end
<1>1. Packet(q) \in [1..Len(q) -> Byte]
 BY DEF Packet, Byte
<1>2. Len(q) \in Nat
  OBVIOUS
<1>3. Packet(q) \in Seq(Byte)
  BY <1>1, <1>2, SeqDef
<1>4. Len(Packet(q)) = Len(q)
  BY <1>1, <1>2, <1>3
<1>5. q # <<>> => Len(q) \in 1..Len(q)
  OBVIOUS
<1>6. \A i \in 1..Len(q) : Packet(q)[i].end = (i = Len(q))
  BY DEF Packet
<1>7. q # <<>> => Packet(q)[Len(q)].end
  BY <1>5, <1>6
<1> QED
  BY <1>3, <1>4, <1>7

\* The bytes of stored packets.
LEMMA BytesType ==
  ASSUME NEW q \in Seq(Byte)
  PROVE  Bytes(q) \in Seq(Nat)
<1>1. \A i \in 1..Len(q) : q[i] \in Byte
  OBVIOUS
<1>2. \A x \in Byte : x.b \in Nat
  BY DEF Byte
<1>3. Bytes(q) \in [1..Len(q) -> Nat]
 BY <1>1, <1>2 DEF Bytes
<1> QED
  BY <1>3, SeqDef

\* The positions of a deque are finitely many.
LEMMA Positions ==
  ASSUME NEW q \in Seq(Byte)
  PROVE  IsFiniteSet(1..Len(q)) /\ Cardinality(1..Len(q)) = Len(q)
<1>1. Len(q) \in Nat
  OBVIOUS
<1> QED
  BY <1>1, FS_Interval

\* Bytes up to some ends of packets are at most all, and are all when the last
\* byte is among those ends.
LEMMA UptoRange ==
  ASSUME NEW q \in Seq(Byte), NEW ends
  PROVE  /\ Upto(q, ends) \in Nat
         /\ Upto(q, ends) <= Len(q)
         /\ Len(q) \in ends => Upto(q, ends) = Len(q)
<1> DEFINE T == {i \in 1..Len(q) : \E e \in ends : i <= e}
<1>2. T \in SUBSET (1..Len(q))
  OBVIOUS
<1>3. IsFiniteSet(T)
  BY Positions, <1>2, FS_Subset
<1>4. Cardinality(T) \in Nat /\ Cardinality(T) <= Cardinality(1..Len(q))
  BY Positions, <1>2, <1>3, FS_Subset, FS_CardinalityType
<1>5. Len(q) \in ends => T = 1..Len(q)
  OBVIOUS
<1>6. Upto(q, ends) = Cardinality(T)
  BY DEF Upto
<1> QED
  BY Positions, <1>4, <1>5, <1>6

\* The length of some packets is a number.
LEMMA LengthOfType ==
  ASSUME NEW q \in Seq(Byte), NEW n
  PROVE  LengthOf(q, n) \in Nat
<1> DEFINE T == {i \in 1..Len(q) : Cardinality({e \in Ends(q) : e < i}) < n}
<1>2. T \in SUBSET (1..Len(q))
  OBVIOUS
<1>3. IsFiniteSet(T)
  BY Positions, <1>2, FS_Subset
<1>4. Cardinality(T) \in Nat
  BY <1>3, FS_CardinalityType
<1> QED
  BY <1>4 DEF LengthOf

\* The number of packets that an answer covers is a number.
LEMMA CoveredType ==
  ASSUME NEW q \in Seq(Byte), NEW h \in Nat, NEW t \in Nat
  PROVE  Cardinality(Covered(q, h, t)) \in Nat
<1>2. Covered(q, h, t) \in SUBSET (1..Len(q))
  BY DEF Covered, Ends
<1> QED
  BY Positions, <1>2, FS_Subset, FS_CardinalityType

-----------------------------------------------------------------------------
(***************************************************************************)
(* Storing, flushing and reconnecting.                                     *)
(***************************************************************************)
\* A packet is stored, at the end of the deque, and sent to the process.
LEMMA StoreAndSendSane ==
  ASSUME NEW st, Sane(st), NEW d \in Dir
  PROVE  Sane(StoreAndSend(st, d)) /\ Keeps(st, StoreAndSend(st, d))
<1> DEFINE p == Packet(st.data[d])
           q == st.stored[d] \o p
           z == [st EXCEPT !.stored[d] = q]
<1>1. /\ st \in SessionState /\ st.data[d] \in Seq(Nat) /\ st.stored \in [Dir -> Seq(Byte)]
  BY DEF Sane, Formed, SessionState, Byte
<1>2. /\ p \in Seq(Byte) /\ Len(p) = Len(st.data[d])
      /\ p # <<>> => p[Len(p)].end
  <2>1. /\ p \in Seq(Byte) /\ Len(p) = Len(st.data[d])
        /\ st.data[d] # <<>> => p[Len(st.data[d])].end
    BY <1>1, PacketType
  <2> QED
    BY <1>1, <2>1, EmptySeq
<1> HIDE DEF p
<1>3. q \in Seq(Byte) /\ (q # <<>> => q[Len(q)].end)
  <2>1. /\ q \in Seq(Byte) /\ Len(q) = Len(st.stored[d]) + Len(p)
        /\ \A i \in 1..(Len(st.stored[d]) + Len(p)) :
              q[i] = IF i <= Len(st.stored[d]) THEN st.stored[d][i]
                     ELSE p[i - Len(st.stored[d])]
    <3>1. st.stored[d] \in Seq(Byte)
      BY <1>1
    <3> QED
      BY <1>2, <3>1, ConcatProperties
  <2>2. CASE p = <<>>
    <3>1. q = st.stored[d]
      BY <1>1, <2>2, ConcatEmptySeq
    <3> QED
      BY <2>1, <3>1 DEF Sane, Formed, Ended
  <2>3. CASE p # <<>>
    <3>1. Len(p) > 0 /\ Len(st.stored[d]) \in Nat /\ Len(p) \in Nat
      BY <1>1, <1>2, <2>3
    <3>2. q[Len(q)] = p[Len(p)]
      BY <2>1, <3>1
    <3> QED
      BY <1>2, <2>1, <2>3, <3>2
  <2> QED
    BY <2>2, <2>3
<1> HIDE DEF q
<1>4. /\ z \in SessionState /\ z.closed = st.closed /\ z.connecting = st.connecting
      /\ z.sock = st.sock /\ z.wait = st.wait /\ z.pc = st.pc /\ z.msg = st.msg
      /\ z.stored = [st.stored EXCEPT ![d] = q]
  BY <1>1, <1>3 DEF SessionState, Byte
<1> HIDE DEF z
<1>5. Ended(z)
  BY <1>1, <1>3, <1>4 DEF Sane, Formed, Ended
<1>6. Sane(z) /\ Keeps(st, z)
  BY <1>4, <1>5, SameSane
<1>7. "pwrite" \in Label
  BY DEF Label
<1>8. LET u == AwaitIo(z, d, "pwrite", "process", "processWr")
      IN  Sane(u) /\ Keeps(z, u)
  BY <1>6, <1>7, LoopChannels, LoopToProcess, AwaitIoSane DEF Headed
<1> QED
  BY <1>6, <1>8, KeepsTransitive DEF StoreAndSend, z, q, p

\* Going to bypass.
LEMMA EnableBypassSane ==
  ASSUME NEW st, Sane(st)
  PROVE  Sane(EnableBypass(st)) /\ Keeps(st, EnableBypass(st))
<1> DEFINE u == EnableBypass(st)
<1>1. /\ u \in SessionState /\ u.closed = st.closed /\ u.connecting = st.connecting
      /\ u.sock = st.sock /\ u.wait = st.wait /\ u.pc = st.pc /\ u.msg = st.msg
      /\ u.stored = st.stored
  BY DEF EnableBypass, Sane, Formed, SessionState
<1> QED
  BY <1>1, SameSane DEF Sane, Formed, Ended

\* What was stored is forgotten.
LEMMA FlushedSane ==
  ASSUME NEW st, Sane(st), NEW d \in Dir
  PROVE  Sane(Flushed(st, d)) /\ Keeps(st, Flushed(st, d))
<1> DEFINE u == Flushed(st, d)
<1>1. \A S : <<>> \in Seq(S)
  OBVIOUS
<1>2. /\ u \in SessionState /\ u.closed = st.closed /\ u.connecting = st.connecting
      /\ u.sock = st.sock /\ u.wait = st.wait /\ u.pc = st.pc /\ u.msg = st.msg
      /\ u.stored = [st.stored EXCEPT ![d] = <<>>]
  BY <1>1 DEF Flushed, Sane, Formed, SessionState
<1>3. st.stored \in [Dir -> Seq(Byte)]
  BY DEF Sane, Formed, SessionState, Byte
<1>4. Ended(u)
  BY <1>2, <1>3 DEF Sane, Formed, Ended
<1> QED
  BY <1>2, <1>4, SameSane

\* The coroutine c takes what it is going to write into its buffer.
LEMMA BufferSane ==
  ASSUME NEW st, Sane(st), NEW c \in Dir \cup Readers, NEW q \in Seq(Nat)
  PROVE  LET u == [st EXCEPT !.data[c] = q] IN Sane(u) /\ Keeps(st, u)
<1> DEFINE u == [st EXCEPT !.data[c] = q]
<1>1. /\ u \in SessionState /\ u.closed = st.closed /\ u.connecting = st.connecting
      /\ u.sock = st.sock /\ u.wait = st.wait /\ u.pc = st.pc /\ u.msg = st.msg
      /\ u.stored = st.stored
  BY DEF Sane, Formed, SessionState
<1> HIDE DEF u
<1>2. Ended(u)
  BY <1>1 DEF Sane, Formed, Ended
<1>3. Sane(u) /\ Keeps(st, u)
  BY <1>1, <1>2, SameSane
<1> QED
  BY <1>3 DEF u

\* A loop, or a reader, writes to the side its data is for.
LEMMA WritersToPeer ==
  ASSUME NEW d \in Dir, NEW c \in Dir \cup Readers, c \in Dir => c = d
  PROVE  /\ To[d] \in Sock /\ c \notin Connectors /\ c # "setup" /\ c \in Coro
         /\ c \in Waiters[Wr[To[d]]]
<1>1. CASE c \in Dir
  BY <1>1, LoopChannels
<1>2. CASE c \in Readers
  BY <1>2, LoopChannels, FramesAreDistinct DEF Coro
<1> QED
  BY <1>1, <1>2

\* What is stored is written to the other side.
LEMMA FlushSane ==
  ASSUME NEW st, Sane(st), NEW d \in Dir, NEW c \in Dir \cup Readers, c \in Dir => c = d,
         NEW l \in Label \ Headed
  PROVE  Sane(Flush(st, c, d, l)) /\ Keeps(st, Flush(st, c, d, l))
<1> DEFINE q == Bytes(st.stored[d])
           u == [st EXCEPT !.data[c] = q]
<1>1. st.stored[d] \in Seq(Byte)
  BY DEF Sane, Formed, SessionState, Byte
<1>2. q \in Seq(Nat)
  BY <1>1, BytesType
<1>3. Sane(u) /\ Keeps(st, u)
  BY <1>2, BufferSane
<1> HIDE DEF u
<1>4. LET v == AwaitIo(u, c, l, To[d], Wr[To[d]])
      IN  Sane(v) /\ Keeps(u, v)
  BY <1>3, WritersToPeer, AwaitIoSane
<1> QED
  BY <1>3, <1>4, KeepsTransitive DEF Flush, u

\* The loop starts a connect_process and goes on.
LEMMA ReconnectSane ==
  ASSUME NEW st, Sane(st), NEW d \in Dir, NEW k \in Connectors
  PROVE  Sane(Reconnect(st, d, k)) /\ Keeps(st, Reconnect(st, d, k))
BY ConnectProcessSane, NextRoundSane, KeepsTransitive DEF Reconnect

\* A loop that could not write to the process.
LEMMA SendFailedSane ==
  ASSUME NEW st, Sane(st), NEW d \in Dir, NEW k \in Connectors
  PROVE  Sane(SendFailed(st, d, k)) /\ Keeps(st, SendFailed(st, d, k))
<1> DEFINE s == EnableBypass(st)
<1>1. Sane(s) /\ Keeps(st, s)
  BY EnableBypassSane
<1> HIDE DEF s
<1>2. /\ Sane(Reconnect(s, d, k)) /\ Keeps(s, Reconnect(s, d, k))
      /\ Sane(Flush(s, d, d, "flush")) /\ Keeps(s, Flush(s, d, d, "flush"))
  BY <1>1, ReconnectSane, FlushSane DEF Label, Headed
<1> QED
  BY <1>1, <1>2, KeepsTransitive DEF SendFailed, s

\* A reader that is done with its connection.
LEMMA LoseReaderSane ==
  ASSUME NEW st, Sane(st), NEW r \in Readers, NEW k \in Connectors
  PROVE  Sane(LoseReader(st, r, k)) /\ Keeps(st, LoseReader(st, r, k))
<1>1. r \in Coro /\ r \notin Connectors
  BY FramesAreDistinct DEF Coro
<1> QED
  BY <1>1, ConnectProcessSane, ReturnSane, KeepsTransitive DEF LoseReader

\* The second flush of a reader that could not read.
LEMMA FlushResponsesSane ==
  ASSUME NEW st, Sane(st), NEW r \in Readers, NEW k \in Connectors
  PROVE  Sane(FlushResponses(st, r, k)) /\ Keeps(st, FlushResponses(st, r, k))
<1> DEFINE s == EnableBypass(st)
<1>1. Sane(s) /\ Keeps(st, s)
  BY EnableBypassSane
<1>2. "flushRes" \in Label \ Headed /\ "res" \in Dir /\ r \notin Dir
  BY FramesAreDistinct DEF Label, Headed, Dir
<1> HIDE DEF s
<1>3. Sane(LoseReader(s, r, k)) /\ Keeps(s, LoseReader(s, r, k))
  BY <1>1, LoseReaderSane
<1>4. Sane(Flush(s, r, "res", "flushRes")) /\ Keeps(s, Flush(s, r, "res", "flushRes"))
  BY <1>1, <1>2, FlushSane
<1> QED
  BY <1>1, <1>3, <1>4, KeepsTransitive DEF FlushResponses, s

\* A reader that could not read.
LEMMA ReadFailedSane ==
  ASSUME NEW st, Sane(st), NEW r \in Readers, NEW k \in Connectors
  PROVE  Sane(ReadFailed(st, r, k)) /\ Keeps(st, ReadFailed(st, r, k))
<1> DEFINE s == EnableBypass(st)
<1>1. Sane(s) /\ Keeps(st, s)
  BY EnableBypassSane
<1>2. /\ "flushReq" \in Label \ Headed /\ "req" \in Dir /\ r \notin Dir
      /\ r \in Coro /\ r \notin Connectors
  BY FramesAreDistinct DEF Label, Headed, Dir, Coro
<1> HIDE DEF s
<1>3. Sane(Return(st, r)) /\ Keeps(st, Return(st, r))
  BY <1>2, ReturnSane
<1>4. Sane(FlushResponses(s, r, k)) /\ Keeps(s, FlushResponses(s, r, k))
  BY <1>1, FlushResponsesSane
<1>5. Sane(Flush(s, r, "req", "flushReq")) /\ Keeps(s, Flush(s, r, "req", "flushReq"))
  BY <1>1, <1>2, FlushSane
<1> QED
  BY <1>1, <1>3, <1>4, <1>5, KeepsTransitive DEF ReadFailed, s

-----------------------------------------------------------------------------
(***************************************************************************)
(* Answers of the process.                                                 *)
(***************************************************************************)
\* A reader writes what it has put into its buffer.
LEMMA ReaderWrites ==
  ASSUME NEW st, Sane(st), NEW r \in Readers, st.msg[r].type \in Dir, NEW l \in Label
  PROVE  LET d == st.msg[r].type
             u == AwaitIo(st, r, l, To[d], Wr[To[d]])
         IN  Sane(u) /\ Keeps(st, u)
<1> DEFINE d == st.msg[r].type
<1>1. d \in Dir /\ r \notin Dir
  BY FramesAreDistinct DEF Dir
<1> HIDE DEF d
<1>2. /\ To[d] \in Sock /\ r \notin Connectors /\ r # "setup" /\ r \in Coro
      /\ r \in Waiters[Wr[To[d]]]
  BY <1>1, WritersToPeer
<1> QED
  BY <1>2, AwaitIoSane DEF d

\* New data of the process goes out.
LEMMA WriteNewSane ==
  ASSUME NEW st, Sane(st), NEW r \in Readers, st.msg[r].type \in Dir
  PROVE  Sane(WriteNew(st, r)) /\ Keeps(st, WriteNew(st, r))
<1> DEFINE q == <<0>>
           u == [st EXCEPT !.data[r] = q]
<1>1. q \in Seq(Nat)
  OBVIOUS
<1> HIDE DEF q
<1>2. Sane(u) /\ Keeps(st, u)
  BY <1>1, BufferSane
<1>3. u.msg = st.msg
  BY DEF Sane, Formed, SessionState
<1> HIDE DEF u
<1>4. "wnew" \in Label
  BY DEF Label
<1> QED
  BY <1>2, <1>3, <1>4, ReaderWrites, KeepsTransitive DEF WriteNew, u, q

\* prepare_transfer_packet stays within the deque unless the answer lies behind
\* what was handled: the last packet ends where the deque ends, so when it is
\* not covered the part of the next packet ends before that.
LEMMA TransferSane ==
  ASSUME NEW st, Sane(st), NEW r \in Readers, st.msg[r].type \in Dir
  PROVE  Sane(Transfer(st, r)) /\ Keeps(st, Transfer(st, r))
<1> DEFINE d == st.msg[r].type
           q == st.stored[d]
           h == st.handled[d]
           t == st.msg[r].total
           n == Cardinality(Covered(q, h, t))
           m == Upto(q, Covered(q, h, t))
           used == IF m < Len(q) THEN t - (h + m) ELSE 0
           out == Bytes(SubSeq(q, 1, m + used))
           w == [pkts |-> n, used |-> used]
           s == [st EXCEPT !.handled[d] = h + m, !.cut[r] = w, !.data[r] = out]
<1>1. /\ d \in Dir /\ q \in Seq(Byte) /\ h \in Nat /\ t \in Nat
      /\ st.stored[d] # <<>> => st.stored[d][Len(st.stored[d])].end
      /\ r \in Coro /\ r \notin Connectors /\ r # "setup" /\ "wfwd" \in Label
  BY FramesAreDistinct
     DEF Sane, Formed, Ended, SessionState, ResponseHead, Byte, Coro, Label
<1>2. Transfer(st, r) = IF used < 0 THEN Undefined(st)
                        ELSE IF out = <<>> THEN AwaitNothing(s, r, "wfwd")
                        ELSE AwaitIo(s, r, "wfwd", To[d], Wr[To[d]])
  BY DEF Transfer
<1>3. CASE used < 0
  BY <1>2, <1>3, UndefinedSane
<1>4. CASE ~(used < 0)
  <2> HIDE DEF d, q, h, t
  <2>1. /\ n \in Nat /\ m \in Nat
        /\ Len(q) \in Covered(q, h, t) => m = Len(q)
    BY <1>1, CoveredType, UptoRange
  <2>2. Len(q) \in Nat /\ m <= Len(q)
    BY <1>1, UptoRange
  <2>3. used \in Nat /\ m + used <= Len(q)
    <3>1. CASE m < Len(q)
      <4>1. Len(q) \in Nat /\ q # <<>>
        BY <1>1, <2>1, <3>1
      <4>2. q[Len(q)].end
        BY <1>1, <4>1 DEF q
      <4>3. Len(q) \in Ends(q)
        BY <1>1, <4>1, <4>2 DEF Ends
      <4>4. h + Len(q) > t
        BY <1>1, <2>1, <3>1, <4>1, <4>3 DEF Covered
      <4>5. used = t - (h + m)
        BY <3>1
      <4> HIDE DEF used, m
      <4> QED
        BY <1>1, <1>4, <2>1, <2>2, <4>4, <4>5
    <3>2. CASE ~(m < Len(q))
      <4>1. used = 0
        BY <3>2
      <4> HIDE DEF used, m
      <4> QED
        BY <2>1, <2>2, <4>1
    <3> QED
      BY <3>1, <3>2
  <2> HIDE DEF m, n, used
  <2>4. SubSeq(q, 1, m + used) \in Seq(Byte)
    BY <1>1, <2>1, <2>3
  <2>5. out \in Seq(Nat)
    BY <2>4, BytesType
  <2>6. w \in [pkts : Nat, used : Nat] /\ h + m \in Nat
    BY <1>1, <2>1, <2>3
  <2> HIDE DEF out, w
  <2>7. /\ s \in SessionState /\ s.closed = st.closed /\ s.connecting = st.connecting
        /\ s.sock = st.sock /\ s.wait = st.wait /\ s.pc = st.pc /\ s.msg = st.msg
        /\ s.stored = st.stored
    BY <1>1, <2>5, <2>6 DEF Sane, Formed, SessionState
  <2> HIDE DEF s
  <2>8. Sane(s) /\ Keeps(st, s)
    BY <2>7, SameSane DEF Sane, Formed, Ended
  <2>9. s.msg[r].type = d
    BY <2>7 DEF d
  <2>10. Sane(AwaitNothing(s, r, "wfwd")) /\ Keeps(s, AwaitNothing(s, r, "wfwd"))
    BY <1>1, <2>8, <2>9, CompletedAtOnceSane DEF AwaitNothing, Result
  <2>11. LET u == AwaitIo(s, r, "wfwd", To[d], Wr[To[d]])
         IN  Sane(u) /\ Keeps(s, u)
    BY <1>1, <2>8, <2>9, ReaderWrites
  <2> QED
    BY <1>2, <1>4, <2>8, <2>10, <2>11, KeepsTransitive
<1> QED
  BY <1>3, <1>4

\* The verdict of the process.
LEMMA DecideSane ==
  ASSUME NEW st, Sane(st), NEW r \in Readers, st.msg[r].type \in Dir
  PROVE  Sane(Decide(st, r)) /\ Keeps(st, Decide(st, r))
<1>1. r \in Coro
  BY DEF Coro
<1> QED
  BY <1>1, GiveUpSane, TransferSane DEF Decide

\* clear_handled_packet leaves a rest of the deque that ends where it ended.
LEMMA ClearedSane ==
  ASSUME NEW st, Sane(st), NEW r \in Readers, st.msg[r].type \in Dir
  PROVE  Sane(Cleared(st, r)) /\ Keeps(st, Cleared(st, r))
<1> DEFINE d == st.msg[r].type
           q == st.stored[d]
           n == st.cut[r].pkts
           m == LengthOf(q, n)
           used == st.cut[r].used
           p == SubSeq(q, m + used + 1, Len(q))
           s == [st EXCEPT !.stored[d] = p]
<1>1. /\ d \in Dir /\ q \in Seq(Byte) /\ used \in Nat
      /\ st.stored[d] # <<>> => st.stored[d][Len(st.stored[d])].end
      /\ st.stored \in [Dir -> Seq(Byte)]
  BY DEF Sane, Formed, Ended, SessionState, Byte
<1>2. Cleared(st, r) = Undefined(st) \/ Cleared(st, r) = ReadHead(s, r)
  BY DEF Cleared
<1> HIDE DEF d
<1>3. m \in Nat
  BY <1>1, LengthOfType
<1> HIDE DEF q, m, used
<1>4. p \in Seq(Byte) /\ (p # <<>> => q # <<>> /\ p[Len(p)] = q[Len(q)])
  <2> DEFINE a == m + used + 1
  <2>1. Len(q) \in Nat /\ a \in Nat \ {0} /\ Len(q) \in Int /\ a \in Int
    BY <1>1, <1>3
  <2>2. p = SubSeq(q, a, Len(q))
    OBVIOUS
  <2> HIDE DEF a, p
  <2>3. \A i \in a..Len(q) : q[i] \in Byte
    BY <1>1, <2>1
  <2>4. /\ p \in Seq(Byte)
        /\ Len(p) = IF a <= Len(q) THEN Len(q) - a + 1 ELSE 0
        /\ \A i \in 1..(Len(q) - a + 1) : p[i] = q[a + i - 1]
    BY <2>1, <2>2, <2>3, SubSeqProperties
  <2>5. CASE a <= Len(q)
    <3>1. Len(p) = Len(q) - a + 1 /\ Len(p) \in 1..(Len(q) - a + 1)
      BY <2>1, <2>4, <2>5
    <3>2. p[Len(p)] = q[a + Len(p) - 1]
      BY <2>4, <3>1
    <3>3. a + Len(p) - 1 = Len(q)
      BY <2>1, <3>1
    <3>4. q # <<>>
      BY <2>1, <2>5
    <3> QED
      BY <2>4, <3>2, <3>3, <3>4
  <2>6. CASE ~(a <= Len(q))
    BY <2>4, <2>6
  <2> QED
    BY <2>5, <2>6
<1>5. p \in Seq(Byte)
  BY <1>4
<1>6. p # <<>> => p[Len(p)].end
  BY <1>1, <1>4 DEF q
<1> HIDE DEF p
<1>7. /\ s \in SessionState /\ s.closed = st.closed /\ s.connecting = st.connecting
      /\ s.sock = st.sock /\ s.wait = st.wait /\ s.pc = st.pc /\ s.msg = st.msg
      /\ s.stored = [st.stored EXCEPT ![d] = p]
  BY <1>1, <1>5 DEF Sane, Formed, SessionState, Byte
<1> HIDE DEF s
<1>8. Ended(s)
  BY <1>1, <1>6, <1>7 DEF Sane, Formed, Ended
<1>9. Sane(s) /\ Keeps(st, s)
  BY <1>7, <1>8, SameSane
<1> QED
  BY <1>2, <1>9, UndefinedSane, ReadHeadSane, KeepsTransitive

-----------------------------------------------------------------------------
(***************************************************************************)
(* Operations that complete.                                               *)
(***************************************************************************)
\* A completion leaves control alone.
Same(st, u) == u.closed = st.closed /\ u.pc = st.pc

\* The first operation on a channel completes.
LEMMA CompleteHeadSane ==
  ASSUME NEW st, Sane(st), NEW ch \in Chan, st.wait[ch] # <<>>, NEW r \in Result
  PROVE  Sane(CompleteHead(st, ch, r)) /\ Same(st, CompleteHead(st, ch, r))
<1> DEFINE q == Tail(st.wait[ch])
           c == Head(st.wait[ch])
           s == [st EXCEPT !.wait[ch] = q]
           u == Complete(s, c, r)
<1>1. /\ st \in SessionState /\ st.wait[ch] \in Seq(Coro)
      /\ st.wait[ch] \in Seq(Waiters[ch]) /\ st.wait \in [Chan -> Seq(Coro)]
  BY DEF Sane, Formed, SessionState, Waited
<1>2. q \in Seq(Coro) /\ q \in Seq(Waiters[ch]) /\ c \in Coro
  BY <1>1, HeadTailProperties
<1>3. CompleteHead(st, ch, r) = u
  BY DEF CompleteHead
<1> HIDE DEF q, c
<1>4. /\ s \in SessionState /\ s.closed = st.closed /\ s.connecting = st.connecting
      /\ s.sock = st.sock /\ s.pc = st.pc /\ s.msg = st.msg /\ s.stored = st.stored
      /\ s.wait = [st.wait EXCEPT ![ch] = q]
  BY <1>1, <1>2 DEF SessionState
<1> HIDE DEF s
<1>5. Formed(s)
  <2>1. Waited(s)
    BY <1>1, <1>2, <1>4 DEF Sane, Formed, Waited
  <2> QED
    BY <1>4, <2>1 DEF Sane, Formed, Ended
<1>6. Shut(s)
  BY <1>1, <1>4, SockChannels DEF Sane, Shut, Dead
<1>7. Formed(u)
  BY <1>2, <1>5, CompleteFormed
<1>8. /\ u.closed = s.closed /\ u.connecting = s.connecting
      /\ u.sock = s.sock /\ u.pc = s.pc /\ u.msg = s.msg /\ u.wait = s.wait
  BY <1>4 DEF Complete, SessionState
<1> HIDE DEF u
<1>9. Shut(u)
  BY <1>6, <1>8 DEF Shut, Dead
<1>10. OneTrying(u) /\ Heads(u)
  BY <1>4, <1>8 DEF Sane, OneTrying, Trying, Heads
<1> QED
  BY <1>3, <1>4, <1>7, <1>8, <1>9, <1>10 DEF Sane, Same

\* A socket gets a descriptor or is connected while the session is open.
LEMMA OpenSane ==
  ASSUME NEW st, Sane(st), ~st.closed, NEW k \in Sock, NEW v \in SockState
  PROVE  LET u == [st EXCEPT !.sock[k] = v]
         IN  Sane(u) /\ Same(st, u) /\ u.wait = st.wait
<1> DEFINE u == [st EXCEPT !.sock[k] = v]
<1>1. /\ u \in SessionState /\ u.closed = st.closed /\ u.connecting = st.connecting
      /\ u.pc = st.pc /\ u.msg = st.msg /\ u.stored = st.stored /\ u.wait = st.wait
  BY DEF Sane, Formed, SessionState
<1> HIDE DEF u
<1>2. Sane(u) /\ Same(st, u) /\ u.wait = st.wait
  BY <1>1 DEF Sane, Formed, Waited, Ended, Shut, OneTrying, Trying, Heads, Same
<1> QED
  BY <1>2 DEF u

\* A head arrives for a reader that waits for one.
LEMMA HeadArrivesSane ==
  ASSUME NEW st, Sane(st), NEW r \in Readers, st.pc[r] = "head", NEW m \in ResponseHead
  PROVE  LET u == [st EXCEPT !.msg[r] = m]
         IN  Sane(u) /\ Same(st, u) /\ u.wait = st.wait
<1> DEFINE u == [st EXCEPT !.msg[r] = m]
<1>1. /\ u \in SessionState /\ u.closed = st.closed /\ u.connecting = st.connecting
      /\ u.pc = st.pc /\ u.sock = st.sock /\ u.stored = st.stored /\ u.wait = st.wait
      /\ \A x \in Readers \ {r} : u.msg[x] = st.msg[x]
  BY DEF Sane, Formed, SessionState
<1> HIDE DEF u
<1>2. Heads(u)
  BY <1>1 DEF Sane, Heads, Headed
<1>3. Sane(u) /\ Same(st, u) /\ u.wait = st.wait
  BY <1>1, <1>2 DEF Sane, Formed, Waited, Ended, Shut, Dead, OneTrying, Trying, Same
<1> QED
  BY <1>3 DEF u
=============================================================================
