---------------------------- MODULE Detector_proof ----------------------------
(***************************************************************************)
(* A session never has two detectors, whatever its peers and the process   *)
(* do, for all values of the constants.                                    *)
(*                                                                         *)
(* The argument is about the order of the ready queue: a connect_process   *)
(* that finds the flag down cancels what the last one has left behind, and *)
(* all of that goes into the queue before the new connection can be        *)
(* announced there.  Queued says where every coroutine is, Guarded what    *)
(* may be left behind and when.  Both carry the set of the coroutines that *)
(* are running: those a handler has taken up and not yet suspended again.  *)
(***************************************************************************)
EXTENDS ProxySession_proof

\* The parts of a session that its executor works on.  Only detectors wait on
\* the timer, and on nothing else.
Ready(st) ==
    /\ st = [f \in DOMAIN st |-> st[f]]
    /\ {"runq", "wait", "pc", "res", "sock", "connecting"} \subseteq DOMAIN st
    /\ st.runq \in Seq(Coro)
    /\ st.wait \in [Chan -> Seq(Coro)]
    /\ st.pc \in [Coro -> Label]
    /\ st.res \in [Coro -> Result]
    /\ \A x \in Chan : \A i \in 1..Len(st.wait[x]) :
           st.wait[x][i] \in Detectors => x = "detect"

\* Every suspended coroutine is at one place: in the ready queue with the
\* result of its operation, or on one channel without one.
Queued(st, C) ==
    /\ \A i, j \in 1..Len(st.runq) : st.runq[i] = st.runq[j] => i = j
    /\ \A i \in 1..Len(st.runq) :
           LET c == st.runq[i] IN c \notin C /\ st.pc[c] # "idle" /\ st.res[c] # "none"
    /\ \A x, y \in Chan : \A i \in 1..Len(st.wait[x]), j \in 1..Len(st.wait[y]) :
           st.wait[x][i] = st.wait[y][j] => x = y /\ i = j
    /\ \A x \in Chan : \A i \in 1..Len(st.wait[x]) :
           LET c == st.wait[x][i] IN c \notin C /\ st.pc[c] # "idle" /\ st.res[c] = "none"
    /\ \A c \in Coro \ C :
           /\ st.pc[c] # "idle" /\ st.res[c] # "none" =>
                  \E i \in 1..Len(st.runq) : st.runq[i] = c
           /\ st.pc[c] # "idle" /\ st.res[c] = "none" =>
                  \E x \in Chan : \E i \in 1..Len(st.wait[x]) : st.wait[x][i] = c

\* What is left of a connection to the process that works or may yet work: the
\* detector, or the coroutine that is going to start it.
Live(st, C, c) ==
    /\ c \notin C
    /\ \/ c \in Detectors /\ st.pc[c] # "idle"
       \/ c \in Connectors /\ st.pc[c] = "tuple" /\ st.res[c] # "err"

\* A connection to the process is announced to the coroutine that tries.
Arrived(st, c) == c \in Connectors /\ st.pc[c] = "connect" /\ st.res[c] = "ok"

\* There is at most one such coroutine.  While another connection is tried it
\* is in the ready queue, before the news of that connection.
Guarded(st, C) ==
    /\ \A c, e \in Coro : Live(st, C, c) /\ Live(st, C, e) => c = e
    /\ \A c \in Coro : st.connecting /\ Live(st, C, c) => st.res[c] # "none"
    /\ \A i, j \in 1..Len(st.runq) :
           Live(st, C, st.runq[i]) /\ Arrived(st, st.runq[j]) => i < j
    /\ \A k \in Connectors \ C : Trying(st, k) => st.connecting
    /\ \A k \in Connectors \ C : st.pc[k] = "tuple" /\ st.res[k] = "none" =>
           \E i \in 1..Len(st.wait["processWr"]) : st.wait["processWr"][i] = k

Orderly(st, C) == Ready(st) /\ Queued(st, C) /\ Guarded(st, C)

-----------------------------------------------------------------------------
(***************************************************************************)
(* What the executor changes.                                              *)
(***************************************************************************)
\* The session has these parts.
LEMMA FormedReady == ASSUME NEW st, Formed(st) PROVE Ready(st)
<1>1. st \in SessionState
  BY DEF Formed
<1>2. /\ st = [f \in DOMAIN st |-> st[f]]
      /\ {"runq", "wait", "pc", "res", "sock", "connecting"} \subseteq DOMAIN st
  BY <1>1 DEF SessionState
<1>3. /\ st.runq \in Seq(Coro) /\ st.wait \in [Chan -> Seq(Coro)]
      /\ st.pc \in [Coro -> Label] /\ st.res \in [Coro -> Result]
  BY <1>1 DEF SessionState
<1>4. ASSUME NEW x \in Chan, NEW i \in 1..Len(st.wait[x]), st.wait[x][i] \in Detectors
      PROVE  x = "detect"
  <2>1. st.wait[x] \in Seq(Waiters[x])
    BY DEF Formed, Waited
  <2>2. st.wait[x][i] \in Waiters[x]
    BY <2>1
  <2>3. x # "detect" => Waiters[x] \cap Detectors = {}
    BY FramesAreDistinct DEF Waiters, Chan, Dir
  <2> QED
    BY <1>4, <2>2, <2>3
<1> QED
  BY <1>2, <1>3, <1>4 DEF Ready

\* The first of the ready queue is taken off.
LEMMA PopReady ==
    ASSUME NEW st, Ready(st), st.runq # <<>>
    PROVE  LET u == Pop(st)
           IN  /\ Ready(u) /\ u.runq = Tail(st.runq) /\ u.wait = st.wait /\ u.pc = st.pc
               /\ u.res = st.res /\ u.connecting = st.connecting
<1> DEFINE u == Pop(st)
<1>1. /\ u = [f \in DOMAIN u |-> u[f]] /\ DOMAIN u = DOMAIN st
      /\ u.runq = Tail(st.runq) /\ u.wait = st.wait /\ u.pc = st.pc
      /\ u.res = st.res /\ u.connecting = st.connecting
  BY DEF Pop, Ready
<1>2. Tail(st.runq) \in Seq(Coro)
  BY DEF Ready
<1> HIDE DEF u
<1>3. Ready(u)
  BY <1>1, <1>2 DEF Ready
<1> QED
  BY <1>1, <1>3 DEF u

\* A coroutine suspends on a channel.
LEMMA AwaitReady ==
    ASSUME NEW st, Ready(st), NEW c \in Coro, NEW l \in Label, NEW ch \in Chan,
           c \in Detectors => ch = "detect"
    PROVE  LET u == Await(st, c, l, ch)
           IN  /\ Ready(u) /\ u.runq = st.runq /\ u.connecting = st.connecting
               /\ \A x \in Coro : u.pc[x] = IF x = c THEN l ELSE st.pc[x]
               /\ \A x \in Coro : u.res[x] = IF x = c THEN "none" ELSE st.res[x]
               /\ u.wait[ch] = Append(st.wait[ch], c)
               /\ \A x \in Chan \ {ch} : u.wait[x] = st.wait[x]
<1> DEFINE u == Await(st, c, l, ch)
<1>1. /\ u = [f \in DOMAIN u |-> u[f]] /\ DOMAIN u = DOMAIN st
      /\ u.runq = st.runq /\ u.connecting = st.connecting
      /\ u.pc = [st.pc EXCEPT ![c] = l]
      /\ u.res = [st.res EXCEPT ![c] = "none"]
      /\ u.wait = [st.wait EXCEPT ![ch] = Append(st.wait[ch], c)]
  BY DEF Await, Ready
<1>2. /\ st.pc \in [Coro -> Label] /\ st.res \in [Coro -> Result]
      /\ st.wait \in [Chan -> Seq(Coro)] /\ st.runq \in Seq(Coro) /\ "none" \in Result
  BY DEF Ready, Result
<1>3. st.wait[ch] \in Seq(Coro)
  BY <1>2
<1>4. Append(st.wait[ch], c) \in Seq(Coro)
  BY <1>3
<1> HIDE DEF u
<1>5. ASSUME NEW x \in Chan, NEW i \in 1..Len(u.wait[x]), u.wait[x][i] \in Detectors
      PROVE  x = "detect"
  <2>1. CASE x = ch
    <3>1. u.wait[x] = Append(st.wait[x], c)
      BY <1>1, <1>2, <2>1
    <3>2. u.wait[x][i] = c \/ (i \in 1..Len(st.wait[x]) /\ u.wait[x][i] = st.wait[x][i])
      BY <1>3, <2>1, <3>1
    <3> QED
      BY <1>5, <2>1, <3>2 DEF Ready
  <2>2. CASE x # ch
    <3>1. u.wait[x] = st.wait[x]
      BY <1>1, <1>2, <2>2
    <3> QED
      BY <1>5, <3>1 DEF Ready
  <2> QED
    BY <2>1, <2>2
<1>6. Ready(u)
  <2>1. u.wait \in [Chan -> Seq(Coro)]
    BY <1>1, <1>2, <1>4
  <2>2. {"runq", "wait", "pc", "res", "sock", "connecting"} \subseteq DOMAIN u
    BY <1>1 DEF Ready
  <2> QED
    BY <1>1, <1>2, <1>5, <2>1, <2>2 DEF Ready
<1>7. /\ \A x \in Coro : u.pc[x] = IF x = c THEN l ELSE st.pc[x]
      /\ \A x \in Coro : u.res[x] = IF x = c THEN "none" ELSE st.res[x]
      /\ u.wait[ch] = Append(st.wait[ch], c)
      /\ \A x \in Chan \ {ch} : u.wait[x] = st.wait[x]
  BY <1>1, <1>2
<1> QED
  BY <1>1, <1>6, <1>7 DEF u

\* The coroutine c has come to the point l.
At(st, c, l) == [st EXCEPT !.pc[c] = l]

\* An operation of a coroutine that comes to a point ends at once.
LEMMA CompleteReady ==
    ASSUME NEW st, Ready(st), NEW c \in Coro, NEW l \in Label, NEW r \in Result
    PROVE  LET u == Complete(At(st, c, l), c, r)
           IN  /\ Ready(u) /\ u.runq = Append(st.runq, c) /\ u.connecting = st.connecting
               /\ \A x \in Coro : u.pc[x] = IF x = c THEN l ELSE st.pc[x]
               /\ \A x \in Coro : u.res[x] = IF x = c THEN r ELSE st.res[x]
               /\ u.wait = st.wait
<1> DEFINE z == At(st, c, l)
           u == Complete(z, c, r)
<1>1. /\ z = [f \in DOMAIN z |-> z[f]] /\ DOMAIN z = DOMAIN st
      /\ z.runq = st.runq /\ z.connecting = st.connecting
      /\ z.pc = [st.pc EXCEPT ![c] = l] /\ z.res = st.res /\ z.wait = st.wait
  BY DEF At, Ready
<1> HIDE DEF z
<1>2. /\ u = [f \in DOMAIN u |-> u[f]] /\ DOMAIN u = DOMAIN z
      /\ u.runq = Append(z.runq, c) /\ u.connecting = z.connecting
      /\ u.pc = z.pc /\ u.res = [z.res EXCEPT ![c] = r] /\ u.wait = z.wait
  BY <1>1 DEF Complete, Ready
<1> HIDE DEF u
<1>3. /\ st.pc \in [Coro -> Label] /\ st.res \in [Coro -> Result]
      /\ Append(st.runq, c) \in Seq(Coro)
  BY DEF Ready
<1>4. Ready(u)
  BY <1>1, <1>2, <1>3 DEF Ready
<1>5. /\ \A x \in Coro : u.pc[x] = IF x = c THEN l ELSE st.pc[x]
      /\ \A x \in Coro : u.res[x] = IF x = c THEN r ELSE st.res[x]
  BY <1>1, <1>2, <1>3
<1> QED
  BY <1>1, <1>2, <1>4, <1>5 DEF u, z

\* The first operation on a channel ends.
LEMMA CompleteHeadReady ==
    ASSUME NEW st, Ready(st), NEW ch \in Chan, st.wait[ch] # <<>>, NEW r \in Result
    PROVE  LET u == CompleteHead(st, ch, r)
               c == Head(st.wait[ch])
           IN  /\ Ready(u) /\ u.runq = Append(st.runq, c) /\ u.connecting = st.connecting
               /\ u.pc = st.pc
               /\ \A x \in Coro : u.res[x] = IF x = c THEN r ELSE st.res[x]
               /\ u.wait[ch] = Tail(st.wait[ch])
               /\ \A x \in Chan \ {ch} : u.wait[x] = st.wait[x]
<1> DEFINE c == Head(st.wait[ch])
           q == Tail(st.wait[ch])
           z == [st EXCEPT !.wait[ch] = q]
           u == Complete(z, c, r)
<1>1. st.wait[ch] \in Seq(Coro) /\ st.wait \in [Chan -> Seq(Coro)]
  BY DEF Ready
<1>2. c \in Coro /\ q \in Seq(Coro) /\ Len(q) = Len(st.wait[ch]) - 1
      /\ \A i \in 1..Len(q) : i + 1 \in 1..Len(st.wait[ch]) /\ q[i] = st.wait[ch][i + 1]
  BY <1>1
<1>3. CompleteHead(st, ch, r) = u
  BY DEF CompleteHead
<1> HIDE DEF c, q
<1>4. /\ z = [f \in DOMAIN z |-> z[f]] /\ DOMAIN z = DOMAIN st
      /\ z.runq = st.runq /\ z.connecting = st.connecting
      /\ z.pc = st.pc /\ z.res = st.res /\ z.wait = [st.wait EXCEPT ![ch] = q]
  BY DEF Ready
<1> HIDE DEF z
<1>5. /\ u = [f \in DOMAIN u |-> u[f]] /\ DOMAIN u = DOMAIN z
      /\ u.runq = Append(z.runq, c) /\ u.connecting = z.connecting
      /\ u.pc = z.pc /\ u.res = [z.res EXCEPT ![c] = r] /\ u.wait = z.wait
  BY <1>4 DEF Complete, Ready
<1> HIDE DEF u
<1>6. /\ st.pc \in [Coro -> Label] /\ st.res \in [Coro -> Result]
      /\ Append(st.runq, c) \in Seq(Coro)
  BY <1>2 DEF Ready
<1>7. ASSUME NEW x \in Chan, NEW i \in 1..Len(u.wait[x]), u.wait[x][i] \in Detectors
      PROVE  x = "detect"
  <2>1. CASE x = ch
    <3>1. u.wait[x] = q
      BY <1>1, <1>4, <1>5, <2>1
    <3> QED
      BY <1>2, <1>7, <2>1, <3>1 DEF Ready
  <2>2. CASE x # ch
    <3>1. u.wait[x] = st.wait[x]
      BY <1>1, <1>4, <1>5, <2>2
    <3> QED
      BY <1>7, <3>1 DEF Ready
  <2> QED
    BY <2>1, <2>2
<1>8. Ready(u)
  <2>1. u.wait \in [Chan -> Seq(Coro)]
    BY <1>1, <1>2, <1>4, <1>5
  <2>2. {"runq", "wait", "pc", "res", "sock", "connecting"} \subseteq DOMAIN u
    BY <1>4, <1>5 DEF Ready
  <2> QED
    BY <1>4, <1>5, <1>6, <1>7, <2>1, <2>2 DEF Ready
<1>9. /\ \A x \in Coro : u.res[x] = IF x = c THEN r ELSE st.res[x]
      /\ u.wait[ch] = q
      /\ \A x \in Chan \ {ch} : u.wait[x] = st.wait[x]
  BY <1>1, <1>4, <1>5, <1>6
<1> QED
  BY <1>3, <1>4, <1>5, <1>8, <1>9 DEF c, q

\* All operations on a channel end with an error.
LEMMA CancelReady ==
    ASSUME NEW st, Ready(st), NEW ch \in Chan
    PROVE  LET u == Cancel(st, ch)
           IN  /\ Ready(u) /\ u.runq = st.runq \o st.wait[ch]
               /\ u.connecting = st.connecting /\ u.pc = st.pc
               /\ \A c \in Coro : u.res[c] = IF c \in Members(st.wait[ch]) THEN "err"
                                            ELSE st.res[c]
               /\ \A x \in Chan : u.wait[x] = IF x = ch THEN <<>> ELSE st.wait[x]
<1> DEFINE u == Cancel(st, ch)
           w == [c \in Coro |-> IF c \in Members(st.wait[ch]) THEN "err" ELSE st.res[c]]
           q == st.runq \o st.wait[ch]
<1>1. /\ u = [f \in DOMAIN u |-> u[f]] /\ DOMAIN u = DOMAIN st
      /\ u.runq = q /\ u.connecting = st.connecting /\ u.pc = st.pc /\ u.res = w
      /\ u.wait = [st.wait EXCEPT ![ch] = <<>>]
  BY DEF Cancel, Ready
<1>2. st.wait \in [Chan -> Seq(Coro)] /\ st.runq \in Seq(Coro) /\ st.pc \in [Coro -> Label]
  BY DEF Ready
<1>3. q \in Seq(Coro)
  <2>1. st.wait[ch] \in Seq(Coro)
    BY <1>2
  <2> QED
    BY <1>2, <2>1
<1>4. w \in [Coro -> Result]
  BY DEF Ready, Result
<1> HIDE DEF u, w, q
<1>5. \A x \in Chan : u.wait[x] = IF x = ch THEN <<>> ELSE st.wait[x]
  BY <1>1, <1>2
<1>6. ASSUME NEW x \in Chan, NEW i \in 1..Len(u.wait[x]), u.wait[x][i] \in Detectors
      PROVE  x = "detect"
  <2>1. x # ch
    BY <1>5, <1>6
  <2> QED
    BY <1>5, <1>6, <2>1 DEF Ready
<1>7. Ready(u)
  <2>1. u.wait \in [Chan -> Seq(Coro)]
    <3>1. <<>> \in Seq(Coro)
      OBVIOUS
    <3> QED
      BY <1>1, <1>2, <3>1
  <2>2. {"runq", "wait", "pc", "res", "sock", "connecting"} \subseteq DOMAIN u
    BY <1>1 DEF Ready
  <2> QED
    BY <1>1, <1>2, <1>3, <1>4, <1>6, <2>1, <2>2 DEF Ready
<1>8. \A c \in Coro : u.res[c] = IF c \in Members(st.wait[ch]) THEN "err" ELSE st.res[c]
  BY <1>1 DEF w
<1> QED
  BY <1>1, <1>5, <1>7, <1>8 DEF u, q

\* A coroutine returns.
LEMMA ReturnReady ==
    ASSUME NEW st, Ready(st), NEW c \in Coro
    PROVE  LET u == Return(st, c)
           IN  /\ Ready(u) /\ u.runq = st.runq /\ u.connecting = st.connecting
               /\ \A x \in Coro : u.pc[x] = IF x = c THEN "idle" ELSE st.pc[x]
               /\ \A x \in Coro : u.res[x] = IF x = c THEN "none" ELSE st.res[x]
               /\ u.wait = st.wait
<1> DEFINE u == Return(st, c)
<1>1. /\ u = [f \in DOMAIN u |-> u[f]] /\ DOMAIN u = DOMAIN st
      /\ u.runq = st.runq /\ u.connecting = st.connecting
      /\ u.pc = [st.pc EXCEPT ![c] = "idle"]
      /\ u.res = [st.res EXCEPT ![c] = "none"]
      /\ u.wait = st.wait
  BY DEF Return, Ready
<1>2. "idle" \in Label /\ "none" \in Result
  BY DEF Label, Result
<1> HIDE DEF u
<1>3. Ready(u)
  BY <1>1, <1>2 DEF Ready
<1>4. /\ \A x \in Coro : u.pc[x] = IF x = c THEN "idle" ELSE st.pc[x]
      /\ \A x \in Coro : u.res[x] = IF x = c THEN "none" ELSE st.res[x]
  BY <1>1 DEF Ready
<1> QED
  BY <1>1, <1>3, <1>4 DEF u

-----------------------------------------------------------------------------
(***************************************************************************)
(* What the executor does to the order of the coroutines.                  *)
(***************************************************************************)
\* Whatever else changes, order is about the parts of the executor and the flag.
LEMMA SameOrderly ==
    ASSUME NEW st, NEW u, NEW C, Orderly(st, C), Ready(u),
           u.runq = st.runq, u.wait = st.wait, u.pc = st.pc, u.res = st.res,
           u.connecting = st.connecting
    PROVE  Orderly(u, C)
<1>1. Queued(u, C)
  BY DEF Orderly, Queued
<1>2. \A c : Live(u, C, c) <=> Live(st, C, c)
  BY DEF Live
<1>3. \A c : (Arrived(u, c) <=> Arrived(st, c)) /\ (Trying(u, c) <=> Trying(st, c))
  BY DEF Arrived, Trying
<1>4. Guarded(u, C)
  BY <1>2, <1>3 DEF Orderly, Guarded
<1> QED
  BY <1>1, <1>4 DEF Orderly

\* A coroutine that is not in use can be taken up ...
LEMMA Enlisted ==
    ASSUME NEW st, NEW C, Orderly(st, C), NEW c \in Coro, st.pc[c] = "idle"
    PROVE  Orderly(st, C \cup {c})
<1>1. Queued(st, C \cup {c})
  BY DEF Orderly, Queued
<1>2. \A x : Live(st, C \cup {c}, x) => Live(st, C, x)
  BY DEF Live
<1>3. Guarded(st, C \cup {c})
  BY <1>2 DEF Orderly, Guarded
<1> QED
  BY <1>1, <1>3 DEF Orderly

\* ... and let go again.
LEMMA Discharged ==
    ASSUME NEW st, NEW C, Orderly(st, C), NEW c \in Coro, st.pc[c] = "idle"
    PROVE  Orderly(st, C \ {c})
<1>1. Queued(st, C \ {c})
  BY DEF Orderly, Queued
<1>2. \A x : Live(st, C \ {c}, x) => Live(st, C, x)
  BY DEF Live
<1>3. Guarded(st, C \ {c})
  BY <1>2 DEF Orderly, Guarded, Trying
<1> QED
  BY <1>1, <1>3 DEF Orderly

\* The first of the ready queue is running.
LEMMA PopOrderly ==
    ASSUME NEW st, Orderly(st, {}), st.runq # <<>>
    PROVE  Orderly(Pop(st), {Head(st.runq)})
<1> DEFINE u == Pop(st)
           h == Head(st.runq)
           n == Len(st.runq)
<1>1. Ready(st) /\ st.runq \in Seq(Coro)
  BY DEF Orderly, Ready
<1>2. /\ Ready(u) /\ u.runq = Tail(st.runq) /\ u.wait = st.wait /\ u.pc = st.pc
      /\ u.res = st.res /\ u.connecting = st.connecting
  BY <1>1, PopReady
<1> HIDE DEF u
<1>3. /\ h = st.runq[1] /\ n \in Nat /\ 1 \in 1..n /\ h \in Coro
      /\ Len(u.runq) = n - 1
      /\ \A i \in 1..Len(u.runq) : i + 1 \in 1..n /\ u.runq[i] = st.runq[i + 1]
  BY <1>1, <1>2
<1> HIDE DEF h, n
<1>4. \A i \in 1..Len(u.runq) : u.runq[i] # h
  <2> SUFFICES ASSUME NEW i \in 1..Len(u.runq), u.runq[i] = h PROVE FALSE
    OBVIOUS
  <2>1. i + 1 \in 1..n /\ st.runq[i + 1] = st.runq[1]
    BY <1>3
  <2>2. i + 1 = 1
    BY <1>3, <2>1 DEF Orderly, Queued, n
  <2> QED
    BY <1>3, <2>2
<1>5. \A c \in Coro \ {h} : \A j \in 1..n : st.runq[j] = c =>
          \E i \in 1..Len(u.runq) : u.runq[i] = c
  <2> SUFFICES ASSUME NEW c \in Coro \ {h}, NEW j \in 1..n, st.runq[j] = c
               PROVE  \E i \in 1..Len(u.runq) : u.runq[i] = c
    OBVIOUS
  <2>1. j # 1
    BY <1>3
  <2>2. j - 1 \in 1..Len(u.runq) /\ (j - 1) + 1 = j
    BY <1>3, <2>1
  <2> QED
    BY <1>3, <2>2
<1>6. st.pc[h] # "idle" /\ st.res[h] # "none"
  BY <1>3 DEF Orderly, Queued, n
<1>7. Queued(u, {h})
  <2>1. \A i, j \in 1..Len(u.runq) : u.runq[i] = u.runq[j] => i = j
    <3> SUFFICES ASSUME NEW i \in 1..Len(u.runq), NEW j \in 1..Len(u.runq), u.runq[i] = u.runq[j]
                 PROVE i = j
      OBVIOUS
    <3>1. i + 1 = j + 1
      BY <1>3 DEF Orderly, Queued, n
    <3> QED
      BY <1>3, <3>1
  <2>2. \A i \in 1..Len(u.runq) :
            LET c == u.runq[i] IN c \notin {h} /\ u.pc[c] # "idle" /\ u.res[c] # "none"
    BY <1>2, <1>3, <1>4 DEF Orderly, Queued, n
  <2>3. \A x, y \in Chan : \A i \in 1..Len(u.wait[x]), j \in 1..Len(u.wait[y]) :
            u.wait[x][i] = u.wait[y][j] => x = y /\ i = j
    BY <1>2 DEF Orderly, Queued
  <2>4. \A x \in Chan : \A i \in 1..Len(u.wait[x]) :
            LET c == u.wait[x][i] IN c \notin {h} /\ u.pc[c] # "idle" /\ u.res[c] = "none"
    BY <1>2, <1>6 DEF Orderly, Queued
  <2>5. \A c \in Coro \ {h} :
            /\ u.pc[c] # "idle" /\ u.res[c] # "none" =>
                   \E i \in 1..Len(u.runq) : u.runq[i] = c
            /\ u.pc[c] # "idle" /\ u.res[c] = "none" =>
                   \E x \in Chan : \E i \in 1..Len(u.wait[x]) : u.wait[x][i] = c
    BY <1>2, <1>5 DEF Orderly, Queued, n
  <2> QED
    BY <2>1, <2>2, <2>3, <2>4, <2>5 DEF Queued
<1>8. Guarded(u, {h})
  <2>1. \A c : Live(u, {h}, c) => Live(st, {}, c)
    BY <1>2 DEF Live
  <2>2. \A c : (Arrived(u, c) <=> Arrived(st, c)) /\ (Trying(u, c) <=> Trying(st, c))
    BY <1>2 DEF Arrived, Trying
  <2>3. \A i, j \in 1..Len(u.runq) :
            Live(u, {h}, u.runq[i]) /\ Arrived(u, u.runq[j]) => i < j
    <3> SUFFICES ASSUME NEW i \in 1..Len(u.runq), NEW j \in 1..Len(u.runq),
                        Live(u, {h}, u.runq[i]), Arrived(u, u.runq[j])
                 PROVE  i < j
      OBVIOUS
    <3>1. i + 1 \in 1..n /\ j + 1 \in 1..n
          /\ Live(st, {}, st.runq[i + 1]) /\ Arrived(st, st.runq[j + 1])
      BY <1>3, <2>1, <2>2
    <3>2. i + 1 < j + 1
      BY <3>1 DEF Orderly, Guarded, n
    <3> QED
      BY <1>3, <3>2
  <2>4. /\ \A c, e \in Coro : Live(u, {h}, c) /\ Live(u, {h}, e) => c = e
        /\ \A c \in Coro : u.connecting /\ Live(u, {h}, c) => u.res[c] # "none"
    BY <1>2, <2>1 DEF Orderly, Guarded
  <2>5. \A k \in Connectors \ {h} : Trying(u, k) => u.connecting
    BY <1>2, <2>2 DEF Orderly, Guarded
  <2>6. \A k \in Connectors \ {h} : u.pc[k] = "tuple" /\ u.res[k] = "none" =>
            \E i \in 1..Len(u.wait["processWr"]) : u.wait["processWr"][i] = k
    BY <1>2 DEF Orderly, Guarded
  <2> QED
    BY <2>3, <2>4, <2>5, <2>6 DEF Guarded
<1> QED
  BY <1>2, <1>7, <1>8 DEF Orderly, u, h

\* Who was running and is first: while a connection is announced to it, or
\* while it is what is left of one, nothing else is left.
LEMMA HeadAlone ==
    ASSUME NEW st, Orderly(st, {}), st.runq # <<>>,
           \/ Arrived(st, Head(st.runq))
           \/ Live(st, {}, Head(st.runq))
    PROVE  \A c \in Coro : ~Live(Pop(st), {Head(st.runq)}, c)
<1> DEFINE u == Pop(st)
           h == Head(st.runq)
<1>1. /\ Ready(st) /\ h \in Coro /\ 1 \in 1..Len(st.runq) /\ h = st.runq[1]
      /\ u.pc = st.pc /\ u.res = st.res
  <2>1. Ready(st) /\ st.runq \in Seq(Coro)
    BY DEF Orderly, Ready
  <2> QED
    BY <2>1, PopReady
<1> SUFFICES ASSUME NEW c \in Coro, Live(u, {h}, c) PROVE FALSE
  OBVIOUS
<1> HIDE DEF u, h
<1>2. Live(st, {}, c) /\ c # h
  BY <1>1 DEF Live
<1>3. CASE Live(st, {}, h)
  BY <1>1, <1>2, <1>3 DEF Orderly, Guarded
<1>4. CASE Arrived(st, h)
  <2>1. st.connecting
    BY <1>4 DEF Orderly, Guarded, Trying, Arrived
  <2>2. st.res[c] # "none" /\ st.pc[c] # "idle"
    BY <1>2, <2>1 DEF Orderly, Guarded, Live
  <2>3. PICK i \in 1..Len(st.runq) : st.runq[i] = c
    BY <2>2 DEF Orderly, Queued
  <2>4. i < 1
    BY <1>1, <1>2, <1>4, <2>3 DEF Orderly, Guarded
  <2> QED
    BY <2>4
<1> QED
  BY <1>3, <1>4 DEF h

\* A running coroutine suspends on a channel.
LEMMA AwaitOrderly ==
    ASSUME NEW st, NEW C, Orderly(st, C), NEW c \in C \cap Coro,
           NEW l \in Label \ {"idle"}, NEW ch \in Chan,
           c \in Detectors => ch = "detect" /\ ~st.connecting
                              /\ \A x \in Coro : ~Live(st, C, x),
           c \in Connectors /\ l = "tuple" => ch = "processWr" /\ ~st.connecting
                              /\ \A x \in Coro : ~Live(st, C, x),
           c \in Connectors /\ l \in {"connect", "retry"} => st.connecting
    PROVE  Orderly(Await(st, c, l, ch), C \ {c})
<1> DEFINE u == Await(st, c, l, ch)
           D == C \ {c}
           n == Len(st.wait[ch])
<1>1. /\ Ready(u) /\ u.runq = st.runq /\ u.connecting = st.connecting
      /\ \A x \in Coro : u.pc[x] = IF x = c THEN l ELSE st.pc[x]
      /\ \A x \in Coro : u.res[x] = IF x = c THEN "none" ELSE st.res[x]
      /\ u.wait[ch] = Append(st.wait[ch], c)
      /\ \A x \in Chan \ {ch} : u.wait[x] = st.wait[x]
  BY AwaitReady DEF Orderly
<1>2. /\ st.pc \in [Coro -> Label] /\ st.res \in [Coro -> Result]
      /\ st.wait \in [Chan -> Seq(Coro)] /\ st.runq \in Seq(Coro)
  BY DEF Orderly, Ready
<1> HIDE DEF u
<1>4. /\ n \in Nat
      /\ Len(u.wait[ch]) = n + 1
      /\ u.wait[ch][n + 1] = c
      /\ \A i \in 1..n : u.wait[ch][i] = st.wait[ch][i]
      /\ \A x \in Chan \ {ch} : u.wait[x] = st.wait[x]
  <2>1. st.wait[ch] \in Seq(Coro) /\ u.wait[ch] = Append(st.wait[ch], c)
    BY <1>1, <1>2
  <2> QED
    BY <1>1, <1>2, <2>1
<1>5. \A x \in Chan : \A i \in 1..Len(u.wait[x]) :
          \/ x = ch /\ i = n + 1 /\ u.wait[x][i] = c
          \/ i \in 1..Len(st.wait[x]) /\ u.wait[x][i] = st.wait[x][i]
  <2> SUFFICES ASSUME NEW x \in Chan, NEW i \in 1..Len(u.wait[x])
               PROVE  \/ x = ch /\ i = n + 1 /\ u.wait[x][i] = c
                      \/ i \in 1..Len(st.wait[x]) /\ u.wait[x][i] = st.wait[x][i]
    OBVIOUS
  <2>1. CASE x = ch
    <3>1. i \in 1..(n + 1)
      BY <1>4, <2>1
    <3>2. i = n + 1 \/ i \in 1..n
      BY <1>4, <3>1
    <3> QED
      BY <1>4, <2>1, <3>2 DEF n
  <2>2. CASE x # ch
    BY <1>4, <2>2
  <2> QED
    BY <2>1, <2>2
<1>6. \A x \in Chan : \A i \in 1..Len(st.wait[x]) :
          /\ st.wait[x][i] \in Coro
          /\ i \in 1..Len(u.wait[x]) /\ u.wait[x][i] = st.wait[x][i]
  <2> SUFFICES ASSUME NEW x \in Chan, NEW i \in 1..Len(st.wait[x])
               PROVE  /\ st.wait[x][i] \in Coro
                      /\ i \in 1..Len(u.wait[x]) /\ u.wait[x][i] = st.wait[x][i]
    OBVIOUS
  <2>1. st.wait[x] \in Seq(Coro)
    BY <1>2
  <2>2. CASE x = ch
    BY <1>4, <2>1, <2>2 DEF n
  <2>3. CASE x # ch
    BY <1>4, <2>1, <2>3
  <2> QED
    BY <2>2, <2>3
<1> HIDE DEF n
<1>7. /\ \A i \in 1..Len(st.runq) : st.runq[i] # c /\ st.runq[i] \in Coro
      /\ \A x \in Chan : \A i \in 1..Len(st.wait[x]) : st.wait[x][i] # c
  BY <1>2 DEF Orderly, Queued
<1>8. Queued(u, D)
  <2>1. \A i, j \in 1..Len(u.runq) : u.runq[i] = u.runq[j] => i = j
    BY <1>1 DEF Orderly, Queued
  <2>2. \A i \in 1..Len(u.runq) :
            LET x == u.runq[i] IN x \notin D /\ u.pc[x] # "idle" /\ u.res[x] # "none"
    BY <1>1, <1>7 DEF Orderly, Queued
  <2>3. \A x, y \in Chan : \A i \in 1..Len(u.wait[x]), j \in 1..Len(u.wait[y]) :
            u.wait[x][i] = u.wait[y][j] => x = y /\ i = j
    <3> SUFFICES ASSUME NEW x \in Chan, NEW y \in Chan,
                        NEW i \in 1..Len(u.wait[x]), NEW j \in 1..Len(u.wait[y]),
                        u.wait[x][i] = u.wait[y][j]
                 PROVE  x = y /\ i = j
      OBVIOUS
    <3>1. CASE x = ch /\ i = n + 1 /\ u.wait[x][i] = c
      <4>1. ~(j \in 1..Len(st.wait[y]) /\ u.wait[y][j] = st.wait[y][j])
        BY <1>7, <3>1
      <4> QED
        BY <1>5, <3>1, <4>1
    <3>2. CASE i \in 1..Len(st.wait[x]) /\ u.wait[x][i] = st.wait[x][i]
      <4>1. u.wait[y][j] # c
        BY <1>7, <3>2
      <4>2. j \in 1..Len(st.wait[y]) /\ u.wait[y][j] = st.wait[y][j]
        BY <1>5, <4>1
      <4>3. st.wait[x][i] = st.wait[y][j] /\ i \in 1..Len(st.wait[x])
        BY <3>2, <4>2
      <4>4. \A v, w \in Chan : \A a \in 1..Len(st.wait[v]), b \in 1..Len(st.wait[w]) :
                st.wait[v][a] = st.wait[w][b] => v = w /\ a = b
        BY DEF Orderly, Queued
      <4> QED
        BY <4>2, <4>3, <4>4
    <3> QED
      BY <1>5, <3>1, <3>2
  <2>4. \A x \in Chan : \A i \in 1..Len(u.wait[x]) :
            LET e == u.wait[x][i] IN e \notin D /\ u.pc[e] # "idle" /\ u.res[e] = "none"
    <3> SUFFICES ASSUME NEW x \in Chan, NEW i \in 1..Len(u.wait[x])
                 PROVE  LET e == u.wait[x][i]
                        IN  e \notin D /\ u.pc[e] # "idle" /\ u.res[e] = "none"
      OBVIOUS
    <3>1. CASE u.wait[x][i] = c
      BY <1>1, <3>1
    <3>2. CASE i \in 1..Len(st.wait[x]) /\ u.wait[x][i] = st.wait[x][i]
      BY <1>1, <1>6, <1>7, <3>2 DEF Orderly, Queued
    <3> QED
      BY <1>5, <3>1, <3>2
  <2>5. ASSUME NEW e \in Coro \ D
        PROVE  /\ u.pc[e] # "idle" /\ u.res[e] # "none" =>
                      \E i \in 1..Len(u.runq) : u.runq[i] = e
               /\ u.pc[e] # "idle" /\ u.res[e] = "none" =>
                      \E x \in Chan : \E i \in 1..Len(u.wait[x]) : u.wait[x][i] = e
    <3>1. CASE e = c
      <4>1. n + 1 \in 1..Len(u.wait[ch])
        BY <1>4
      <4> QED
        BY <1>1, <1>4, <3>1, <4>1
    <3>2. CASE e # c
      <4>1. e \in Coro \ C /\ u.pc[e] = st.pc[e] /\ u.res[e] = st.res[e]
        BY <1>1, <3>2
      <4>2. st.pc[e] # "idle" /\ st.res[e] # "none" =>
                \E i \in 1..Len(st.runq) : st.runq[i] = e
        BY <4>1 DEF Orderly, Queued
      <4>3. st.pc[e] # "idle" /\ st.res[e] = "none" =>
                \E x \in Chan : \E i \in 1..Len(st.wait[x]) : st.wait[x][i] = e
        BY <4>1 DEF Orderly, Queued
      <4>4. ASSUME NEW x \in Chan, NEW i \in 1..Len(st.wait[x]), st.wait[x][i] = e
            PROVE  i \in 1..Len(u.wait[x]) /\ u.wait[x][i] = e
        BY <1>6, <4>4
      <4> QED
        BY <1>1, <4>1, <4>2, <4>3, <4>4
    <3> QED
      BY <3>1, <3>2
  <2> QED
    BY <2>1, <2>2, <2>3, <2>4, <2>5 DEF Queued
<1>9. Guarded(u, D)
  <2>1. \A x \in Coro : Live(u, D, x) /\ x # c => Live(st, C, x)
    BY <1>1 DEF Live
  <2>2. Live(u, D, c) => ~st.connecting /\ \A x \in Coro : ~Live(st, C, x)
    BY <1>1 DEF Live
  <2>3. /\ \A x \in Coro : Arrived(u, x) => Arrived(st, x)
        /\ \A x \in Coro : Trying(u, x) => (Trying(st, x) /\ x # c) \/ (x = c /\ st.connecting)
    BY <1>1 DEF Arrived, Trying
  <2>4. \A x, e \in Coro : Live(u, D, x) /\ Live(u, D, e) => x = e
    BY <2>1, <2>2 DEF Orderly, Guarded
  <2>5. \A x \in Coro : u.connecting /\ Live(u, D, x) => u.res[x] # "none"
    BY <1>1, <2>1, <2>2 DEF Orderly, Guarded
  <2>6. \A i, j \in 1..Len(u.runq) :
            Live(u, D, u.runq[i]) /\ Arrived(u, u.runq[j]) => i < j
    BY <1>1, <1>7, <2>1, <2>3 DEF Orderly, Guarded
  <2>7. \A k \in Connectors \ D : Trying(u, k) => u.connecting
    BY <1>1, <2>3 DEF Orderly, Guarded, Coro
  <2>8. ASSUME NEW k \in Connectors \ D, u.pc[k] = "tuple", u.res[k] = "none"
        PROVE  \E i \in 1..Len(u.wait["processWr"]) : u.wait["processWr"][i] = k
    <3>0. k \in Coro /\ "processWr" \in Chan
      BY DEF Coro, Chan
    <3>1. CASE k = c
      <4>1. ch = "processWr" /\ n + 1 \in 1..Len(u.wait[ch])
        BY <1>1, <1>4, <2>8, <3>0, <3>1
      <4> QED
        BY <1>4, <3>1, <4>1
    <3>2. CASE k # c
      <4>1. PICK i \in 1..Len(st.wait["processWr"]) : st.wait["processWr"][i] = k
        BY <1>1, <2>8, <3>0, <3>2 DEF Orderly, Guarded
      <4> QED
        BY <1>6, <3>0, <4>1
    <3> QED
      BY <3>1, <3>2
  <2> QED
    BY <2>4, <2>5, <2>6, <2>7, <2>8 DEF Guarded
<1> QED
  BY <1>1, <1>8, <1>9 DEF Orderly, u, D

\* An operation of a running coroutine ends at once: the coroutine goes to the
\* end of the ready queue.
LEMMA CompleteOrderly ==
    ASSUME NEW st, NEW C, Orderly(st, C), NEW c \in C \cap Coro, c \notin Detectors,
           NEW l \in Label \ {"idle"}, NEW r \in Result \ {"none"},
           c \in Connectors => l = "tuple" /\ r = "err"
    PROVE  Orderly(Complete(At(st, c, l), c, r), C \ {c})
<1> DEFINE u == Complete(At(st, c, l), c, r)
           D == C \ {c}
           n == Len(st.runq)
<1>1. /\ Ready(u) /\ u.runq = Append(st.runq, c) /\ u.connecting = st.connecting
      /\ \A x \in Coro : u.pc[x] = IF x = c THEN l ELSE st.pc[x]
      /\ \A x \in Coro : u.res[x] = IF x = c THEN r ELSE st.res[x]
      /\ u.wait = st.wait
  <2>1. Ready(st) /\ c \in Coro /\ l \in Label /\ r \in Result
    BY DEF Orderly
  <2> QED
    BY <2>1, CompleteReady
<1>2. st.runq \in Seq(Coro) /\ st.wait \in [Chan -> Seq(Coro)]
  BY DEF Orderly, Ready
<1> HIDE DEF u
<1>3. /\ n \in Nat /\ Len(u.runq) = n + 1 /\ u.runq[n + 1] = c
      /\ \A i \in 1..n : u.runq[i] = st.runq[i] /\ st.runq[i] \in Coro
  BY <1>1, <1>2
<1>4. \A i \in 1..Len(u.runq) :
          \/ i = n + 1 /\ u.runq[i] = c
          \/ i \in 1..n /\ u.runq[i] = st.runq[i]
  BY <1>3
<1>5. \A x \in Chan : \A i \in 1..Len(st.wait[x]) : st.wait[x][i] \in Coro
  <2> SUFFICES ASSUME NEW x \in Chan PROVE \A i \in 1..Len(st.wait[x]) : st.wait[x][i] \in Coro
    OBVIOUS
  <2>1. st.wait[x] \in Seq(Coro)
    BY <1>2
  <2> QED
    BY <2>1
<1>6. /\ \A i \in 1..n : st.runq[i] # c
      /\ \A x \in Chan : \A i \in 1..Len(st.wait[x]) : st.wait[x][i] # c
  BY DEF Orderly, Queued, n
<1>7. Queued(u, D)
  <2>1. ASSUME NEW i \in 1..Len(u.runq), NEW j \in 1..Len(u.runq), u.runq[i] = u.runq[j]
        PROVE  i = j
    <3>1. CASE i \in 1..n /\ j \in 1..n
      BY <1>3, <2>1, <3>1 DEF Orderly, Queued, n
    <3>2. CASE ~(i \in 1..n /\ j \in 1..n)
      BY <1>3, <1>4, <1>6, <2>1, <3>2
    <3> QED
      BY <3>1, <3>2
  <2>2. ASSUME NEW i \in 1..Len(u.runq)
        PROVE  LET x == u.runq[i] IN x \notin D /\ u.pc[x] # "idle" /\ u.res[x] # "none"
    <3>1. CASE i = n + 1 /\ u.runq[i] = c
      BY <1>1, <3>1
    <3>2. CASE i \in 1..n /\ u.runq[i] = st.runq[i]
      BY <1>1, <1>3, <1>6, <3>2 DEF Orderly, Queued, n
    <3> QED
      BY <1>4, <3>1, <3>2
  <2>3. \A x, y \in Chan : \A i \in 1..Len(u.wait[x]), j \in 1..Len(u.wait[y]) :
            u.wait[x][i] = u.wait[y][j] => x = y /\ i = j
    BY <1>1 DEF Orderly, Queued
  <2>4. \A x \in Chan : \A i \in 1..Len(u.wait[x]) :
            LET e == u.wait[x][i] IN e \notin D /\ u.pc[e] # "idle" /\ u.res[e] = "none"
    BY <1>1, <1>5, <1>6 DEF Orderly, Queued
  <2>5. ASSUME NEW e \in Coro \ D
        PROVE  /\ u.pc[e] # "idle" /\ u.res[e] # "none" =>
                      \E i \in 1..Len(u.runq) : u.runq[i] = e
               /\ u.pc[e] # "idle" /\ u.res[e] = "none" =>
                      \E x \in Chan : \E i \in 1..Len(u.wait[x]) : u.wait[x][i] = e
    <3>1. CASE e = c
      <4>1. n + 1 \in 1..Len(u.runq)
        BY <1>3
      <4> QED
        BY <1>1, <1>3, <3>1, <4>1
    <3>2. CASE e # c
      <4>1. e \in Coro \ C /\ u.pc[e] = st.pc[e] /\ u.res[e] = st.res[e]
        BY <1>1, <3>2
      <4>2. st.pc[e] # "idle" /\ st.res[e] # "none" =>
                \E i \in 1..Len(st.runq) : st.runq[i] = e
        BY <4>1 DEF Orderly, Queued
      <4>3. st.pc[e] # "idle" /\ st.res[e] = "none" =>
                \E x \in Chan : \E i \in 1..Len(st.wait[x]) : st.wait[x][i] = e
        BY <4>1 DEF Orderly, Queued
      <4>4. \A i \in 1..n : i \in 1..Len(u.runq)
        BY <1>3
      <4> QED
        BY <1>1, <1>3, <4>1, <4>2, <4>3, <4>4 DEF n
    <3> QED
      BY <3>1, <3>2
  <2> QED
    BY <2>1, <2>2, <2>3, <2>4, <2>5 DEF Queued
<1>8. Guarded(u, D)
  <2>1. \A x \in Coro : Live(u, D, x) => Live(st, C, x) /\ x # c
    BY <1>1 DEF Live
  <2>2. /\ \A x \in Coro : Arrived(u, x) => Arrived(st, x) /\ x # c
        /\ \A x \in Coro : Trying(u, x) => Trying(st, x) /\ x # c
    BY <1>1 DEF Arrived, Trying
  <2>3. ASSUME NEW i \in 1..Len(u.runq), NEW j \in 1..Len(u.runq),
               Live(u, D, u.runq[i]), Arrived(u, u.runq[j])
        PROVE  i < j
    <3>1. c \in Coro
      OBVIOUS
    <3>2. i \in 1..n /\ j \in 1..n /\ Live(st, C, st.runq[i]) /\ Arrived(st, st.runq[j])
      BY <1>3, <1>4, <2>1, <2>2, <2>3, <3>1
    <3> QED
      BY <3>2 DEF Orderly, Guarded, n
  <2>4. /\ \A x, e \in Coro : Live(u, D, x) /\ Live(u, D, e) => x = e
        /\ \A x \in Coro : u.connecting /\ Live(u, D, x) => u.res[x] # "none"
    BY <1>1, <2>1 DEF Orderly, Guarded
  <2>5. \A k \in Connectors \ D : Trying(u, k) => u.connecting
    BY <1>1, <2>2 DEF Orderly, Guarded, Coro
  <2>6. ASSUME NEW k \in Connectors \ D, u.pc[k] = "tuple", u.res[k] = "none"
        PROVE  \E i \in 1..Len(u.wait["processWr"]) : u.wait["processWr"][i] = k
    <3>1. k \in Coro /\ k # c
      BY <1>1, <2>6 DEF Coro
    <3>2. st.pc[k] = "tuple" /\ st.res[k] = "none" /\ k \in Connectors \ C
      BY <1>1, <2>6, <3>1
    <3> QED
      BY <1>1, <3>2 DEF Orderly, Guarded
  <2> QED
    BY <2>3, <2>4, <2>5, <2>6 DEF Guarded
<1> QED
  BY <1>1, <1>7, <1>8 DEF Orderly, u, D

\* A running coroutine returns.
LEMMA ReturnOrderly ==
    ASSUME NEW st, NEW C, Orderly(st, C), NEW c \in C \cap Coro
    PROVE  Orderly(Return(st, c), C \ {c})
<1> DEFINE u == Return(st, c)
           D == C \ {c}
<1>1. /\ Ready(u) /\ u.runq = st.runq /\ u.connecting = st.connecting
      /\ \A x \in Coro : u.pc[x] = IF x = c THEN "idle" ELSE st.pc[x]
      /\ \A x \in Coro : u.res[x] = IF x = c THEN "none" ELSE st.res[x]
      /\ u.wait = st.wait
  BY ReturnReady DEF Orderly
<1>2. st.runq \in Seq(Coro) /\ st.wait \in [Chan -> Seq(Coro)]
  BY DEF Orderly, Ready
<1> HIDE DEF u
<1>3. \A i \in 1..Len(st.runq) : st.runq[i] \in Coro /\ st.runq[i] # c
  BY <1>2 DEF Orderly, Queued
<1>4. \A x \in Chan : \A i \in 1..Len(st.wait[x]) : st.wait[x][i] \in Coro /\ st.wait[x][i] # c
  <2> SUFFICES ASSUME NEW x \in Chan, NEW i \in 1..Len(st.wait[x])
               PROVE  st.wait[x][i] \in Coro /\ st.wait[x][i] # c
    OBVIOUS
  <2>1. st.wait[x] \in Seq(Coro)
    BY <1>2
  <2> QED
    BY <2>1 DEF Orderly, Queued
<1>5. Queued(u, D)
  <2>1. /\ \A i, j \in 1..Len(u.runq) : u.runq[i] = u.runq[j] => i = j
        /\ \A x, y \in Chan : \A i \in 1..Len(u.wait[x]), j \in 1..Len(u.wait[y]) :
               u.wait[x][i] = u.wait[y][j] => x = y /\ i = j
    BY <1>1 DEF Orderly, Queued
  <2>2. \A i \in 1..Len(u.runq) :
            LET x == u.runq[i] IN x \notin D /\ u.pc[x] # "idle" /\ u.res[x] # "none"
    BY <1>1, <1>3 DEF Orderly, Queued
  <2>3. \A x \in Chan : \A i \in 1..Len(u.wait[x]) :
            LET e == u.wait[x][i] IN e \notin D /\ u.pc[e] # "idle" /\ u.res[e] = "none"
    BY <1>1, <1>4 DEF Orderly, Queued
  <2>4. \A e \in Coro \ D :
            /\ u.pc[e] # "idle" /\ u.res[e] # "none" =>
                   \E i \in 1..Len(u.runq) : u.runq[i] = e
            /\ u.pc[e] # "idle" /\ u.res[e] = "none" =>
                   \E x \in Chan : \E i \in 1..Len(u.wait[x]) : u.wait[x][i] = e
    BY <1>1 DEF Orderly, Queued
  <2> QED
    BY <2>1, <2>2, <2>3, <2>4 DEF Queued
<1>6. Guarded(u, D)
  <2>0. "idle" # "tuple" /\ "idle" \notin {"connect", "retry"}
    OBVIOUS
  <2>1. \A x \in Coro : Live(u, D, x) => Live(st, C, x) /\ x # c
    BY <1>1, <2>0 DEF Live
  <2>2. \A x \in Coro : (Arrived(u, x) => Arrived(st, x)) /\ (Trying(u, x) => Trying(st, x) /\ x # c)
    BY <1>1, <2>0 DEF Arrived, Trying
  <2>3. \A i, j \in 1..Len(u.runq) :
            Live(u, D, u.runq[i]) /\ Arrived(u, u.runq[j]) => i < j
    BY <1>1, <1>3, <2>1, <2>2 DEF Orderly, Guarded
  <2>4. /\ \A x, e \in Coro : Live(u, D, x) /\ Live(u, D, e) => x = e
        /\ \A x \in Coro : u.connecting /\ Live(u, D, x) => u.res[x] # "none"
    BY <1>1, <2>1 DEF Orderly, Guarded
  <2>5. \A k \in Connectors \ D : Trying(u, k) => u.connecting
    BY <1>1, <2>2 DEF Orderly, Guarded, Coro
  <2>6. ASSUME NEW k \in Connectors \ D, u.pc[k] = "tuple", u.res[k] = "none"
        PROVE  \E i \in 1..Len(u.wait["processWr"]) : u.wait["processWr"][i] = k
    <3>1. k \in Coro /\ k # c
      BY <1>1, <2>6 DEF Coro
    <3>2. st.pc[k] = "tuple" /\ st.res[k] = "none" /\ k \in Connectors \ C
      BY <1>1, <2>6, <3>1
    <3> QED
      BY <1>1, <3>2 DEF Orderly, Guarded
  <2> QED
    BY <2>3, <2>4, <2>5, <2>6 DEF Guarded
<1> QED
  BY <1>1, <1>5, <1>6 DEF Orderly, u, D

\* The first operation on a channel ends: its coroutine goes to the end of the
\* ready queue.  What is left of a connection does so before any other one
\* arrives.
LEMMA CompleteHeadOrderly ==
    ASSUME NEW st, NEW C, Orderly(st, C), NEW ch \in Chan, st.wait[ch] # <<>>,
           NEW r \in Result \ {"none"}
    PROVE  Orderly(CompleteHead(st, ch, r), C)
<1> DEFINE u == CompleteHead(st, ch, r)
           c == Head(st.wait[ch])
           n == Len(st.runq)
           m == Len(st.wait[ch])
<1>1. /\ Ready(u) /\ u.runq = Append(st.runq, c) /\ u.connecting = st.connecting
      /\ u.pc = st.pc
      /\ \A x \in Coro : u.res[x] = IF x = c THEN r ELSE st.res[x]
      /\ u.wait[ch] = Tail(st.wait[ch])
      /\ \A x \in Chan \ {ch} : u.wait[x] = st.wait[x]
  <2>1. Ready(st) /\ r \in Result
    BY DEF Orderly
  <2> QED
    BY <2>1, CompleteHeadReady
<1>2. st.runq \in Seq(Coro) /\ st.wait[ch] \in Seq(Coro) /\ st.wait \in [Chan -> Seq(Coro)]
  BY DEF Orderly, Ready
<1> HIDE DEF u
<1>3. /\ c \in Coro /\ m \in Nat /\ 1 \in 1..m /\ c = st.wait[ch][1]
      /\ Len(u.wait[ch]) = m - 1
      /\ \A i \in 1..Len(u.wait[ch]) : i + 1 \in 1..m /\ u.wait[ch][i] = st.wait[ch][i + 1]
  BY <1>1, <1>2
<1> HIDE DEF c
<1>4. /\ n \in Nat /\ Len(u.runq) = n + 1 /\ u.runq[n + 1] = c
      /\ \A i \in 1..n : u.runq[i] = st.runq[i] /\ st.runq[i] \in Coro
  BY <1>1, <1>2, <1>3
<1>5. \A i \in 1..Len(u.runq) :
          \/ i = n + 1 /\ u.runq[i] = c
          \/ i \in 1..n /\ u.runq[i] = st.runq[i]
  BY <1>4
<1>6. c \notin C /\ st.pc[c] # "idle" /\ st.res[c] = "none"
  BY <1>3 DEF Orderly, Queued, m
<1>7. \A i \in 1..n : st.runq[i] # c
  BY <1>6 DEF Orderly, Queued, n
<1>8. ASSUME NEW x \in Chan, NEW i \in 1..Len(u.wait[x])
      PROVE  \E a \in 1..Len(st.wait[x]) :
                 /\ st.wait[x][a] = u.wait[x][i] /\ u.wait[x][i] # c /\ u.wait[x][i] \in Coro
                 /\ a = IF x = ch THEN i + 1 ELSE i
  <2>1. st.wait[x] \in Seq(Coro)
    BY <1>2
  <2>2. CASE x = ch
    <3>1. i + 1 \in 1..Len(st.wait[x]) /\ u.wait[x][i] = st.wait[x][i + 1]
      BY <1>3, <2>2 DEF m
    <3>2. i + 1 # 1
      BY <1>3, <2>2
    <3>3. st.wait[x][i + 1] # st.wait[x][1]
      BY <1>3, <2>2, <3>1, <3>2 DEF Orderly, Queued, m
    <3>4. st.wait[x][i + 1] \in Coro
      BY <2>1, <3>1
    <3> QED
      BY <1>3, <2>2, <3>1, <3>3, <3>4
  <2>3. CASE x # ch
    <3>1. i \in 1..Len(st.wait[x]) /\ u.wait[x][i] = st.wait[x][i]
      BY <1>1, <2>3
    <3>2. st.wait[x][i] # st.wait[ch][1]
      BY <1>3, <2>3, <3>1 DEF Orderly, Queued, m
    <3>3. st.wait[x][i] \in Coro
      BY <2>1, <3>1
    <3> QED
      BY <1>3, <2>3, <3>1, <3>2, <3>3
  <2> QED
    BY <2>2, <2>3
<1>9. ASSUME NEW x \in Chan, NEW a \in 1..Len(st.wait[x]), st.wait[x][a] # c
      PROVE  \E i \in 1..Len(u.wait[x]) : u.wait[x][i] = st.wait[x][a]
  <2>1. CASE x = ch
    <3>1. a # 1 /\ a \in 1..m
      BY <1>3, <1>9, <2>1 DEF m
    <3>2. a - 1 \in 1..Len(u.wait[x]) /\ (a - 1) + 1 = a
      BY <1>3, <2>1, <3>1
    <3> QED
      BY <1>3, <2>1, <3>2
  <2>2. CASE x # ch
    BY <1>1, <2>2
  <2> QED
    BY <2>1, <2>2
<1> HIDE DEF m
<1>10. Queued(u, C)
  <2>1. ASSUME NEW i \in 1..Len(u.runq), NEW j \in 1..Len(u.runq), u.runq[i] = u.runq[j]
        PROVE  i = j
    <3>1. CASE i \in 1..n /\ j \in 1..n
      BY <1>4, <2>1, <3>1 DEF Orderly, Queued, n
    <3>2. CASE ~(i \in 1..n /\ j \in 1..n)
      BY <1>4, <1>5, <1>7, <2>1, <3>2
    <3> QED
      BY <3>1, <3>2
  <2>2. ASSUME NEW i \in 1..Len(u.runq)
        PROVE  LET x == u.runq[i] IN x \notin C /\ u.pc[x] # "idle" /\ u.res[x] # "none"
    <3>1. CASE i = n + 1 /\ u.runq[i] = c
      BY <1>1, <1>3, <1>6, <3>1
    <3>2. CASE i \in 1..n /\ u.runq[i] = st.runq[i]
      BY <1>1, <1>4, <1>7, <3>2 DEF Orderly, Queued, n
    <3> QED
      BY <1>5, <3>1, <3>2
  <2>3. ASSUME NEW x \in Chan, NEW y \in Chan,
               NEW i \in 1..Len(u.wait[x]), NEW j \in 1..Len(u.wait[y]),
               u.wait[x][i] = u.wait[y][j]
        PROVE  x = y /\ i = j
    <3>1. PICK a \in 1..Len(st.wait[x]) :
              st.wait[x][a] = u.wait[x][i] /\ a = IF x = ch THEN i + 1 ELSE i
      BY <1>8
    <3>2. PICK b \in 1..Len(st.wait[y]) :
              st.wait[y][b] = u.wait[y][j] /\ b = IF y = ch THEN j + 1 ELSE j
      BY <1>8
    <3>3. st.wait[x][a] = st.wait[y][b]
      BY <2>3, <3>1, <3>2
    <3>4. x = y /\ a = b
      BY <3>3 DEF Orderly, Queued
    <3>5. i \in Nat /\ j \in Nat
      OBVIOUS
    <3> QED
      BY <3>1, <3>2, <3>4, <3>5
  <2>4. ASSUME NEW x \in Chan, NEW i \in 1..Len(u.wait[x])
        PROVE  LET e == u.wait[x][i] IN e \notin C /\ u.pc[e] # "idle" /\ u.res[e] = "none"
    <3>1. PICK a \in 1..Len(st.wait[x]) :
              st.wait[x][a] = u.wait[x][i] /\ u.wait[x][i] # c /\ u.wait[x][i] \in Coro
      BY <1>8
    <3>2. LET e == st.wait[x][a] IN e \notin C /\ st.pc[e] # "idle" /\ st.res[e] = "none"
      BY DEF Orderly, Queued
    <3> QED
      BY <1>1, <3>1, <3>2
  <2>5. ASSUME NEW e \in Coro \ C
        PROVE  /\ u.pc[e] # "idle" /\ u.res[e] # "none" =>
                      \E i \in 1..Len(u.runq) : u.runq[i] = e
               /\ u.pc[e] # "idle" /\ u.res[e] = "none" =>
                      \E x \in Chan : \E i \in 1..Len(u.wait[x]) : u.wait[x][i] = e
    <3>1. CASE e = c
      <4>1. n + 1 \in 1..Len(u.runq)
        BY <1>4
      <4> QED
        BY <1>1, <1>4, <3>1, <4>1
    <3>2. CASE e # c
      <4>1. u.pc[e] = st.pc[e] /\ u.res[e] = st.res[e]
        BY <1>1, <3>2
      <4>2. st.pc[e] # "idle" /\ st.res[e] # "none" =>
                \E i \in 1..Len(st.runq) : st.runq[i] = e
        BY DEF Orderly, Queued
      <4>3. st.pc[e] # "idle" /\ st.res[e] = "none" =>
                \E x \in Chan : \E i \in 1..Len(st.wait[x]) : st.wait[x][i] = e
        BY DEF Orderly, Queued
      <4>4. \A i \in 1..n : i \in 1..Len(u.runq)
        BY <1>4
      <4>5. ASSUME NEW x \in Chan, NEW a \in 1..Len(st.wait[x]), st.wait[x][a] = e
            PROVE  \E i \in 1..Len(u.wait[x]) : u.wait[x][i] = e
        BY <1>9, <3>2, <4>5
      <4> QED
        BY <1>4, <4>1, <4>2, <4>3, <4>4, <4>5 DEF n
    <3> QED
      BY <3>1, <3>2
  <2> QED
    BY <2>1, <2>2, <2>3, <2>4, <2>5 DEF Queued
<1>11. Guarded(u, C)
  <2>1. \A x \in Coro : Live(u, C, x) => Live(st, C, x)
    BY <1>1, <1>6 DEF Live
  <2>2. /\ \A x \in Coro : Arrived(u, x) => Arrived(st, x) \/ x = c
        /\ \A x \in Coro : Trying(u, x) <=> Trying(st, x)
    BY <1>1 DEF Arrived, Trying
  <2>3. ASSUME NEW i \in 1..Len(u.runq), NEW j \in 1..Len(u.runq),
               Live(u, C, u.runq[i]), Arrived(u, u.runq[j])
        PROVE  i < j
    <3>1. u.runq[i] \in Coro /\ u.runq[j] \in Coro
      BY <1>3, <1>4, <1>5
    <3>2. st.connecting
      BY <1>10, <2>2, <2>3, <3>1 DEF Queued, Arrived, Trying, Orderly, Guarded
    <3>3. u.runq[i] # c
      BY <1>6, <2>1, <2>3, <3>1, <3>2 DEF Orderly, Guarded
    <3>4. i \in 1..n /\ u.runq[i] = st.runq[i] /\ Live(st, C, st.runq[i])
      BY <1>5, <2>1, <2>3, <3>1, <3>3
    <3>5. CASE j = n + 1
      BY <1>4, <3>4, <3>5
    <3>6. CASE j \in 1..n /\ u.runq[j] = st.runq[j]
      <4>1. u.runq[j] # c
        BY <1>7, <3>6
      <4>2. Arrived(st, st.runq[j])
        BY <2>2, <2>3, <3>1, <3>6, <4>1
      <4> QED
        BY <3>4, <3>6, <4>2 DEF Orderly, Guarded, n
    <3> QED
      BY <1>5, <3>5, <3>6
  <2>4. /\ \A x, e \in Coro : Live(u, C, x) /\ Live(u, C, e) => x = e
        /\ \A x \in Coro : u.connecting /\ Live(u, C, x) => u.res[x] # "none"
    BY <1>1, <2>1 DEF Orderly, Guarded
  <2>5. \A k \in Connectors \ C : Trying(u, k) => u.connecting
    BY <1>1, <2>2 DEF Orderly, Guarded, Coro
  <2>6. ASSUME NEW k \in Connectors \ C, u.pc[k] = "tuple", u.res[k] = "none"
        PROVE  \E i \in 1..Len(u.wait["processWr"]) : u.wait["processWr"][i] = k
    <3>1. k \in Coro /\ k # c /\ "processWr" \in Chan
      BY <1>1, <1>3, <2>6 DEF Coro, Chan
    <3>2. st.pc[k] = "tuple" /\ st.res[k] = "none"
      BY <1>1, <2>6, <3>1
    <3>3. PICK a \in 1..Len(st.wait["processWr"]) : st.wait["processWr"][a] = k
      BY <3>2 DEF Orderly, Guarded
    <3> QED
      BY <1>9, <3>1, <3>3
  <2> QED
    BY <2>3, <2>4, <2>5, <2>6 DEF Guarded
<1> QED
  BY <1>1, <1>10, <1>11 DEF Orderly, u

\* The places of two sequences in the one that joins them.
LEMMA Joined ==
    ASSUME NEW S, NEW p \in Seq(S), NEW q \in Seq(S)
    PROVE  LET n == Len(p)
               m == Len(q)
               j == p \o q
           IN  /\ n \in Nat /\ m \in Nat /\ Len(j) = n + m
               /\ \A i \in 1..n : i \in 1..Len(j) /\ j[i] = p[i] /\ p[i] \in S
               /\ \A i \in 1..m : n + i \in 1..Len(j) /\ j[n + i] = q[i] /\ q[i] \in S
               /\ \A i \in 1..Len(j) : \/ i \in 1..n /\ j[i] = p[i]
                                       \/ i > n /\ i - n \in 1..m /\ j[i] = q[i - n]
<1> DEFINE n == Len(p)
           m == Len(q)
           j == p \o q
<1>1. n \in Nat /\ m \in Nat /\ Len(j) = n + m
  OBVIOUS
<1>2. /\ \A i \in 1..n : j[i] = p[i] /\ p[i] \in S
      /\ \A i \in 1..m : q[i] \in S
      /\ \A i \in 1..(n + m) : j[i] = IF i <= n THEN p[i] ELSE q[i - n]
  OBVIOUS
<1> HIDE DEF n, m, j
<1>3. \A i \in 1..n : i \in 1..Len(j)
  BY <1>1
<1>4. ASSUME NEW i \in 1..m PROVE n + i \in 1..Len(j) /\ j[n + i] = q[i]
  <2>1. n + i \in 1..(n + m) /\ ~(n + i <= n) /\ (n + i) - n = i
    BY <1>1
  <2> QED
    BY <1>1, <1>2, <2>1
<1>5. ASSUME NEW i \in 1..Len(j)
      PROVE  \/ i \in 1..n /\ j[i] = p[i]
             \/ i > n /\ i - n \in 1..m /\ j[i] = q[i - n]
  <2>1. i \in 1..(n + m)
    BY <1>1
  <2>2. CASE i <= n
    BY <1>1, <1>2, <2>1, <2>2
  <2>3. CASE ~(i <= n)
    BY <1>1, <1>2, <2>1, <2>3
  <2> QED
    BY <2>2, <2>3
<1>6. /\ n \in Nat /\ m \in Nat /\ Len(j) = n + m
      /\ \A i \in 1..n : i \in 1..Len(j) /\ j[i] = p[i] /\ p[i] \in S
      /\ \A i \in 1..m : n + i \in 1..Len(j) /\ j[n + i] = q[i] /\ q[i] \in S
      /\ \A i \in 1..Len(j) : \/ i \in 1..n /\ j[i] = p[i]
                              \/ i > n /\ i - n \in 1..m /\ j[i] = q[i - n]
  <2>1. \A i \in 1..n : i \in 1..Len(j) /\ j[i] = p[i] /\ p[i] \in S
    BY <1>2, <1>3
  <2>2. \A i \in 1..m : n + i \in 1..Len(j) /\ j[n + i] = q[i] /\ q[i] \in S
    BY <1>2, <1>4
  <2> QED
    BY <1>1, <1>5, <2>1, <2>2
<1> QED
  BY <1>6, Zenon DEF n, m, j

\* Everything on a channel ends with an error, in order.
LEMMA CancelOrderly ==
    ASSUME NEW st, NEW C, Orderly(st, C), NEW ch \in Chan
    PROVE  Orderly(Cancel(st, ch), C)
<1> DEFINE u == Cancel(st, ch)
           w == st.wait[ch]
           n == Len(st.runq)
           m == Len(w)
<1>1. /\ Ready(u) /\ u.runq = st.runq \o w /\ u.connecting = st.connecting
      /\ u.pc = st.pc
      /\ \A c \in Coro : u.res[c] = IF c \in Members(w) THEN "err" ELSE st.res[c]
      /\ \A x \in Chan : u.wait[x] = IF x = ch THEN <<>> ELSE st.wait[x]
  BY CancelReady DEF Orderly
<1>2. st.runq \in Seq(Coro) /\ w \in Seq(Coro) /\ st.wait \in [Chan -> Seq(Coro)]
  BY DEF Orderly, Ready
<1> HIDE DEF u
<1>3. /\ n \in Nat /\ m \in Nat /\ Len(u.runq) = n + m
      /\ \A i \in 1..n : i \in 1..Len(u.runq) /\ u.runq[i] = st.runq[i] /\ st.runq[i] \in Coro
      /\ \A i \in 1..m : n + i \in 1..Len(u.runq) /\ u.runq[n + i] = w[i] /\ w[i] \in Coro
      /\ \A i \in 1..Len(u.runq) :
             \/ i \in 1..n /\ u.runq[i] = st.runq[i]
             \/ i > n /\ i - n \in 1..m /\ u.runq[i] = w[i - n]
  <2> HIDE DEF w
  <2>1. st.runq \in Seq(Coro) /\ w \in Seq(Coro) /\ u.runq = st.runq \o w
    BY <1>1, <1>2 DEF w
  <2>2. LET j == st.runq \o w
        IN  /\ n \in Nat /\ m \in Nat /\ Len(j) = n + m
            /\ \A i \in 1..n : i \in 1..Len(j) /\ j[i] = st.runq[i] /\ st.runq[i] \in Coro
            /\ \A i \in 1..m : n + i \in 1..Len(j) /\ j[n + i] = w[i] /\ w[i] \in Coro
            /\ \A i \in 1..Len(j) : \/ i \in 1..n /\ j[i] = st.runq[i]
                                    \/ i > n /\ i - n \in 1..m /\ j[i] = w[i - n]
    BY <2>1, Joined DEF n, m
  <2> QED
    BY <2>1, <2>2, Zenon
<1>4. \A i \in 1..Len(u.runq) :
          \/ i \in 1..n /\ u.runq[i] = st.runq[i]
          \/ i > n /\ i - n \in 1..m /\ u.runq[i] = w[i - n]
  BY <1>3
<1>5. \A x \in Chan : \A i \in 1..Len(u.wait[x]) :
          /\ x # ch /\ u.wait[x] = st.wait[x]
          /\ u.wait[x][i] \in Coro /\ u.wait[x][i] \notin Members(w)
  <2> SUFFICES ASSUME NEW x \in Chan, NEW i \in 1..Len(u.wait[x])
               PROVE  /\ x # ch /\ u.wait[x] = st.wait[x]
                      /\ u.wait[x][i] \in Coro /\ u.wait[x][i] \notin Members(w)
    OBVIOUS
  <2>1. x # ch /\ u.wait[x] = st.wait[x]
    BY <1>1
  <2>2. st.wait[x] \in Seq(Coro)
    BY <1>2
  <2>3. u.wait[x][i] \in Coro
    BY <2>1, <2>2
  <2>4. u.wait[x][i] \notin Members(w)
    BY <2>1 DEF Members, Orderly, Queued
  <2> QED
    BY <2>1, <2>3, <2>4
<1>6. \A c \in Coro : u.res[c] # "none" <=> (st.res[c] # "none" \/ c \in Members(w))
  BY <1>1
<1>7. \A i \in 1..m : /\ w[i] \notin C /\ st.pc[w[i]] # "idle" /\ st.res[w[i]] = "none"
                      /\ w[i] \in Members(w)
  BY DEF Orderly, Queued, m, Members
<1>8. \A i \in 1..n, j \in 1..m : st.runq[i] # w[j]
  BY <1>7 DEF Orderly, Queued, n
<1>9. \A i \in 1..n : st.runq[i] \notin Members(w)
  BY <1>8 DEF Members, m
<1>10. \A c \in Members(w) : \E i \in 1..m : w[i] = c
  BY DEF Members, m
<1>11. \A i, j \in 1..m : w[i] = w[j] => i = j
  BY DEF Orderly, Queued, m
<1>14. \A i \in 1..n : st.pc[st.runq[i]] # "idle" /\ st.res[st.runq[i]] # "none" /\ st.runq[i] \notin C
  BY DEF Orderly, Queued, n
<1>15. \A i, j \in 1..n : st.runq[i] = st.runq[j] => i = j
  BY DEF Orderly, Queued, n
<1> HIDE DEF w, n, m
<1>12. Queued(u, C)
  <2>1. ASSUME NEW i \in 1..Len(u.runq), NEW j \in 1..Len(u.runq), u.runq[i] = u.runq[j]
        PROVE  i = j
    <3>1. CASE i \in 1..n /\ u.runq[i] = st.runq[i]
      <4>1. j \in 1..n /\ u.runq[j] = st.runq[j]
        BY <1>4, <1>8, <2>1, <3>1
      <4> QED
        BY <1>15, <2>1, <3>1, <4>1
    <3>2. CASE i > n /\ i - n \in 1..m /\ u.runq[i] = w[i - n]
      <4>1. j > n /\ j - n \in 1..m /\ u.runq[j] = w[j - n]
        BY <1>4, <1>8, <2>1, <3>2
      <4>2. i - n = j - n
        BY <1>11, <2>1, <3>2, <4>1
      <4> QED
        BY <1>3, <4>2
    <3> QED
      BY <1>4, <3>1, <3>2
  <2>2. ASSUME NEW i \in 1..Len(u.runq)
        PROVE  LET x == u.runq[i] IN x \notin C /\ u.pc[x] # "idle" /\ u.res[x] # "none"
    <3>1. CASE i \in 1..n /\ u.runq[i] = st.runq[i]
      BY <1>1, <1>3, <1>6, <1>14, <3>1
    <3>2. CASE i > n /\ i - n \in 1..m /\ u.runq[i] = w[i - n]
      <4>1. PICK a \in 1..m : u.runq[i] = w[a]
        BY <3>2
      <4>2. w[a] \in Coro /\ w[a] \notin C /\ st.pc[w[a]] # "idle" /\ w[a] \in Members(w)
        BY <1>3, <1>7
      <4> QED
        BY <1>1, <1>6, <4>1, <4>2
    <3> QED
      BY <1>4, <3>1, <3>2
  <2>3. ASSUME NEW x \in Chan, NEW y \in Chan,
               NEW i \in 1..Len(u.wait[x]), NEW j \in 1..Len(u.wait[y]),
               u.wait[x][i] = u.wait[y][j]
        PROVE  x = y /\ i = j
    <3>1. u.wait[x] = st.wait[x] /\ u.wait[y] = st.wait[y]
      BY <1>5
    <3> QED
      BY <2>3, <3>1 DEF Orderly, Queued
  <2>4. ASSUME NEW x \in Chan, NEW i \in 1..Len(u.wait[x])
        PROVE  LET e == u.wait[x][i] IN e \notin C /\ u.pc[e] # "idle" /\ u.res[e] = "none"
    <3>1. /\ u.wait[x] = st.wait[x] /\ u.wait[x][i] \in Coro
          /\ u.wait[x][i] \notin Members(w)
      BY <1>5
    <3>2. LET e == st.wait[x][i] IN e \notin C /\ st.pc[e] # "idle" /\ st.res[e] = "none"
      BY <3>1 DEF Orderly, Queued
    <3> QED
      BY <1>1, <3>1, <3>2
  <2>5. ASSUME NEW e \in Coro \ C
        PROVE  /\ u.pc[e] # "idle" /\ u.res[e] # "none" =>
                      \E i \in 1..Len(u.runq) : u.runq[i] = e
               /\ u.pc[e] # "idle" /\ u.res[e] = "none" =>
                      \E x \in Chan : \E i \in 1..Len(u.wait[x]) : u.wait[x][i] = e
    <3>1. CASE e \in Members(w)
      <4>1. PICK i \in 1..m : w[i] = e
        BY <1>10, <3>1
      <4> QED
        BY <1>1, <1>3, <3>1, <4>1
    <3>2. CASE e \notin Members(w)
      <4>1. u.pc[e] = st.pc[e] /\ u.res[e] = st.res[e]
        BY <1>1, <3>2
      <4>2. st.pc[e] # "idle" /\ st.res[e] # "none" =>
                \E i \in 1..Len(st.runq) : st.runq[i] = e
        BY DEF Orderly, Queued
      <4>3. st.pc[e] # "idle" /\ st.res[e] = "none" =>
                \E x \in Chan : \E i \in 1..Len(st.wait[x]) : st.wait[x][i] = e
        BY DEF Orderly, Queued
      <4>4. ASSUME NEW x \in Chan, NEW i \in 1..Len(st.wait[x]), st.wait[x][i] = e
            PROVE  i \in 1..Len(u.wait[x]) /\ u.wait[x][i] = e
        <5>1. x # ch
          BY <3>2, <4>4 DEF Members, w
        <5> QED
          BY <1>1, <4>4, <5>1
      <4> QED
        BY <1>3, <4>1, <4>2, <4>3, <4>4 DEF n
    <3> QED
      BY <3>1, <3>2
  <2> QED
    BY <2>1, <2>2, <2>3, <2>4, <2>5 DEF Queued
<1>13. Guarded(u, C)
  <2>1. \A x \in Coro : Live(u, C, x) => Live(st, C, x)
    <3> SUFFICES ASSUME NEW x \in Coro, Live(u, C, x) PROVE Live(st, C, x)
      OBVIOUS
    <3>1. st.res[x] = "err" => u.res[x] = "err"
      BY <1>1
    <3> QED
      BY <1>1, <3>1 DEF Live
  <2>2. /\ \A x \in Coro : Arrived(u, x) => Arrived(st, x) /\ x \notin Members(w)
        /\ \A x \in Coro : Trying(u, x) <=> Trying(st, x)
    BY <1>1 DEF Arrived, Trying
  <2>3. ASSUME NEW i \in 1..Len(u.runq), NEW j \in 1..Len(u.runq),
               Live(u, C, u.runq[i]), Arrived(u, u.runq[j])
        PROVE  i < j
    <3>1. u.runq[i] \in Coro /\ u.runq[j] \in Coro
      BY <1>3, <1>4
    <3>2. st.connecting
      BY <1>12, <2>2, <2>3, <3>1 DEF Queued, Arrived, Trying, Orderly, Guarded
    <3>3. st.res[u.runq[i]] # "none"
      BY <2>1, <2>3, <3>1, <3>2 DEF Orderly, Guarded
    <3>4. i \in 1..n /\ u.runq[i] = st.runq[i]
      BY <1>4, <1>7, <3>3
    <3>5. j \in 1..n /\ u.runq[j] = st.runq[j]
      BY <1>4, <1>7, <2>2, <2>3, <3>1
    <3> QED
      BY <2>1, <2>2, <2>3, <3>1, <3>4, <3>5 DEF Orderly, Guarded, n
  <2>4. \A x, e \in Coro : Live(u, C, x) /\ Live(u, C, e) => x = e
    BY <2>1 DEF Orderly, Guarded
  <2>5. \A x \in Coro : u.connecting /\ Live(u, C, x) => u.res[x] # "none"
    BY <1>1, <1>6, <2>1 DEF Orderly, Guarded
  <2>6. \A k \in Connectors \ C : Trying(u, k) => u.connecting
    BY <1>1, <2>2 DEF Orderly, Guarded, Coro
  <2>7. ASSUME NEW k \in Connectors \ C, u.pc[k] = "tuple", u.res[k] = "none"
        PROVE  \E i \in 1..Len(u.wait["processWr"]) : u.wait["processWr"][i] = k
    <3>1. k \in Coro /\ "processWr" \in Chan
      BY DEF Coro, Chan
    <3>2. st.pc[k] = "tuple" /\ st.res[k] = "none" /\ k \notin Members(w)
      BY <1>1, <1>6, <2>7, <3>1
    <3>3. PICK a \in 1..Len(st.wait["processWr"]) : st.wait["processWr"][a] = k
      BY <3>2 DEF Orderly, Guarded
    <3>4. ch # "processWr"
      BY <3>2, <3>3 DEF Members, w
    <3> QED
      BY <1>1, <3>1, <3>3, <3>4
  <2> QED
    BY <2>3, <2>4, <2>5, <2>6, <2>7 DEF Guarded
<1> QED
  BY <1>1, <1>12, <1>13 DEF Orderly, u

\* A change that the executor does not see.
Aside(st, u) ==
    /\ u = [f \in DOMAIN u |-> u[f]]
    /\ DOMAIN u = DOMAIN st
    /\ u.runq = st.runq /\ u.wait = st.wait /\ u.pc = st.pc /\ u.res = st.res
    /\ u.connecting = st.connecting

LEMMA AsideOrderly ==
    ASSUME NEW st, NEW C, Orderly(st, C), NEW u, Aside(st, u)
    PROVE  Orderly(u, C)
<1>1. Ready(u)
  BY DEF Orderly, Ready, Aside
<1> QED
  BY <1>1, SameOrderly DEF Aside

\* A socket is closed.
LEMMA CloseSockOrderly ==
    ASSUME NEW st, NEW C, Orderly(st, C), NEW k \in Sock
    PROVE  LET u == CloseSock(st, k)
           IN  /\ Orderly(u, C) /\ u.connecting = st.connecting /\ u.pc = st.pc
               /\ u.wait[Wr[k]] = <<>>
<1> DEFINE a == Cancel(st, Rd[k])
           b == Cancel(a, Wr[k])
           u == CloseSock(st, k)
<1>1. Rd[k] \in Chan /\ Wr[k] \in Chan
  BY SockChannels
<1>2. Orderly(a, C) /\ a.connecting = st.connecting /\ a.pc = st.pc
  <2>1. Orderly(a, C)
    BY <1>1, CancelOrderly
  <2>2. a.connecting = st.connecting /\ a.pc = st.pc
    BY <1>1, CancelReady DEF Orderly
  <2> QED
    BY <2>1, <2>2
<1>3. u = [b EXCEPT !.sock[k] = "closed"]
  BY DEF CloseSock
<1> HIDE DEF a
<1>4. /\ Orderly(b, C) /\ b.connecting = a.connecting /\ b.pc = a.pc
      /\ b.wait[Wr[k]] = <<>>
  <2>1. Orderly(b, C)
    BY <1>1, <1>2, CancelOrderly
  <2>2. b.connecting = a.connecting /\ b.pc = a.pc /\ b.wait[Wr[k]] = <<>>
    BY <1>1, <1>2, CancelReady DEF Orderly
  <2> QED
    BY <2>1, <2>2
<1> HIDE DEF b, u
<1>5. Aside(b, u)
  BY <1>3, <1>4 DEF Orderly, Ready, Aside
<1>6. Orderly(u, C)
  BY <1>4, <1>5, AsideOrderly
<1> QED
  BY <1>2, <1>4, <1>5, <1>6 DEF u, Aside

-----------------------------------------------------------------------------
(***************************************************************************)
(* What the member functions of the session do to the order.               *)
(***************************************************************************)
\* Nothing is left in order.
LEMMA UndefinedOrderly ==
    ASSUME NEW st, NEW C, Orderly(st, C)
    PROVE  Orderly(Undefined(st), {})
<1> DEFINE u == Undefined(st)
<1>1. /\ u = [f \in DOMAIN u |-> u[f]] /\ DOMAIN u = DOMAIN st
      /\ u.runq = <<>> /\ u.wait = [ch \in Chan |-> <<>>]
      /\ u.pc = [c \in Coro |-> "idle"] /\ u.res = [c \in Coro |-> "none"]
      /\ u.connecting = st.connecting
  BY DEF Undefined, Orderly, Ready
<1> HIDE DEF u
<1>2. \A S : <<>> \in Seq(S)
  OBVIOUS
<1>3. "idle" \in Label /\ "none" \in Result /\ Connectors \subseteq Coro
  BY DEF Label, Result, Coro
<1>4. Len(<<>>) = 0 /\ 1..0 = {}
  OBVIOUS
<1>5. Ready(u)
  BY <1>1, <1>2, <1>3, <1>4 DEF Orderly, Ready
<1>6. Queued(u, {})
  BY <1>1, <1>4 DEF Queued
<1>7. \A c \in Coro : ~Live(u, {}, c) /\ ~Trying(u, c) /\ u.pc[c] # "tuple"
  BY <1>1 DEF Live, Trying
<1>8. Guarded(u, {})
  BY <1>1, <1>3, <1>4, <1>7 DEF Guarded
<1> QED
  BY <1>5, <1>6, <1>8 DEF Orderly, u

\* A coroutine that neither connects nor detects does something on a socket,
LEMMA AwaitIoOrderly ==
    ASSUME NEW st, NEW C, Orderly(st, C), NEW c \in C \cap Coro,
           c \notin Connectors, c \notin Detectors,
           NEW l \in Label \ {"idle"}, NEW k, NEW ch \in Chan
    PROVE  Orderly(AwaitIo(st, c, l, k, ch), C \ {c})
<1>1. Orderly(Await(st, c, l, ch), C \ {c})
  BY AwaitOrderly
<1>2. "err" \in Result \ {"none"}
  BY DEF Result
<1>3. Orderly(Complete(At(st, c, l), c, "err"), C \ {c})
  BY <1>2, CompleteOrderly
<1> QED
  BY <1>1, <1>3 DEF AwaitIo, At

\* or has nothing to do there.
LEMMA AwaitNothingOrderly ==
    ASSUME NEW st, NEW C, Orderly(st, C), NEW c \in C \cap Coro,
           c \notin Connectors, c \notin Detectors, NEW l \in Label \ {"idle"}
    PROVE  Orderly(AwaitNothing(st, c, l), C \ {c})
<1>1. "ok" \in Result \ {"none"}
  BY DEF Result
<1>2. Orderly(Complete(At(st, c, l), c, "ok"), C \ {c})
  BY <1>1, CompleteOrderly
<1> QED
  BY <1>2 DEF AwaitNothing, At

\* grace_close.
LEMMA GraceCloseOrderly ==
    ASSUME NEW st, NEW C, Orderly(st, C)
    PROVE  /\ Orderly(GraceClose(st), C)
           /\ GraceClose(st).pc = st.pc /\ GraceClose(st).connecting = st.connecting
<1>1. CASE st.closed
  BY <1>1 DEF GraceClose
<1>2. CASE ~st.closed
  <2> DEFINE z == [st EXCEPT !.closed = TRUE]
             s == Cancel(z, "detect")
             x == CloseSock(s, "client")
             y == CloseSock(x, "server")
             u == CloseSock(y, "process")
  <2>1. GraceClose(st) = u
    BY <1>2 DEF GraceClose
  <2>2. Aside(st, z)
    BY DEF Orderly, Ready, Aside
  <2> HIDE DEF z
  <2>3. Orderly(z, C)
    BY <2>2, AsideOrderly
  <2>4. "detect" \in Chan /\ "client" \in Sock /\ "server" \in Sock /\ "process" \in Sock
    BY DEF Chan, Sock
  <2>5. Orderly(s, C)
    BY <2>3, <2>4, CancelOrderly
  <2>6. s.pc = z.pc /\ s.connecting = z.connecting
    BY <2>3, <2>4, CancelReady DEF Orderly
  <2> HIDE DEF s
  <2>7. Orderly(x, C) /\ x.pc = s.pc /\ x.connecting = s.connecting
    BY <2>4, <2>5, CloseSockOrderly
  <2> HIDE DEF x
  <2>8. Orderly(y, C) /\ y.pc = x.pc /\ y.connecting = x.connecting
    BY <2>4, <2>7, CloseSockOrderly
  <2> HIDE DEF y
  <2>9. Orderly(u, C) /\ u.pc = y.pc /\ u.connecting = y.connecting
    BY <2>4, <2>8, CloseSockOrderly
  <2> HIDE DEF u
  <2> QED
    BY <2>1, <2>2, <2>6, <2>7, <2>8, <2>9 DEF Aside
<1> QED
  BY <1>1, <1>2

\* A coroutine closes the session and returns.
LEMMA GiveUpOrderly ==
    ASSUME NEW st, NEW C, Orderly(st, C), NEW c \in C \cap Coro
    PROVE  Orderly(GiveUp(st, c), C \ {c})
<1>1. Orderly(GraceClose(st), C)
  BY GraceCloseOrderly
<1> QED
  BY <1>1, ReturnOrderly DEF GiveUp

\* The loops of the two directions.
LEMMA NextRoundOrderly ==
    ASSUME NEW st, NEW C, Orderly(st, C), NEW d \in Dir, d \in C
    PROVE  Orderly(NextRound(st, d), C \ {d})
<1>1. /\ d \in C \cap Coro /\ d \notin Connectors /\ d \notin Detectors
      /\ Rd[From[d]] \in Chan /\ "processWr" \in Chan
      /\ {"dread", "pread", "notify"} \subseteq Label \ {"idle"}
  BY FramesAreDistinct, LoopChannels, SockChannels DEF Coro, Chan, Label
<1>2. Orderly(GiveUp(st, d), C \ {d})
  BY <1>1, GiveUpOrderly
<1>3. \A l \in {"dread", "pread", "notify"} : \A k : \A ch \in {Rd[From[d]], "processWr"} :
          Orderly(AwaitIo(st, d, l, k, ch), C \ {d})
  BY <1>1, AwaitIoOrderly
<1> QED
  BY <1>2, <1>3 DEF NextRound

\* The flag goes up when nothing waits for the process or on the timer: then
\* what is left of the last connection is in the ready queue.
LEMMA FlagRaised ==
    ASSUME NEW st, NEW C, Orderly(st, C), ~st.connecting,
           st.wait["processWr"] = <<>>, st.wait["detect"] = <<>>,
           NEW u, u = [f \in DOMAIN u |-> u[f]], DOMAIN u = DOMAIN st,
           u.runq = st.runq, u.wait = st.wait, u.pc = st.pc, u.res = st.res,
           u.connecting = TRUE
    PROVE  Orderly(u, C)
<1>1. Ready(u)
  BY DEF Orderly, Ready
<1>2. Queued(u, C)
  BY DEF Orderly, Queued
<1>3. \A c : Live(u, C, c) <=> Live(st, C, c)
  BY DEF Live
<1>4. Len(<<>>) = 0 /\ 1..0 = {}
  OBVIOUS
<1>5. ASSUME NEW c \in Coro, Live(st, C, c) PROVE st.res[c] # "none"
  <2> SUFFICES ASSUME st.res[c] = "none" PROVE FALSE
    OBVIOUS
  <2>1. CASE c \in Connectors
    <3>1. c \notin Detectors
      BY <2>1, FramesAreDistinct
    <3>2. \E i \in 1..Len(st.wait["processWr"]) : st.wait["processWr"][i] = c
      BY <1>5, <2>1, <3>1 DEF Live, Orderly, Guarded
    <3> QED
      BY <1>4, <3>2
  <2>2. CASE c \in Detectors
    <3>1. c \in Coro \ C /\ st.pc[c] # "idle"
      BY <1>5, <2>2, FramesAreDistinct DEF Live
    <3>2. PICK x \in Chan : \E i \in 1..Len(st.wait[x]) : st.wait[x][i] = c
      BY <3>1 DEF Orderly, Queued
    <3>3. x = "detect"
      BY <2>2, <3>2 DEF Orderly, Ready
    <3> QED
      BY <1>4, <3>2, <3>3
  <2> QED
    BY <1>5, <2>1, <2>2 DEF Live
<1>6. \A c \in Coro \ C : ~Arrived(st, c)
  BY DEF Orderly, Guarded, Arrived, Trying
<1>7. \A j \in 1..Len(st.runq) : st.runq[j] \in Coro \ C
  BY DEF Orderly, Ready, Queued
<1>8. \A i, j \in 1..Len(u.runq) :
          Live(u, C, u.runq[i]) /\ Arrived(u, u.runq[j]) => i < j
  BY <1>6, <1>7 DEF Arrived
<1>9. Guarded(u, C)
  BY <1>3, <1>5, <1>8 DEF Orderly, Guarded
<1> QED
  BY <1>1, <1>2, <1>9 DEF Orderly

\* The flag goes down when nothing is left and nobody else tries.
LEMMA FlagLowered ==
    ASSUME NEW st, NEW C, Orderly(st, C),
           \A x \in Coro : ~Live(st, C, x), \A k \in Connectors \ C : ~Trying(st, k),
           NEW u, u = [f \in DOMAIN u |-> u[f]], DOMAIN u = DOMAIN st,
           u.runq = st.runq, u.wait = st.wait, u.pc = st.pc, u.res = st.res
    PROVE  Orderly(u, C) /\ \A x \in Coro : ~Live(u, C, x)
<1>1. Ready(u)
  BY DEF Orderly, Ready
<1>2. Queued(u, C)
  BY DEF Orderly, Queued
<1>3. \A c : (Live(u, C, c) <=> Live(st, C, c)) /\ (Trying(u, c) <=> Trying(st, c))
  BY DEF Live, Trying
<1>4. \A j \in 1..Len(u.runq) : u.runq[j] \in Coro
  BY DEF Orderly, Ready
<1>5. Guarded(u, C)
  BY <1>3, <1>4 DEF Orderly, Guarded
<1> QED
  BY <1>1, <1>2, <1>3, <1>5 DEF Orderly

\* connect_process tries, unless the session was closed.
LEMMA TryConnectOrderly ==
    ASSUME NEW st, NEW C, Orderly(st, C), NEW k \in Connectors, k \in C,
           st.closed \/ st.connecting
    PROVE  Orderly(TryConnect(st, k), C \ {k})
<1>1. /\ k \in C \cap Coro /\ k \notin Detectors
      /\ "connect" \in Label \ {"idle"} /\ "processWr" \in Chan
  BY FramesAreDistinct DEF Coro, Label, Chan
<1>2. CASE st.closed
  BY <1>1, <1>2, ReturnOrderly DEF TryConnect
<1>3. CASE ~st.closed
  <2> DEFINE s == [st EXCEPT !.sock["process"] = "open"]
  <2>1. Aside(st, s)
    BY DEF Orderly, Ready, Aside
  <2>2. TryConnect(st, k) = Await(s, k, "connect", "processWr")
    BY <1>3 DEF TryConnect
  <2> HIDE DEF s
  <2>3. Orderly(s, C)
    BY <2>1, AsideOrderly
  <2>4. Orderly(Await(s, k, "connect", "processWr"), C \ {k})
    BY <1>1, <1>3, <2>1, <2>3, AwaitOrderly DEF Aside
  <2> QED
    BY <2>2, <2>4
<1> QED
  BY <1>2, <1>3

\* A second connect_process leaves everything as it is; a first one cancels
\* what is left of the last connection before it raises the flag.
LEMMA ConnectProcessOrderly ==
    ASSUME NEW st, NEW C, Orderly(st, C), NEW k \in Connectors, k \notin C,
           st.pc[k] = "idle"
    PROVE  Orderly(ConnectProcess(st, k), C)
<1>1. CASE st.connecting
  BY <1>1 DEF ConnectProcess
<1>2. CASE ~st.connecting
  <2> DEFINE D == C \cup {k}
             a == CloseSock(st, "process")
             b == Cancel(a, "detect")
             s == [a EXCEPT !.connecting = TRUE, !.handled = [d \in Dir |-> 0]]
             v == Cancel(s, "detect")
  <2>1. ConnectProcess(st, k) = TryConnect(v, k)
    BY <1>2 DEF ConnectProcess
  <2>2. /\ "detect" \in Chan /\ "processWr" \in Chan /\ "process" \in Sock
        /\ Wr["process"] = "processWr" /\ k \in Coro
    BY DEF Chan, Sock, Wr, Coro
  <2>3. Orderly(st, D)
    BY <2>2, Enlisted
  <2> HIDE DEF D
  <2>4. Orderly(a, D) /\ a.connecting = st.connecting /\ a.wait["processWr"] = <<>>
    BY <2>2, <2>3, CloseSockOrderly
  <2> HIDE DEF a
  <2>5. Orderly(b, D)
    BY <2>2, <2>4, CancelOrderly
  <2>6. /\ b.connecting = a.connecting
        /\ b.wait["detect"] = <<>> /\ b.wait["processWr"] = a.wait["processWr"]
    <3>1. Ready(a) /\ "detect" # "processWr"
      BY <2>4 DEF Orderly
    <3>2. \A x \in Chan : b.wait[x] = IF x = "detect" THEN <<>> ELSE a.wait[x]
      BY <2>2, <3>1, CancelReady
    <3>3. b.connecting = a.connecting
      BY <2>2, <3>1, CancelReady
    <3> QED
      BY <2>2, <3>1, <3>2, <3>3
  <2>7. /\ v = [f \in DOMAIN v |-> v[f]] /\ DOMAIN v = DOMAIN b
        /\ v.runq = b.runq /\ v.wait = b.wait /\ v.pc = b.pc /\ v.res = b.res
        /\ v.connecting = TRUE
    <3>1. /\ s = [f \in DOMAIN s |-> s[f]] /\ DOMAIN s = DOMAIN a
          /\ s.runq = a.runq /\ s.wait = a.wait /\ s.pc = a.pc /\ s.res = a.res
          /\ s.connecting = TRUE
      BY <2>4 DEF Orderly, Ready
    <3>2. a = [f \in DOMAIN a |-> a[f]]
          /\ {"runq", "wait", "pc", "res", "sock", "connecting"} \subseteq DOMAIN a
      BY <2>4 DEF Orderly, Ready
    <3> HIDE DEF s
    <3>3. /\ v = [f \in DOMAIN v |-> v[f]] /\ DOMAIN v = DOMAIN s
          /\ v.runq = s.runq \o s.wait["detect"]
          /\ v.wait = [s.wait EXCEPT !["detect"] = <<>>]
          /\ v.res = [c \in Coro |-> IF c \in Members(s.wait["detect"]) THEN "err" ELSE s.res[c]]
          /\ v.pc = s.pc /\ v.connecting = s.connecting
      BY <3>1, <3>2 DEF Cancel
    <3>4. /\ DOMAIN b = DOMAIN a
          /\ b.runq = a.runq \o a.wait["detect"]
          /\ b.wait = [a.wait EXCEPT !["detect"] = <<>>]
          /\ b.res = [c \in Coro |-> IF c \in Members(a.wait["detect"]) THEN "err" ELSE a.res[c]]
          /\ b.pc = a.pc
      BY <3>2 DEF Cancel
    <3> HIDE DEF v, b
    <3> QED
      BY <3>1, <3>3, <3>4
  <2> HIDE DEF b, v
  <2>8. Orderly(v, D)
    BY <1>2, <2>4, <2>5, <2>6, <2>7, FlagRaised
  <2>9. Orderly(TryConnect(v, k), D \ {k})
    <3>1. k \in D
      BY DEF D
    <3> QED
      BY <2>7, <2>8, <3>1, TryConnectOrderly
  <2>10. D \ {k} = C
    BY DEF D
  <2> QED
    BY <2>1, <2>9, <2>10
<1> QED
  BY <1>1, <1>2

\* The process has accepted the connection of the one connect_process that
\* tries, and nothing is left of an earlier one.
LEMMA ConnectedOrderly ==
    ASSUME NEW st, NEW C, Orderly(st, C), NEW k \in Connectors, k \in C,
           \A x \in Coro : ~Live(st, C, x), \A j \in Connectors \ C : ~Trying(st, j)
    PROVE  Orderly(Connected(st, k), C \ {k})
<1> DEFINE s == [st EXCEPT !.bypass = FALSE, !.connecting = FALSE]
<1>1. /\ k \in C \cap Coro /\ k \notin Detectors
      /\ "tuple" \in Label \ {"idle"} /\ "processWr" \in Chan /\ "err" \in Result \ {"none"}
  BY FramesAreDistinct DEF Coro, Label, Chan, Result
<1>2. /\ s = [f \in DOMAIN s |-> s[f]] /\ DOMAIN s = DOMAIN st
      /\ s.runq = st.runq /\ s.wait = st.wait /\ s.pc = st.pc /\ s.res = st.res
      /\ s.connecting = FALSE
  BY DEF Orderly, Ready
<1>3. Connected(st, k) = AwaitIo(s, k, "tuple", "process", "processWr")
  BY DEF Connected
<1> HIDE DEF s
<1>4. Orderly(s, C) /\ \A x \in Coro : ~Live(s, C, x)
  BY <1>2, FlagLowered
<1>5. Orderly(Await(s, k, "tuple", "processWr"), C \ {k})
  BY <1>1, <1>2, <1>4, AwaitOrderly
<1>6. Orderly(Complete(At(s, k, "tuple"), k, "err"), C \ {k})
  BY <1>1, <1>4, CompleteOrderly
<1> QED
  BY <1>3, <1>5, <1>6 DEF AwaitIo, At

\* The detector arms its timer.
LEMMA DetectOrderly ==
    ASSUME NEW st, NEW C, Orderly(st, C), NEW t \in Detectors, t \in C,
           \A x \in Coro : ~Live(st, C, x)
    PROVE  Orderly(Detect(st, t), C \ {t})
<1>1. /\ t \in C \cap Coro /\ t \notin Connectors
      /\ "wait" \in Label \ {"idle"} /\ "detect" \in Chan
  BY FramesAreDistinct DEF Coro, Label, Chan
<1>2. CASE st.closed \/ st.connecting
  BY <1>1, <1>2, ReturnOrderly DEF Detect
<1>3. CASE ~(st.closed \/ st.connecting)
  <2> DEFINE u == Cancel(st, "detect")
  <2>1. Detect(st, t) = Await(u, t, "wait", "detect")
    BY <1>3 DEF Detect
  <2>2. Orderly(u, C)
    BY <1>1, CancelOrderly
  <2>3. /\ u.connecting = st.connecting /\ u.pc = st.pc
        /\ \A c \in Coro : u.res[c] = IF c \in Members(st.wait["detect"]) THEN "err"
                                     ELSE st.res[c]
    BY <1>1, CancelReady DEF Orderly
  <2> HIDE DEF u
  <2>4. \A x \in Coro : ~Live(u, C, x)
    <3> SUFFICES ASSUME NEW x \in Coro, Live(u, C, x) PROVE Live(st, C, x)
      OBVIOUS
    <3>1. st.res[x] = "err" => u.res[x] = "err"
      BY <2>3
    <3> QED
      BY <2>3, <3>1 DEF Live
  <2>5. Orderly(Await(u, t, "wait", "detect"), C \ {t})
    BY <1>1, <1>3, <2>2, <2>3, <2>4, AwaitOrderly
  <2> QED
    BY <2>1, <2>5
<1> QED
  BY <1>2, <1>3

\* The four tuple is written: the coroutine that wrote it was all that was
\* left, so the detector it starts is alone.
LEMMA ServedOrderly ==
    ASSUME NEW st, NEW k \in Connectors, Orderly(st, {k}),
           \A x \in Coro : ~Live(st, {k}, x),
           NEW r \in Readers, st.pc[r] = "idle", NEW t \in Detectors, st.pc[t] = "idle"
    PROVE  Orderly(Served(st, k, r, t), {})
<1> DEFINE C == {k, r, t}
           u == ReadHead(st, r)
           v == Detect(u, t)
<1>1. /\ k \in Coro /\ r \in Coro /\ t \in Coro /\ r \notin Connectors /\ r \notin Detectors
      /\ k \notin {r, t} /\ r # t
      /\ "head" \in Label \ {"idle"} /\ "processRd" \in Chan
      /\ "err" \in Result
  BY FramesAreDistinct DEF Coro, Label, Chan, Result
<1>2. Orderly(st, C)
  <2>1. Orderly(st, {k} \cup {r})
    BY <1>1, Enlisted
  <2>2. Orderly(st, ({k} \cup {r}) \cup {t})
    BY <1>1, <2>1, Enlisted
  <2>3. ({k} \cup {r}) \cup {t} = C
    OBVIOUS
  <2> QED
    BY <2>2, <2>3
<1>3. Orderly(u, C \ {r})
  BY <1>1, <1>2, AwaitIoOrderly DEF ReadHead
<1>4. /\ \A x \in Coro \ {r} : u.pc[x] = st.pc[x] /\ u.res[x] = st.res[x]
  <2>1. Ready(st)
    BY DEF Orderly
  <2>2. LET w == Await(st, r, "head", "processRd")
        IN  \A x \in Coro \ {r} : w.pc[x] = st.pc[x] /\ w.res[x] = st.res[x]
    BY <1>1, <2>1, AwaitReady
  <2>3. LET w == Complete(At(st, r, "head"), r, "err")
        IN  \A x \in Coro \ {r} : w.pc[x] = st.pc[x] /\ w.res[x] = st.res[x]
    BY <1>1, <2>1, CompleteReady
  <2> QED
    BY <2>2, <2>3 DEF ReadHead, AwaitIo, At
<1> HIDE DEF u
<1>5. \A x \in Coro : ~Live(u, C \ {r}, x)
  <2> SUFFICES ASSUME NEW x \in Coro, Live(u, C \ {r}, x) PROVE Live(st, {k}, x)
    OBVIOUS
  <2>1. x # r /\ x # k
    BY <1>1 DEF Live
  <2> QED
    BY <1>4, <2>1 DEF Live
<1>6. Orderly(v, (C \ {r}) \ {t})
  BY <1>1, <1>3, <1>5, DetectOrderly
<1> HIDE DEF v
<1>7. (C \ {r}) \ {t} = {k} /\ {k} \ {k} = {}
  BY <1>1
<1>8. Orderly(Return(v, k), {k} \ {k})
  BY <1>1, <1>6, <1>7, ReturnOrderly
<1> QED
  BY <1>7, <1>8 DEF Served, u, v

\* What a loop or a reader does on the socket of a peer or of the process,
\* after a change that the executor does not see.
LEMMA ThenAwaitIo ==
    ASSUME NEW st, NEW C, Orderly(st, C), NEW s, Aside(st, s),
           NEW c \in Dir \cup Readers, c \in C, NEW l \in Label \ {"idle"},
           NEW k, NEW ch \in Chan
    PROVE  Orderly(AwaitIo(s, c, l, k, ch), C \ {c})
<1>1. c \in C \cap Coro /\ c \notin Connectors /\ c \notin Detectors
  BY FramesAreDistinct DEF Coro
<1>2. Orderly(s, C)
  BY AsideOrderly
<1> QED
  BY <1>1, <1>2, AwaitIoOrderly

\* Nothing changes.
LEMMA AsideSelf ==
    ASSUME NEW st, NEW C, Orderly(st, C)
    PROVE  Aside(st, st)
BY DEF Orderly, Ready, Aside

\* The channels and the points of the loops and the readers.
LEMMA Points ==
    /\ \A d \in Dir : Rd[From[d]] \in Chan /\ Wr[To[d]] \in Chan
    /\ {"processRd", "processWr", "detect", "retry"} \subseteq Chan
    /\ {"dread", "dwrite", "pread", "pwrite", "notify", "flush", "head", "body",
        "wnew", "wfwd", "flushReq", "flushRes"} \subseteq Label \ {"idle"}
BY LoopChannels, SockChannels DEF Chan, Label

LEMMA WriteDirectOrderly ==
    ASSUME NEW st, NEW C, Orderly(st, C), NEW d \in Dir, d \in C
    PROVE  Orderly(WriteDirect(st, d), C \ {d})
BY ThenAwaitIo, AsideSelf, Points DEF WriteDirect

LEMMA StoreAndSendOrderly ==
    ASSUME NEW st, NEW C, Orderly(st, C), NEW d \in Dir, d \in C
    PROVE  Orderly(StoreAndSend(st, d), C \ {d})
<1> DEFINE s == [st EXCEPT !.stored[d] = @ \o Packet(st.data[d])]
<1>1. Aside(st, s)
  BY DEF Orderly, Ready, Aside
<1>2. StoreAndSend(st, d) = AwaitIo(s, d, "pwrite", "process", "processWr")
  BY DEF StoreAndSend
<1> HIDE DEF s
<1> QED
  BY <1>1, <1>2, ThenAwaitIo, Points

\* All that is stored goes out.
LEMMA FlushOrderly ==
    ASSUME NEW st, NEW C, Orderly(st, C), NEW c \in Dir \cup Readers, c \in C,
           NEW d \in Dir, NEW l \in {"flush", "flushReq", "flushRes"}
    PROVE  Orderly(Flush(st, c, d, l), C \ {c})
<1> DEFINE s == [st EXCEPT !.data[c] = Bytes(st.stored[d])]
<1>1. Aside(st, s)
  BY DEF Orderly, Ready, Aside
<1>2. Flush(st, c, d, l) = AwaitIo(s, c, l, To[d], Wr[To[d]])
  BY DEF Flush
<1> HIDE DEF s
<1>3. Wr[To[d]] \in Chan /\ l \in Label \ {"idle"}
  BY Points
<1> QED
  BY <1>1, <1>2, <1>3, ThenAwaitIo

LEMMA BypassOrderly ==
    ASSUME NEW st, NEW C, Orderly(st, C)
    PROVE  Orderly(EnableBypass(st), C) /\ EnableBypass(st).pc = st.pc
<1> DEFINE s == EnableBypass(st)
<1>1. Aside(st, s)
  BY DEF EnableBypass, Orderly, Ready, Aside
<1> HIDE DEF s
<1> QED
  BY <1>1, AsideOrderly DEF s, Aside

LEMMA FlushedOrderly ==
    ASSUME NEW st, NEW C, Orderly(st, C), NEW d
    PROVE  Orderly(Flushed(st, d), C) /\ Flushed(st, d).pc = st.pc
<1> DEFINE s == Flushed(st, d)
<1>1. Aside(st, s)
  BY DEF Flushed, Orderly, Ready, Aside
<1> HIDE DEF s
<1> QED
  BY <1>1, AsideOrderly DEF s, Aside

LEMMA ReconnectOrderly ==
    ASSUME NEW st, NEW C, Orderly(st, C), NEW d \in Dir, d \in C,
           NEW k \in Connectors, k \notin C, st.pc[k] = "idle"
    PROVE  Orderly(Reconnect(st, d, k), C \ {d})
<1>1. Orderly(ConnectProcess(st, k), C)
  BY ConnectProcessOrderly
<1> QED
  BY <1>1, NextRoundOrderly DEF Reconnect

LEMMA SendFailedOrderly ==
    ASSUME NEW st, NEW C, Orderly(st, C), NEW d \in Dir, d \in C,
           NEW k \in Connectors, k \notin C, st.pc[k] = "idle"
    PROVE  Orderly(SendFailed(st, d, k), C \ {d})
<1> DEFINE s == EnableBypass(st)
<1>1. Orderly(s, C) /\ s.pc = st.pc
  BY BypassOrderly
<1>2. SendFailed(st, d, k) = IF s.stored[d] = <<>> THEN Reconnect(s, d, k)
                             ELSE Flush(s, d, d, "flush")
  BY DEF SendFailed
<1> HIDE DEF s
<1>3. Orderly(Reconnect(s, d, k), C \ {d})
  BY <1>1, ReconnectOrderly
<1>4. Orderly(Flush(s, d, d, "flush"), C \ {d})
  BY <1>1, FlushOrderly
<1> QED
  BY <1>2, <1>3, <1>4

LEMMA LoseReaderOrderly ==
    ASSUME NEW st, NEW C, Orderly(st, C), NEW r \in Readers, r \in C,
           NEW k \in Connectors, k \notin C, st.pc[k] = "idle"
    PROVE  Orderly(LoseReader(st, r, k), C \ {r})
<1>1. Orderly(ConnectProcess(st, k), C)
  BY ConnectProcessOrderly
<1>2. r \in C \cap Coro
  BY DEF Coro
<1> QED
  BY <1>1, <1>2, ReturnOrderly DEF LoseReader

LEMMA FlushResponsesOrderly ==
    ASSUME NEW st, NEW C, Orderly(st, C), NEW r \in Readers, r \in C,
           NEW k \in Connectors, k \notin C, st.pc[k] = "idle"
    PROVE  Orderly(FlushResponses(st, r, k), C \ {r})
<1> DEFINE s == EnableBypass(st)
<1>1. Orderly(s, C) /\ s.pc = st.pc
  BY BypassOrderly
<1>2. FlushResponses(st, r, k) = IF s.stored["res"] = <<>> THEN LoseReader(s, r, k)
                                 ELSE Flush(s, r, "res", "flushRes")
  BY DEF FlushResponses
<1> HIDE DEF s
<1>3. Orderly(LoseReader(s, r, k), C \ {r})
  BY <1>1, LoseReaderOrderly
<1>4. Orderly(Flush(s, r, "res", "flushRes"), C \ {r})
  BY <1>1, FlushOrderly DEF Dir
<1> QED
  BY <1>2, <1>3, <1>4

LEMMA ReadFailedOrderly ==
    ASSUME NEW st, NEW C, Orderly(st, C), NEW r \in Readers, r \in C,
           NEW k \in Connectors, k \notin C, st.pc[k] = "idle"
    PROVE  Orderly(ReadFailed(st, r, k), C \ {r})
<1> DEFINE s == EnableBypass(st)
<1>1. Orderly(s, C) /\ s.pc = st.pc
  BY BypassOrderly
<1>2. ReadFailed(st, r, k) = IF st.closed THEN Return(st, r)
                             ELSE IF s.stored["req"] = <<>>
                                  THEN FlushResponses(s, r, k)
                                  ELSE Flush(s, r, "req", "flushReq")
  BY DEF ReadFailed
<1> HIDE DEF s
<1>3. Orderly(FlushResponses(s, r, k), C \ {r})
  BY <1>1, FlushResponsesOrderly
<1>4. Orderly(Flush(s, r, "req", "flushReq"), C \ {r})
  BY <1>1, FlushOrderly DEF Dir
<1>5. r \in C \cap Coro
  BY DEF Coro
<1>6. Orderly(Return(st, r), C \ {r})
  BY <1>5, ReturnOrderly
<1> QED
  BY <1>2, <1>3, <1>4, <1>6

LEMMA ReadHeadOrderly ==
    ASSUME NEW st, NEW C, Orderly(st, C), NEW r \in Readers, r \in C
    PROVE  Orderly(ReadHead(st, r), C \ {r})
BY ThenAwaitIo, AsideSelf, Points DEF ReadHead

LEMMA WriteNewOrderly ==
    ASSUME NEW st, NEW C, Orderly(st, C), NEW r \in Readers, r \in C,
           st.msg[r].type \in Dir
    PROVE  Orderly(WriteNew(st, r), C \ {r})
<1> DEFINE d == st.msg[r].type
           s == [st EXCEPT !.data[r] = <<0>>]
<1>1. Aside(st, s)
  BY DEF Orderly, Ready, Aside
<1>2. WriteNew(st, r) = AwaitIo(s, r, "wnew", To[d], Wr[To[d]])
  BY DEF WriteNew
<1> HIDE DEF s
<1>3. Wr[To[d]] \in Chan /\ "wnew" \in Label \ {"idle"}
  BY Points
<1> HIDE DEF d
<1> QED
  BY <1>1, <1>2, <1>3, ThenAwaitIo

\* The handled data goes out, unless the answer makes no sense: then there is
\* no session any more.
LEMMA TransferOrderly ==
    ASSUME NEW st, NEW r \in Readers, Orderly(st, {r}), st.msg[r].type \in Dir
    PROVE  Orderly(Transfer(st, r), {})
<1> DEFINE d == st.msg[r].type
           q == st.stored[d]
           h == st.handled[d]
           t == st.msg[r].total
           n == Cardinality(Covered(q, h, t))
           m == Upto(q, Covered(q, h, t))
           used == IF m < Len(q) THEN t - (h + m) ELSE 0
           out == Bytes(SubSeq(q, 1, m + used))
           s == [st EXCEPT !.handled[d] = h + m,
                           !.cut[r] = [pkts |-> n, used |-> used],
                           !.data[r] = out]
<1>1. Transfer(st, r) = IF used < 0 THEN Undefined(st)
                        ELSE IF out = <<>> THEN AwaitNothing(s, r, "wfwd")
                        ELSE AwaitIo(s, r, "wfwd", To[d], Wr[To[d]])
  BY DEF Transfer
<1> HIDE DEF q, h, t, n, m, used, out
<1>2. Aside(st, s)
  BY DEF Orderly, Ready, Aside
<1> HIDE DEF s
<1>3. /\ Wr[To[d]] \in Chan /\ "wfwd" \in Label \ {"idle"}
      /\ r \in {r} \cap Coro /\ r \notin Connectors /\ r \notin Detectors
      /\ {r} \ {r} = {}
  BY Points, FramesAreDistinct DEF Coro
<1> HIDE DEF d
<1>4. Orderly(Undefined(st), {})
  BY UndefinedOrderly
<1>5. Orderly(s, {r})
  BY <1>2, AsideOrderly
<1>6. Orderly(AwaitNothing(s, r, "wfwd"), {r} \ {r})
  BY <1>3, <1>5, AwaitNothingOrderly
<1>7. Orderly(AwaitIo(s, r, "wfwd", To[d], Wr[To[d]]), {r} \ {r})
  BY <1>2, <1>3, ThenAwaitIo
<1> QED
  BY <1>1, <1>3, <1>4, <1>6, <1>7

LEMMA DecideOrderly ==
    ASSUME NEW st, NEW r \in Readers, Orderly(st, {r}), st.msg[r].type \in Dir
    PROVE  Orderly(Decide(st, r), {})
<1>1. r \in {r} \cap Coro /\ {r} \ {r} = {}
  BY DEF Coro
<1>2. Orderly(GiveUp(st, r), {r} \ {r})
  BY <1>1, GiveUpOrderly
<1> QED
  BY <1>1, <1>2, TransferOrderly DEF Decide

LEMMA ClearedOrderly ==
    ASSUME NEW st, NEW r \in Readers, Orderly(st, {r})
    PROVE  Orderly(Cleared(st, r), {})
<1> DEFINE d == st.msg[r].type
           q == st.stored[d]
           n == st.cut[r].pkts
           m == LengthOf(q, n)
           used == st.cut[r].used
           s == [st EXCEPT !.stored[d] = SubSeq(q, m + used + 1, Len(q))]
<1>1. Cleared(st, r) \in {Undefined(st), ReadHead(s, r)}
  BY DEF Cleared
<1> HIDE DEF d, q, n, m, used
<1>2. Aside(st, s)
  BY DEF Orderly, Ready, Aside
<1> HIDE DEF s
<1>3. Orderly(s, {r})
  BY <1>2, AsideOrderly
<1>4. r \in {r} /\ {r} \ {r} = {}
  OBVIOUS
<1>5. Orderly(ReadHead(s, r), {r} \ {r})
  BY <1>3, <1>4, ReadHeadOrderly
<1> QED
  BY <1>1, <1>4, <1>5, UndefinedOrderly

-----------------------------------------------------------------------------
(***************************************************************************)
(* The steps of the system.                                                *)
(***************************************************************************)
Order == Orderly(ses, {})

\* Only setup_proxy is in use, and it waits for the resolver.
LEMMA InitOrder == Init => Order
<1> SUFFICES ASSUME Init PROVE Orderly(ses, {})
  BY DEF Order
<1>1. Ready(ses)
  BY InitInv, FormedReady DEF Inv, Sane
<1>2. /\ ses.runq = <<>> /\ ~ses.connecting
      /\ \A ch \in Chan : ses.wait[ch] = IF ch = "resolve" THEN <<"setup">> ELSE <<>>
      /\ \A c \in Coro : ses.pc[c] = IF c = "setup" THEN "resolve" ELSE "idle"
      /\ \A c \in Coro : ses.res[c] = "none"
  BY DEF Init, NewSession
<1>3. /\ Len(<<>>) = 0 /\ 1..0 = {} /\ Len(<<"setup">>) = 1 /\ 1..1 = {1}
      /\ <<"setup">>[1] = "setup"
  OBVIOUS
<1>4. /\ "setup" \in Coro /\ "setup" \notin Connectors /\ "setup" \notin Detectors
      /\ "resolve" \in Chan /\ Connectors \subseteq Coro
  BY FramesAreDistinct DEF Coro, Chan
<1>5. \A ch \in Chan : \A i \in 1..Len(ses.wait[ch]) :
          ch = "resolve" /\ i = 1 /\ ses.wait[ch][i] = "setup"
  BY <1>2, <1>3
<1>6. 1 \in 1..Len(ses.wait["resolve"]) /\ ses.wait["resolve"][1] = "setup"
  BY <1>2, <1>3, <1>4
<1>7. Queued(ses, {})
  BY <1>2, <1>3, <1>4, <1>5, <1>6 DEF Queued
<1>8. \A c \in Coro : ~Live(ses, {}, c) /\ ~Trying(ses, c)
                      /\ (c \in Connectors => ses.pc[c] # "tuple")
  BY <1>2, <1>4 DEF Live, Trying
<1>9. Guarded(ses, {})
  BY <1>2, <1>3, <1>4, <1>8 DEF Guarded
<1> QED
  BY <1>1, <1>7, <1>9 DEF Orderly

\* What a handler finds: the coroutine that runs is the only one taken up, and
\* if a connection has arrived for it or it is itself what is left of one, then
\* nothing else is left.
LEMMA Taken ==
    ASSUME Inv, Order, NEW c, NEW ls, NEW r, Runs(c, ls, r), "idle" \notin ls
    PROVE  /\ Orderly(st0, {c}) /\ c \in {c} \cap Coro /\ {c} \ {c} = {}
           /\ st0.pc = ses.pc /\ st0.pc[c] \in ls /\ st0.res[c] = r
           /\ st0.msg = ses.msg /\ st0.connecting = ses.connecting
           /\ Arrived(ses, c) \/ Live(ses, {}, c) => \A x \in Coro : ~Live(st0, {c}, x)
           /\ c \in Connectors /\ Trying(ses, c) => st0.connecting
           /\ \A pool \in {Connectors, Readers, Detectors} : \A f \in Frame(ses, pool) :
                  f \in pool /\ f # c /\ st0.pc[f] = "idle"
<1>1. Orderly(ses, {}) /\ Ready(ses) /\ ses.runq # <<>> /\ c = Head(ses.runq)
  BY DEF Order, Orderly, Runs
<1>2. Orderly(st0, {c})
  BY <1>1, PopOrderly DEF st0
<1>3. c \in Coro
  BY <1>1 DEF Ready
<1>4. st0.pc = ses.pc /\ st0.res = ses.res /\ st0.connecting = ses.connecting
  BY <1>1, PopReady DEF st0
<1>5. st0.msg = ses.msg
  BY Running
<1>6. Arrived(ses, c) \/ Live(ses, {}, c) => \A x \in Coro : ~Live(st0, {c}, x)
  BY <1>1, HeadAlone DEF st0
<1>7. c \in Connectors /\ Trying(ses, c) => ses.connecting
  BY <1>1 DEF Orderly, Guarded
<1>8. ses.pc[c] \in ls /\ ses.res[c] = r
  BY DEF Runs
<1>9. \A pool : \A f \in Frame(ses, pool) : f \in pool /\ ses.pc[f] = "idle"
  BY DEF Frame
<1> QED
  BY <1>2, <1>3, <1>4, <1>5, <1>6, <1>7, <1>8, <1>9

\* setup_proxy ends by starting the loops and the first connect_process.
LEMMA SetupOrder ==
    ASSUME Inv, Order, Resolved \/ SetupFails \/ Dialed
    PROVE  Order'
<1>1. PICK ls, x : Runs("setup", ls, x) /\ "idle" \notin ls
  BY DEF Resolved, SetupFails, Dialed
<1>2. /\ Orderly(st0, {"setup"}) /\ "setup" \in {"setup"} \cap Coro
      /\ {"setup"} \ {"setup"} = {} /\ st0.pc = ses.pc /\ ses.pc["setup"] # "idle"
      /\ \A f \in Frame(ses, Connectors) :
             f \in Connectors /\ f # "setup" /\ st0.pc[f] = "idle"
  BY <1>1, Taken DEF Runs
<1>3. /\ "setup" \notin Connectors /\ "setup" \notin Detectors
      /\ "serverWr" \in Chan /\ "dial" \in Label \ {"idle"}
  BY FramesAreDistinct DEF Chan, Label
<1>4. ASSUME NEW st, Orderly(st, {}), Becomes(st) PROVE Order'
  BY <1>4 DEF Order, Becomes
<1>5. CASE Resolved
  <2> DEFINE s == [st0 EXCEPT !.sock["server"] = "open"]
  <2>1. Aside(st0, s)
    BY <1>2 DEF Orderly, Ready, Aside
  <2>2. Becomes(Await(s, "setup", "dial", "serverWr"))
    BY <1>5 DEF Resolved
  <2> HIDE DEF s
  <2>3. Orderly(s, {"setup"})
    BY <1>2, <2>1, AsideOrderly
  <2>4. Orderly(Await(s, "setup", "dial", "serverWr"), {"setup"} \ {"setup"})
    BY <1>2, <1>3, <2>3, AwaitOrderly
  <2> QED
    BY <1>2, <1>4, <2>2, <2>4
<1>6. CASE SetupFails
  <2>1. Becomes(GiveUp(st0, "setup"))
    BY <1>6 DEF SetupFails
  <2>2. Orderly(GiveUp(st0, "setup"), {"setup"} \ {"setup"})
    BY <1>2, GiveUpOrderly
  <2> QED
    BY <1>2, <1>4, <2>1, <2>2
<1>7. CASE Dialed
  <2>1. PICK k \in Frame(ses, Connectors) :
           Becomes(Return(NextRound(NextRound(ConnectProcess(st0, k), "req"), "res"),
                          "setup"))
    BY <1>7 DEF Dialed
  <2>2. k \in Connectors /\ k # "setup" /\ st0.pc[k] = "idle"
    BY <1>2
  <2>3. /\ "req" \in Dir /\ "res" \in Dir /\ "req" # "setup" /\ "res" # "setup"
        /\ "req" \in Coro /\ "res" \in Coro /\ k \notin {"setup", "req", "res"}
    BY <2>2, FramesAreDistinct DEF Dir, Coro
  <2>4. st0.pc["req"] = "idle" /\ st0.pc["res"] = "idle"
    BY <1>2, <2>3 DEF Inv, SetupAlone
  <2>5. Orderly(st0, {"setup", "req", "res"})
    <3>1. Orderly(st0, {"setup"} \cup {"req"})
      BY <1>2, <2>3, <2>4, Enlisted
    <3>2. Orderly(st0, ({"setup"} \cup {"req"}) \cup {"res"})
      BY <2>3, <2>4, <3>1, Enlisted
    <3>3. ({"setup"} \cup {"req"}) \cup {"res"} = {"setup", "req", "res"}
      OBVIOUS
    <3> QED
      BY <3>2, <3>3
  <2> DEFINE a == ConnectProcess(st0, k)
             b == NextRound(a, "req")
             c == NextRound(b, "res")
  <2>6. Orderly(a, {"setup", "req", "res"})
    BY <2>2, <2>3, <2>5, ConnectProcessOrderly
  <2> HIDE DEF a
  <2>7. Orderly(b, {"setup", "req", "res"} \ {"req"})
    BY <2>3, <2>6, NextRoundOrderly
  <2> HIDE DEF b
  <2>8. {"setup", "req", "res"} \ {"req"} = {"setup", "res"}
    BY <2>3
  <2>9. Orderly(c, {"setup", "res"} \ {"res"})
    BY <2>3, <2>7, <2>8, NextRoundOrderly
  <2> HIDE DEF c
  <2>10. {"setup", "res"} \ {"res"} = {"setup"}
    BY <2>3
  <2>11. Orderly(Return(c, "setup"), {"setup"} \ {"setup"})
    BY <1>2, <2>9, <2>10, ReturnOrderly
  <2> QED
    BY <1>2, <1>4, <2>1, <2>11 DEF a, b, c
<1> QED
  BY <1>5, <1>6, <1>7

\* The loops of the two directions.
LEMMA LoopOrder ==
    ASSUME Inv, Order, NEW d \in Dir,
           \/ ReadDirect(d) \/ ReadForProcess(d) \/ ReadEof(d) \/ Written(d)
           \/ LoopFails(d) \/ Notified(d) \/ ProcessWriteFails(d) \/ StoredWritten(d)
    PROVE  Order'
<1>1. PICK ls, x : Runs(d, ls, x) /\ "idle" \notin ls
  BY DEF ReadDirect, ReadForProcess, ReadEof, Written, LoopFails, Notified,
         ProcessWriteFails, StoredWritten
<1>2. /\ Orderly(st0, {d}) /\ d \in {d} \cap Coro /\ {d} \ {d} = {}
      /\ \A f \in Frame(ses, Connectors) :
             f \in Connectors /\ f \notin {d} /\ st0.pc[f] = "idle"
  BY <1>1, Taken
<1>3. ASSUME NEW st, Orderly(st, {d} \ {d}), Becomes(st) PROVE Order'
  BY <1>2, <1>3 DEF Order, Becomes
<1>4. CASE ReadDirect(d)
  BY <1>2, <1>3, <1>4, WriteDirectOrderly DEF ReadDirect
<1>5. CASE ReadForProcess(d)
  BY <1>2, <1>3, <1>5, StoreAndSendOrderly DEF ReadForProcess
<1>6. CASE ReadEof(d)
  <2> DEFINE s == [st0 EXCEPT !.eof = TRUE]
  <2>1. Aside(st0, s)
    BY <1>2 DEF Orderly, Ready, Aside
  <2>2. Becomes(NextRound(s, d))
    BY <1>6 DEF ReadEof
  <2> HIDE DEF s
  <2>3. Orderly(s, {d})
    BY <1>2, <2>1, AsideOrderly
  <2> QED
    BY <1>2, <1>3, <2>2, <2>3, NextRoundOrderly
<1>7. CASE Written(d)
  BY <1>2, <1>3, <1>7, NextRoundOrderly DEF Written
<1>8. CASE LoopFails(d)
  BY <1>2, <1>3, <1>8, GiveUpOrderly DEF LoopFails
<1>9. CASE Notified(d)
  <2>1. Orderly(AwaitIo(st0, d, "dread", From[d], Rd[From[d]]), {d} \ {d})
    BY <1>2, ThenAwaitIo, AsideSelf, Points
  <2> QED
    BY <1>3, <1>9, <2>1 DEF Notified
<1>10. CASE ProcessWriteFails(d)
  <2>1. PICK k \in Frame(ses, Connectors) : Becomes(SendFailed(st0, d, k))
    BY <1>10 DEF ProcessWriteFails
  <2> QED
    BY <1>2, <1>3, <2>1, SendFailedOrderly
<1>11. CASE StoredWritten(d)
  <2> DEFINE s == Flushed(st0, d)
  <2>1. PICK k \in Frame(ses, Connectors) : Becomes(Reconnect(s, d, k))
    BY <1>11 DEF StoredWritten
  <2>2. Orderly(s, {d}) /\ s.pc = st0.pc
    BY <1>2, FlushedOrderly
  <2> HIDE DEF s
  <2> QED
    BY <1>2, <1>3, <2>1, <2>2, ReconnectOrderly
<1> QED
  BY <1>4, <1>5, <1>6, <1>7, <1>8, <1>9, <1>10, <1>11

\* connect_process.
LEMMA ConnectOrder ==
    ASSUME Inv, Order, NEW k \in Connectors,
           \/ ProcessConnected(k) \/ ConnectFails(k) \/ ConnectAgain(k)
           \/ Introduced(k) \/ NotIntroduced(k)
    PROVE  Order'
<1>1. PICK ls, x : Runs(k, ls, x) /\ "idle" \notin ls
  BY DEF ProcessConnected, ConnectFails, ConnectAgain, Introduced, NotIntroduced
<1>2. /\ Orderly(st0, {k}) /\ k \in {k} \cap Coro /\ {k} \ {k} = {}
      /\ st0.pc = ses.pc
      /\ Arrived(ses, k) \/ Live(ses, {}, k) => \A c \in Coro : ~Live(st0, {k}, c)
      /\ Trying(ses, k) => st0.connecting
      /\ \A pool \in {Readers, Detectors} : \A f \in Frame(ses, pool) :
             f \in pool /\ st0.pc[f] = "idle"
  <2>1. \A pool \in {Connectors, Readers, Detectors} : \A f \in Frame(ses, pool) :
            f \in pool /\ f # k /\ st0.pc[f] = "idle"
    BY <1>1, Taken
  <2>2. /\ Orderly(st0, {k}) /\ k \in {k} \cap Coro /\ {k} \ {k} = {}
        /\ st0.pc = ses.pc
        /\ Arrived(ses, k) \/ Live(ses, {}, k) => \A c \in Coro : ~Live(st0, {k}, c)
        /\ Trying(ses, k) => st0.connecting
    BY <1>1, Taken
  <2> QED
    BY <2>1, <2>2
<1>3. ASSUME NEW st, Orderly(st, {k} \ {k}), Becomes(st) PROVE Order'
  BY <1>2, <1>3 DEF Order, Becomes
<1>4. /\ ProcessConnected(k) => ses.pc[k] = "connect" /\ ses.res[k] = "ok"
      /\ ConnectFails(k) => ses.pc[k] = "connect"
      /\ ConnectAgain(k) => ses.pc[k] = "retry"
      /\ Introduced(k) => ses.pc[k] = "tuple" /\ ses.res[k] = "ok"
  BY DEF ProcessConnected, ConnectFails, ConnectAgain, Introduced, Runs
<1>5. CASE ProcessConnected(k)
  <2>1. Arrived(ses, k) /\ Trying(ses, k)
    BY <1>4, <1>5 DEF Arrived, Trying
  <2>2. \A j \in Connectors \ {k} : ~Trying(st0, j)
    BY <1>2, <2>1 DEF Inv, Sane, OneTrying, Trying
  <2>3. Orderly(Connected(st0, k), {k} \ {k})
    BY <1>2, <2>1, <2>2, ConnectedOrderly
  <2> QED
    BY <1>3, <1>5, <2>3 DEF ProcessConnected
<1>6. CASE ConnectFails(k)
  <2>1. st0.connecting
    BY <1>2, <1>4, <1>6 DEF Trying
  <2>2. k \notin Detectors /\ "retry" \in Label \ {"idle"} /\ "retry" \in Chan
    BY FramesAreDistinct DEF Label, Chan
  <2>3. Orderly(Await(st0, k, "retry", "retry"), {k} \ {k})
    BY <1>2, <2>1, <2>2, AwaitOrderly
  <2> QED
    BY <1>3, <1>6, <2>3 DEF ConnectFails
<1>7. CASE ConnectAgain(k)
  <2>1. st0.connecting
    BY <1>2, <1>4, <1>7 DEF Trying
  <2> QED
    BY <1>2, <1>3, <1>7, <2>1, TryConnectOrderly DEF ConnectAgain
<1>8. CASE Introduced(k)
  <2>1. PICK r \in Frame(ses, Readers), t \in Frame(ses, Detectors) :
            Becomes(Served(st0, k, r, t))
    BY <1>8 DEF Introduced
  <2>2. Live(ses, {}, k)
    BY <1>4, <1>8 DEF Live
  <2>3. /\ r \in Readers /\ st0.pc[r] = "idle"
        /\ t \in Detectors /\ st0.pc[t] = "idle"
    BY <1>2
  <2>4. Orderly(Served(st0, k, r, t), {})
    BY <1>2, <2>2, <2>3, ServedOrderly
  <2> QED
    BY <1>2, <1>3, <2>1, <2>4
<1>9. CASE NotIntroduced(k)
  BY <1>2, <1>3, <1>9, ReturnOrderly DEF NotIntroduced
<1> QED
  BY <1>5, <1>6, <1>7, <1>8, <1>9

\* The reader of the answers.
LEMMA ReaderOrder ==
    ASSUME Inv, Order, NEW r \in Readers,
           \/ Heartbeat(r) \/ HeadRead(r) \/ BodyRead(r) \/ NewWritten(r)
           \/ HandledWritten(r) \/ ReaderFails(r) \/ ProcessReadFails(r)
           \/ RequestsFlushed(r) \/ ResponsesFlushed(r)
    PROVE  Order'
<1>1. PICK ls, x : /\ Runs(r, ls, x) /\ "idle" \notin ls
                   /\ BodyRead(r) \/ NewWritten(r) => ls \subseteq Headed
  BY DEF Heartbeat, HeadRead, BodyRead, NewWritten, HandledWritten, ReaderFails,
         ProcessReadFails, RequestsFlushed, ResponsesFlushed, Headed
<1>2. /\ Orderly(st0, {r}) /\ r \in {r} \cap Coro /\ {r} \ {r} = {}
      /\ st0.msg = ses.msg
      /\ \A f \in Frame(ses, Connectors) :
             f \in Connectors /\ f \notin {r} /\ st0.pc[f] = "idle"
  BY <1>1, Taken
<1>3. ASSUME NEW st, Orderly(st, {r} \ {r}), Becomes(st) PROVE Order'
  BY <1>2, <1>3 DEF Order, Becomes
<1>4. BodyRead(r) \/ NewWritten(r) => st0.msg[r].type \in Dir
  BY <1>1, <1>2 DEF Inv, Sane, Heads, Runs
<1>5. CASE Heartbeat(r)
  <2> DEFINE s == Cancel(st0, "detect")
  <2>1. Orderly(s, {r})
    BY <1>2, Points, CancelOrderly
  <2>2. Becomes(ReadHead(s, r))
    BY <1>5 DEF Heartbeat
  <2> HIDE DEF s
  <2> QED
    BY <1>2, <1>3, <2>1, <2>2, ReadHeadOrderly
<1>6. CASE HeadRead(r)
  <2>1. st0.msg[r].type \in Dir
    BY <1>2, <1>6 DEF HeadRead
  <2>2. Orderly(AwaitIo(st0, r, "body", "process", "processRd"), {r} \ {r})
    BY <1>2, ThenAwaitIo, AsideSelf, Points
  <2>3. Orderly(Decide(st0, r), {r} \ {r})
    BY <1>2, <2>1, DecideOrderly
  <2> QED
    BY <1>3, <1>6, <2>2, <2>3 DEF HeadRead
<1>7. CASE BodyRead(r)
  BY <1>2, <1>3, <1>4, <1>7, WriteNewOrderly DEF BodyRead
<1>8. CASE NewWritten(r)
  BY <1>2, <1>3, <1>4, <1>8, DecideOrderly DEF NewWritten
<1>9. CASE HandledWritten(r)
  BY <1>2, <1>3, <1>9, ClearedOrderly DEF HandledWritten
<1>10. CASE ReaderFails(r)
  BY <1>2, <1>3, <1>10, GiveUpOrderly DEF ReaderFails
<1>11. CASE ProcessReadFails(r)
  <2>1. PICK k \in Frame(ses, Connectors) : Becomes(ReadFailed(st0, r, k))
    BY <1>11 DEF ProcessReadFails
  <2> QED
    BY <1>2, <1>3, <2>1, ReadFailedOrderly
<1>12. \A s \in {Flushed(st0, "req"), Flushed(st0, "res"), GraceClose(st0)} :
           Orderly(s, {r}) /\ s.pc = st0.pc
  BY <1>2, FlushedOrderly, GraceCloseOrderly
<1>13. CASE RequestsFlushed(r)
  <2>1. PICK k \in Frame(ses, Connectors) :
            \E s \in {Flushed(st0, "req"), GraceClose(st0)} : Becomes(FlushResponses(s, r, k))
    BY <1>13 DEF RequestsFlushed
  <2> QED
    BY <1>2, <1>3, <1>12, <2>1, FlushResponsesOrderly
<1>14. CASE ResponsesFlushed(r)
  <2>1. PICK k \in Frame(ses, Connectors) :
            \E s \in {Flushed(st0, "res"), GraceClose(st0)} : Becomes(LoseReader(s, r, k))
    BY <1>14 DEF ResponsesFlushed
  <2> QED
    BY <1>2, <1>3, <1>12, <2>1, LoseReaderOrderly
<1> QED
  BY <1>5, <1>6, <1>7, <1>8, <1>9, <1>10, <1>11, <1>13, <1>14

\* The detector: it was all that was left when it came to run.
LEMMA DetectorOrder ==
    ASSUME Inv, Order, NEW t \in Detectors, Rearm(t) \/ TimedOut(t)
    PROVE  Order'
<1>1. PICK ls, x : Runs(t, ls, x) /\ "idle" \notin ls
  BY DEF Rearm, TimedOut
<1>2. /\ Orderly(st0, {t}) /\ t \in {t} \cap Coro /\ {t} \ {t} = {}
      /\ Live(ses, {}, t) => \A c \in Coro : ~Live(st0, {t}, c)
  BY <1>1, Taken
<1>3. ASSUME NEW st, Orderly(st, {t} \ {t}), Becomes(st) PROVE Order'
  BY <1>2, <1>3 DEF Order, Becomes
<1>4. Live(ses, {}, t)
  BY <1>1 DEF Live, Runs
<1>5. CASE Rearm(t)
  BY <1>2, <1>3, <1>4, <1>5, DetectOrderly DEF Rearm
<1>6. CASE TimedOut(t)
  <2> DEFINE s == CloseSock(st0, "process")
  <2>1. Orderly(s, {t})
    BY <1>2, CloseSockOrderly DEF Sock
  <2>2. Becomes(Return(s, t))
    BY <1>6 DEF TimedOut
  <2> HIDE DEF s
  <2> QED
    BY <1>2, <1>3, <2>1, <2>2, ReturnOrderly
<1> QED
  BY <1>5, <1>6

\* What happens outside: operations complete, in the order of their channel.
LEMMA OutsideOrder ==
    ASSUME Inv, Order, PeerStep \/ LocalStep \/ TimerStep \/ ProcessStep
    PROVE  Order'
<1>1. Orderly(ses, {})
  BY DEF Order
<1>2. ASSUME NEW s, Aside(ses, s), NEW ch \in Chan, ses.wait[ch] # <<>>,
             NEW r \in Result \ {"none"}, ses' = CompleteHead(s, ch, r)
      PROVE  Order'
  <2>1. Orderly(s, {}) /\ s.wait[ch] # <<>>
    BY <1>1, <1>2, AsideOrderly DEF Aside
  <2> QED
    BY <1>2, <2>1, CompleteHeadOrderly DEF Order
<1>3. Aside(ses, ses)
  BY <1>1, AsideSelf
<1>4. ASSUME UNCHANGED ses PROVE Order'
  BY <1>1, <1>4 DEF Order
<1>5. /\ {"ok", "err", "eof"} \subseteq Result \ {"none"}
      /\ {"resolve", "serverWr", "processWr", "processRd", "retry", "detect"} \subseteq Chan
      /\ \A d \in Dir : Rd[From[d]] \in Chan /\ Wr[To[d]] \in Chan
  BY Points DEF Result, Chan
<1>6. ASSUME NEW d \in Dir, PeerSends(d) \/ PeerWritten(d) PROVE Order'
  BY <1>2, <1>3, <1>4, <1>5, <1>6 DEF PeerSends, PeerWritten
<1>7. ASSUME NEW d \in Dir, PeerRead(d) PROVE Order'
  <2> DEFINE s == [ses EXCEPT !.data[d] = [i \in 1..(sent[d] - got[d]) |-> got[d] + i]]
  <2>1. Aside(ses, s)
    BY <1>1 DEF Orderly, Ready, Aside
  <2>2. /\ ses.wait[Rd[From[d]]] # <<>>
        /\ \E z \in {ses, s} : \E r \in {"ok", "eof", "err"} :
               ses' = CompleteHead(z, Rd[From[d]], r)
    BY <1>7 DEF PeerRead
  <2> HIDE DEF s
  <2> QED
    BY <1>2, <1>3, <1>5, <2>1, <2>2
<1>8. ASSUME NEW p \in Peers, PeerCloses(p) PROVE Order'
  BY <1>4, <1>8 DEF PeerCloses
<1>9. CASE ResolverDone
  BY <1>2, <1>3, <1>5, <1>9 DEF ResolverDone
<1>10. CASE DialDone \/ ProcessAccepts
  <2> DEFINE s == [ses EXCEPT !.sock["server"] = "conn"]
             p == [ses EXCEPT !.sock["process"] = "conn"]
  <2>1. Aside(ses, s) /\ Aside(ses, p)
    BY <1>1 DEF Orderly, Ready, Aside
  <2>2. PICK ch \in {"serverWr", "processWr"} :
            /\ ses.wait[ch] # <<>>
            /\ \E z \in {ses, s, p} : \E r \in {"ok", "err"} : ses' = CompleteHead(z, ch, r)
    BY <1>10 DEF DialDone, ProcessAccepts
  <2> HIDE DEF s, p
  <2> QED
    BY <1>2, <1>3, <1>5, <2>1, <2>2
<1>11. CASE ProcessWritten
  BY <1>2, <1>3, <1>5, <1>11 DEF ProcessWritten
<1>12. CASE ProcessRead
  <2> DEFINE q == Head(ses.wait["processRd"])
             m == Head(link.fromProc)
             s == [ses EXCEPT !.msg[q] = m]
  <2>1. Aside(ses, s)
    BY <1>1 DEF Orderly, Ready, Aside
  <2>2. /\ ses.wait["processRd"] # <<>>
        /\ \/ ses' = Undefined(ses)
           \/ \E z \in {ses, s}, r \in {"ok", "err"} : ses' = CompleteHead(z, "processRd", r)
    BY <1>12 DEF ProcessRead
  <2> HIDE DEF s
  <2>3. Orderly(Undefined(ses), {})
    BY <1>1, UndefinedOrderly
  <2> QED
    BY <1>2, <1>3, <1>5, <2>1, <2>2, <2>3 DEF Order
<1>13. CASE TimerStep
  BY <1>2, <1>3, <1>5, <1>13 DEF TimerStep, RetryTimer, DetectTimer, FalseTimeout
<1>14. CASE ProcessStep
  BY <1>4, <1>14 DEF ProcessStep, ProcessTakes, ProcessBeats, ProcessDies, ProcessHangs,
                     ProcessStarts, ProcessGoesOn
<1> QED
  BY <1>6, <1>7, <1>8, <1>9, <1>10, <1>11, <1>12, <1>13, <1>14 DEF PeerStep, LocalStep

LEMMA NextOrder ==
    ASSUME Inv, Order, [Next]_vars
    PROVE  Order'
<1>1. CASE Handler
  BY <1>1, SetupOrder, LoopOrder, ConnectOrder, ReaderOrder, DetectorOrder DEF Handler
<1>2. CASE UNCHANGED vars
  BY <1>2 DEF vars, Order
<1> QED
  BY <1>1, <1>2, OutsideOrder DEF Next, Terminated

\* Detectors would wake each other for ever if there were two, for the timer is
\* one: connect_process cancels the old one, and whatever becomes of that
\* connection meanwhile, it is gone before the next is served (session.hpp
\* 146-149, 199, 223).
THEOREM DetectorAlone == Spec => []OneDetector
<1>1. Order => OneDetector
  <2> SUFFICES ASSUME Order, NEW t \in Detectors, NEW u \in Detectors,
                      ses.pc[t] # "idle", ses.pc[u] # "idle"
               PROVE  t = u
    BY DEF OneDetector
  <2>1. Live(ses, {}, t) /\ Live(ses, {}, u) /\ t \in Coro /\ u \in Coro
    BY DEF Live, Coro
  <2> QED
    BY <2>1 DEF Order, Orderly, Guarded
<1>2. Init => Order
  BY InitOrder
<1>3. Inv /\ Order /\ [Next]_vars => Order'
  BY NextOrder
<1> QED
  BY <1>1, <1>2, <1>3, Invariance, PTL DEF Spec
=============================================================================
