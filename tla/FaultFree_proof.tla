---------------------------- MODULE FaultFree_proof ----------------------------
(***************************************************************************)
(* A session whose process neither crashes nor hangs nor is given up for   *)
(* one that does.  What module ProxySession claims for that case is proved *)
(* here for all other constants: whatever the peers send and close, and    *)
(* whatever the process answers.                                           *)
(***************************************************************************)
EXTENDS Detector_proof, WellFoundedInduction

\* Where a coroutine waits that is suspended at l.
Spot(l, c, msg) ==
    CASE l = "resolve" -> "resolve"
      [] l = "dial" -> "serverWr"
      [] l \in {"dread", "pread"} -> Rd[From[c]]
      [] l \in {"dwrite", "flush"} -> Wr[To[c]]
      [] l \in {"pwrite", "notify", "connect", "tuple"} -> "processWr"
      [] l \in {"head", "body"} -> "processRd"
      [] l \in {"wnew", "wfwd"} -> Wr[To[msg[c].type]]
      [] l = "flushReq" -> "serverWr"
      [] l = "flushRes" -> "clientWr"
      [] l = "retry" -> "retry"
      [] l = "wait" -> "detect"
      [] OTHER -> "none"

Waits(st, ch, c) == \E i \in 1..Len(st.wait[ch]) : st.wait[ch][i] = c

Placed(st) ==
    \A ch \in Chan, c \in Coro : Waits(st, ch, c) => Spot(st.pc[c], c, st.msg) = ch

Parts == {"closed", "eof", "bypass", "connecting", "broken", "sock", "wait", "runq",
          "pc", "res", "data", "stored", "handled", "msg", "cut"}

Whole(st) ==
    /\ Ready(st)
    /\ DOMAIN st = Parts
    /\ st.sock = [k \in Sock |-> st.sock[k]]
    /\ \A c \in Coro : Waits(st, "detect", c) => c \in Detectors

\* What the executor leaves alone.
Alike(st, u) ==
    /\ u.closed = st.closed /\ u.eof = st.eof /\ u.bypass = st.bypass
    /\ u.broken = st.broken /\ u.data = st.data /\ u.stored = st.stored
    /\ u.handled = st.handled /\ u.msg = st.msg /\ u.cut = st.cut

-----------------------------------------------------------------------------
(***************************************************************************)
(* What the executor does.                                                 *)
(***************************************************************************)
LEMMA SaneWhole == ASSUME NEW st, Sane(st) PROVE Whole(st)
<1>1. st \in SessionState /\ Ready(st)
  BY FormedReady DEF Sane, Formed
<1>2. DOMAIN st = Parts /\ st.sock \in [Sock -> SockState]
  BY <1>1 DEF SessionState, Parts
<1>3. ASSUME NEW c \in Coro, Waits(st, "detect", c) PROVE c \in Detectors
  <2>1. st.wait["detect"] \in Seq(Waiters["detect"]) /\ Waiters["detect"] = Detectors
    BY DEF Sane, Formed, Waited, Waiters, Chan
  <2> QED
    BY <1>3, <2>1 DEF Waits
<1> QED
  BY <1>1, <1>2, <1>3 DEF Whole

LEMMA SameWaits ==
    ASSUME NEW st, NEW u, u.wait = st.wait
    PROVE  \A x, c : Waits(u, x, c) <=> Waits(st, x, c)
BY DEF Waits

\* A session that differs in other parts only is as well formed.
LEMMA WholeAside ==
    ASSUME NEW st, Whole(st), NEW u, u = [f \in DOMAIN u |-> u[f]], DOMAIN u = DOMAIN st,
           u.runq = st.runq, u.wait = st.wait, u.pc = st.pc, u.res = st.res,
           u.sock = [k \in Sock |-> u.sock[k]]
    PROVE  Whole(u)
<1>1. \A c \in Coro : Waits(u, "detect", c) <=> Waits(st, "detect", c)
  BY DEF Waits
<1> QED
  BY <1>1 DEF Whole, Ready

\* Taking the first of the ready queue.
LEMMA PopDoes ==
    ASSUME NEW st, Whole(st), st.runq # <<>>
    PROVE  LET u == Pop(st)
           IN  /\ Whole(u) /\ Alike(st, u) /\ u.sock = st.sock /\ u.pc = st.pc /\ u.res = st.res
               /\ u.wait = st.wait
<1> DEFINE u == Pop(st)
<1>1. /\ Alike(st, u) /\ u.sock = st.sock /\ DOMAIN u = DOMAIN st
  BY DEF Pop, Whole, Ready, Parts, Alike
<1>2. Ready(u) /\ u.pc = st.pc /\ u.res = st.res /\ u.wait = st.wait
  BY PopReady DEF Whole
<1> HIDE DEF u
<1>3. Whole(u)
  BY <1>1, <1>2, SameWaits DEF Whole
<1> QED
  BY <1>1, <1>2, <1>3 DEF u

\* A coroutine suspends.
LEMMA AwaitDoes ==
    ASSUME NEW st, Whole(st), NEW c \in Coro, NEW l \in Label, NEW ch \in Chan,
           c \in Detectors <=> ch = "detect"
    PROVE  LET u == Await(st, c, l, ch)
           IN  /\ Whole(u) /\ Alike(st, u) /\ u.sock = st.sock
               /\ \A x \in Coro : u.pc[x] = IF x = c THEN l ELSE st.pc[x]
               /\ \A x \in Coro : u.res[x] = IF x = c THEN "none" ELSE st.res[x]
               /\ \A x \in Chan : \A e \in Coro :
                      Waits(u, x, e) <=> Waits(st, x, e) \/ (x = ch /\ e = c)
               /\ \A x \in Chan \ {ch} : u.wait[x] = st.wait[x]
<1> DEFINE u == Await(st, c, l, ch)
<1>1. /\ Alike(st, u) /\ u.sock = st.sock /\ DOMAIN u = DOMAIN st
  BY DEF Await, Whole, Ready, Parts, Alike
<1>2. /\ Ready(u) /\ u.wait[ch] = Append(st.wait[ch], c)
      /\ \A x \in Coro : u.pc[x] = IF x = c THEN l ELSE st.pc[x]
      /\ \A x \in Coro : u.res[x] = IF x = c THEN "none" ELSE st.res[x]
      /\ \A x \in Chan \ {ch} : u.wait[x] = st.wait[x]
  BY AwaitReady DEF Whole
<1>3. st.wait[ch] \in Seq(Coro)
  BY DEF Whole, Ready
<1> HIDE DEF u
<1>5. ASSUME NEW x \in Chan, NEW e \in Coro
      PROVE  Waits(u, x, e) <=> Waits(st, x, e) \/ (x = ch /\ e = c)
  <2>1. CASE x = ch
    <3>1. /\ Len(u.wait[x]) = Len(st.wait[x]) + 1 /\ Len(st.wait[x]) \in Nat
          /\ \A i \in 1..Len(st.wait[x]) : u.wait[x][i] = st.wait[x][i]
          /\ u.wait[x][Len(st.wait[x]) + 1] = c
      BY <1>2, <1>3, <2>1
    <3>2. 1..Len(u.wait[x]) = 1..Len(st.wait[x]) \cup {Len(st.wait[x]) + 1}
      BY <3>1
    <3> QED
      BY <2>1, <3>1, <3>2 DEF Waits
  <2>2. CASE x # ch
    BY <1>2, <2>2 DEF Waits
  <2> QED
    BY <2>1, <2>2
<1>6. Whole(u)
  BY <1>1, <1>2, <1>5 DEF Whole, Chan
<1> QED
  BY <1>1, <1>2, <1>5, <1>6 DEF u

\* A coroutine goes to a place at once.
LEMMA CompleteDoes ==
    ASSUME NEW st, Whole(st), NEW c \in Coro, NEW l \in Label, NEW r \in Result
    PROVE  LET u == Complete(At(st, c, l), c, r)
           IN  /\ Whole(u) /\ Alike(st, u) /\ u.sock = st.sock /\ u.wait = st.wait
               /\ \A x \in Coro : u.pc[x] = IF x = c THEN l ELSE st.pc[x]
               /\ \A x \in Coro : u.res[x] = IF x = c THEN r ELSE st.res[x]
<1> DEFINE u == Complete(At(st, c, l), c, r)
<1>1. /\ Alike(st, u) /\ u.sock = st.sock /\ DOMAIN u = DOMAIN st
  BY DEF Complete, At, Whole, Ready, Parts, Alike
<1>2. /\ Ready(u) /\ u.wait = st.wait
      /\ \A x \in Coro : u.pc[x] = IF x = c THEN l ELSE st.pc[x]
      /\ \A x \in Coro : u.res[x] = IF x = c THEN r ELSE st.res[x]
  BY CompleteReady DEF Whole
<1> HIDE DEF u
<1>3. Whole(u)
  BY <1>1, <1>2, SameWaits DEF Whole
<1> QED
  BY <1>1, <1>2, <1>3 DEF u

\* The head of a channel completes.
LEMMA CompleteHeadDoes ==
    ASSUME NEW st, Whole(st), NEW ch \in Chan, st.wait[ch] # <<>>, NEW r \in Result
    PROVE  LET u == CompleteHead(st, ch, r)
               c == Head(st.wait[ch])
           IN  /\ Whole(u) /\ Alike(st, u) /\ u.sock = st.sock /\ u.pc = st.pc
               /\ c \in Coro /\ Waits(st, ch, c)
               /\ \A x \in Coro : u.res[x] = IF x = c THEN r ELSE st.res[x]
               /\ \A x \in Chan, e \in Coro : Waits(u, x, e) => Waits(st, x, e)
               /\ \A x \in Chan : st.wait[x] = <<>> => u.wait[x] = <<>>
<1> DEFINE u == CompleteHead(st, ch, r)
           c == Head(st.wait[ch])
<1>1. /\ Alike(st, u) /\ u.sock = st.sock /\ DOMAIN u = DOMAIN st
  BY DEF CompleteHead, Complete, Whole, Ready, Parts, Alike
<1>2. /\ Ready(u) /\ u.wait[ch] = Tail(st.wait[ch]) /\ u.pc = st.pc
      /\ \A x \in Coro : u.res[x] = IF x = c THEN r ELSE st.res[x]
      /\ \A x \in Chan \ {ch} : u.wait[x] = st.wait[x]
  BY CompleteHeadReady DEF Whole
<1>3. st.wait[ch] \in Seq(Coro)
  BY DEF Whole, Ready
<1>4. /\ c \in Coro /\ c = st.wait[ch][1] /\ Len(st.wait[ch]) \in Nat \ {0}
      /\ Len(Tail(st.wait[ch])) = Len(st.wait[ch]) - 1
      /\ \A i \in 1..Len(Tail(st.wait[ch])) : Tail(st.wait[ch])[i] = st.wait[ch][i + 1]
  <2> DEFINE q == st.wait[ch]
  <2>1. q \in Seq(Coro) /\ q # <<>>
    BY <1>3
  <2> HIDE DEF q
  <2>2. Head(q) \in Coro /\ Head(q) = q[1] /\ Len(q) \in Nat \ {0} /\ Len(Tail(q)) = Len(q) - 1
    BY <2>1
  <2>3. \A i \in 1..Len(Tail(q)) : Tail(q)[i] = q[i + 1]
    BY <2>1
  <2> QED
    BY <2>2, <2>3 DEF q
<1> HIDE DEF u, c
<1>6. Waits(st, ch, c)
  BY <1>4 DEF Waits
<1>7. ASSUME NEW x \in Chan, NEW e \in Coro, Waits(u, x, e) PROVE Waits(st, x, e)
  <2>1. CASE x = ch
    <3>1. PICK i \in 1..Len(u.wait[x]) : u.wait[x][i] = e
      BY <1>7 DEF Waits
    <3>2. u.wait[x] = Tail(st.wait[ch])
      BY <1>2, <2>1
    <3>3. st.wait[ch][i + 1] = e
      BY <1>4, <3>1, <3>2
    <3>4. i + 1 \in 1..Len(st.wait[ch])
      BY <1>4, <3>1, <3>2
    <3> QED
      BY <2>1, <3>3, <3>4 DEF Waits
  <2>2. CASE x # ch
    BY <1>2, <1>7, <2>2 DEF Waits
  <2> QED
    BY <2>1, <2>2
<1>8. ASSUME NEW x \in Chan, st.wait[x] = <<>> PROVE u.wait[x] = <<>>
  BY <1>2, <1>8
<1>5. Whole(u)
  BY <1>1, <1>2, <1>7 DEF Whole, Chan
<1> QED
  BY <1>1, <1>2, <1>4, <1>5, <1>6, <1>7, <1>8 DEF u, c

\* Everything that waits on a channel is cancelled.
LEMMA CancelDoes ==
    ASSUME NEW st, Whole(st), NEW ch \in Chan
    PROVE  LET u == Cancel(st, ch)
           IN  /\ Whole(u) /\ Alike(st, u) /\ u.sock = st.sock /\ u.pc = st.pc
               /\ \A e \in Coro : u.res[e] = IF Waits(st, ch, e) THEN "err" ELSE st.res[e]
               /\ \A x \in Chan : u.wait[x] = IF x = ch THEN <<>> ELSE st.wait[x]
               /\ \A x \in Chan, e \in Coro : Waits(u, x, e) => Waits(st, x, e)
<1> DEFINE u == Cancel(st, ch)
<1>1. /\ Alike(st, u) /\ u.sock = st.sock /\ DOMAIN u = DOMAIN st
  BY DEF Cancel, Whole, Ready, Parts, Alike
<1>2. /\ Ready(u) /\ u.pc = st.pc
      /\ \A e \in Coro : u.res[e] = IF e \in Members(st.wait[ch]) THEN "err" ELSE st.res[e]
      /\ \A x \in Chan : u.wait[x] = IF x = ch THEN <<>> ELSE st.wait[x]
  BY CancelReady DEF Whole
<1> HIDE DEF u
<1>3. ASSUME NEW x \in Chan, NEW e \in Coro, Waits(u, x, e) PROVE Waits(st, x, e)
  <2>1. x # ch
    BY <1>2, <1>3 DEF Waits
  <2> QED
    BY <1>2, <1>3, <2>1 DEF Waits
<1>4. \A e \in Coro : e \in Members(st.wait[ch]) <=> Waits(st, ch, e)
  BY DEF Members, Waits
<1>5. Whole(u)
  BY <1>1, <1>2, <1>3 DEF Whole, Chan
<1> QED
  BY <1>1, <1>2, <1>3, <1>4, <1>5 DEF u

LEMMA ReturnDoes ==
    ASSUME NEW st, Whole(st), NEW c \in Coro
    PROVE  LET u == Return(st, c)
           IN  /\ Whole(u) /\ Alike(st, u) /\ u.sock = st.sock /\ u.wait = st.wait
               /\ \A x \in Coro : u.pc[x] = IF x = c THEN "idle" ELSE st.pc[x]
               /\ \A x \in Coro : u.res[x] = IF x = c THEN "none" ELSE st.res[x]
<1> DEFINE u == Return(st, c)
<1>1. /\ Alike(st, u) /\ u.sock = st.sock /\ DOMAIN u = DOMAIN st
  BY DEF Return, Whole, Ready, Parts, Alike
<1>2. /\ Ready(u) /\ u.wait = st.wait
      /\ \A x \in Coro : u.pc[x] = IF x = c THEN "idle" ELSE st.pc[x]
      /\ \A x \in Coro : u.res[x] = IF x = c THEN "none" ELSE st.res[x]
  BY ReturnReady DEF Whole
<1> HIDE DEF u
<1>3. Whole(u)
  BY <1>1, <1>2, SameWaits DEF Whole
<1> QED
  BY <1>1, <1>2, <1>3 DEF u

LEMMA CloseSockDoes ==
    ASSUME NEW st, Whole(st), NEW k \in Sock
    PROVE  LET u == CloseSock(st, k)
           IN  /\ Whole(u) /\ Alike(st, u) /\ u.pc = st.pc
               /\ u.sock = [st.sock EXCEPT ![k] = "closed"]
               /\ \A e \in Coro : u.res[e] = IF Waits(st, Rd[k], e) \/ Waits(st, Wr[k], e)
                                            THEN "err" ELSE st.res[e]
               /\ \A x \in Chan : u.wait[x] = IF x \in {Rd[k], Wr[k]} THEN <<>> ELSE st.wait[x]
               /\ \A x \in Chan, e \in Coro : Waits(u, x, e) => Waits(st, x, e)
<1> DEFINE a == Cancel(st, Rd[k])
           b == Cancel(a, Wr[k])
           u == CloseSock(st, k)
<1>1. Rd[k] \in Chan /\ Wr[k] \in Chan /\ Rd[k] # Wr[k]
  BY DEF Rd, Wr, Chan, Sock
<1>2. u = [b EXCEPT !.sock[k] = "closed"]
  BY DEF CloseSock
<1>3. /\ Whole(a) /\ Alike(st, a) /\ a.sock = st.sock /\ a.pc = st.pc
      /\ \A e \in Coro : a.res[e] = IF Waits(st, Rd[k], e) THEN "err" ELSE st.res[e]
      /\ \A x \in Chan : a.wait[x] = IF x = Rd[k] THEN <<>> ELSE st.wait[x]
      /\ \A x \in Chan, e \in Coro : Waits(a, x, e) => Waits(st, x, e)
  BY <1>1, CancelDoes
<1> HIDE DEF a
<1>4. /\ Whole(b) /\ Alike(a, b) /\ b.sock = a.sock /\ b.pc = a.pc
      /\ \A e \in Coro : b.res[e] = IF Waits(a, Wr[k], e) THEN "err" ELSE a.res[e]
      /\ \A x \in Chan : b.wait[x] = IF x = Wr[k] THEN <<>> ELSE a.wait[x]
      /\ \A x \in Chan, e \in Coro : Waits(b, x, e) => Waits(a, x, e)
  BY <1>1, <1>3, CancelDoes
<1> HIDE DEF b, u
<1>5. /\ u = [f \in DOMAIN u |-> u[f]] /\ DOMAIN u = DOMAIN b /\ Alike(b, u)
      /\ u.runq = b.runq /\ u.wait = b.wait /\ u.pc = b.pc /\ u.res = b.res
      /\ u.sock = [b.sock EXCEPT ![k] = "closed"]
  <2>1. b = [f \in DOMAIN b |-> b[f]] /\ DOMAIN b = Parts
    BY <1>4 DEF Whole, Ready
  <2> QED
    BY <1>2, <2>1 DEF Parts, Alike
<1>6. Whole(u)
  <2>1. u.sock = [j \in Sock |-> u.sock[j]]
    BY <1>4, <1>5 DEF Whole
  <2> QED
    BY <1>4, <1>5, <2>1, WholeAside
<1>7. \A e \in Coro : Waits(a, Wr[k], e) <=> Waits(st, Wr[k], e)
  BY <1>1, <1>3 DEF Waits
<1>8. Alike(st, u) /\ u.pc = st.pc /\ u.sock = [st.sock EXCEPT ![k] = "closed"]
  BY <1>3, <1>4, <1>5 DEF Alike
<1>9. \A e \in Coro : u.res[e] = IF Waits(st, Rd[k], e) \/ Waits(st, Wr[k], e)
                                THEN "err" ELSE st.res[e]
  BY <1>3, <1>4, <1>5, <1>7
<1>10. \A x \in Chan : u.wait[x] = IF x \in {Rd[k], Wr[k]} THEN <<>> ELSE st.wait[x]
  BY <1>1, <1>3, <1>4, <1>5
<1>11. \A x \in Chan, e \in Coro : Waits(u, x, e) => Waits(st, x, e)
  BY <1>3, <1>4, <1>5, SameWaits
<1> QED
  BY <1>6, <1>8, <1>9, <1>10, <1>11 DEF u


-----------------------------------------------------------------------------
(***************************************************************************)
(* What is left alone by the coroutines of X that run from st to u.        *)
(***************************************************************************)
Ran(st, u, X) ==
    /\ Whole(u)
    /\ st.closed => u.closed
    /\ u.broken = st.broken /\ u.msg = st.msg
    /\ u.sock["process"] = "conn" => st.sock["process"] = "conn"
    /\ \A e \in Coro \ X :
           /\ u.pc[e] = st.pc[e]
           /\ u.res[e] = st.res[e] \/ (u.res[e] = "err" /\ (u.closed \/ e \in Detectors))
    /\ \A ch \in Chan, e \in Coro :
           Waits(u, ch, e) => Waits(st, ch, e) \/ (e \in X /\ Spot(u.pc[e], e, u.msg) = ch)

\* Only connect_process turns to the process or forgets the totals; of a
\* closed session it does not matter.
Calm(st, u, X) ==
    /\ u.closed \/ (u.bypass = st.bypass /\ u.sock["process"] = st.sock["process"])
    /\ u.handled = st.handled \/ (u.closed /\ \A d \in Dir : u.handled[d] = 0)
    /\ u.stored = st.stored
    /\ \A c \in (Dir \cup Readers) \ X : u.data[c] = st.data[c]
    /\ \A r \in Readers \ X : u.cut[r] = st.cut[r]

Went(st, u, X) == Ran(st, u, X) /\ Calm(st, u, X)

\* One after the other.
LEMMA RanThen ==
    ASSUME NEW st, NEW a, NEW u, NEW X, NEW Y, Ran(st, a, X), Ran(a, u, Y), X \cap Y = {}
    PROVE  Ran(st, u, X \cup Y)
<1>1. ASSUME NEW e \in Coro \ (X \cup Y)
      PROVE  /\ u.pc[e] = st.pc[e]
             /\ u.res[e] = st.res[e] \/ (u.res[e] = "err" /\ (u.closed \/ e \in Detectors))
  BY DEF Ran
<1>2. ASSUME NEW ch \in Chan, NEW e \in Coro, Waits(u, ch, e)
      PROVE  Waits(st, ch, e) \/ (e \in X \cup Y /\ Spot(u.pc[e], e, u.msg) = ch)
  <2>1. CASE e \in Y
    <3>1. e \notin X
      BY <2>1
    <3> QED
      BY <1>2, <2>1, <3>1 DEF Ran
  <2>2. CASE e \notin Y
    <3>1. u.pc[e] = a.pc[e] /\ u.msg = a.msg /\ Waits(a, ch, e)
      BY <1>2, <2>2 DEF Ran
    <3> QED
      BY <3>1 DEF Ran
  <2> QED
    BY <2>1, <2>2
<1> QED
  BY <1>1, <1>2 DEF Ran

LEMMA WentThen ==
    ASSUME NEW st, NEW a, NEW u, NEW X, NEW Y, Went(st, a, X), Went(a, u, Y), X \cap Y = {}
    PROVE  Went(st, u, X \cup Y)
<1>1. Ran(st, u, X \cup Y)
  BY RanThen DEF Went
<1>2. a.closed => u.closed
  BY DEF Went, Ran
<1>3. Calm(st, u, X \cup Y)
  BY <1>2 DEF Went, Calm
<1> QED
  BY <1>1, <1>3 DEF Went

\* What differs in other parts only has gone nowhere.
LEMMA AsideRan ==
    ASSUME NEW st, Whole(st), NEW u, Whole(u), u.wait = st.wait, u.pc = st.pc, u.res = st.res,
           st.closed => u.closed, u.broken = st.broken, u.msg = st.msg,
           u.sock["process"] = "conn" => st.sock["process"] = "conn"
    PROVE  Ran(st, u, {})
BY SameWaits DEF Ran

LEMMA PopWent ==
    ASSUME NEW st, Whole(st), st.runq # <<>>
    PROVE  Went(st, Pop(st), {}) /\ Alike(st, Pop(st)) /\ Pop(st).sock = st.sock
<1> DEFINE u == Pop(st)
<1>1. /\ Whole(u) /\ Alike(st, u) /\ u.sock = st.sock /\ u.pc = st.pc /\ u.res = st.res
      /\ u.wait = st.wait
  BY PopDoes
<1> HIDE DEF u
<1>2. Ran(st, u, {})
  BY <1>1, AsideRan DEF Alike
<1> QED
  BY <1>1, <1>2 DEF Went, Calm, Alike, u

\* One coroutine comes to l, its operation has the result r.
Comes(st, u, c, l, r) ==
    Went(st, u, {c}) /\ Alike(st, u) /\ u.sock = st.sock /\ u.pc[c] = l /\ u.res[c] = r

\* A coroutine suspends at l until ch completes it.
LEMMA AwaitWent ==
    ASSUME NEW st, Whole(st), NEW c \in Coro, NEW l \in Label, NEW ch \in Chan,
           c \in Detectors <=> ch = "detect", Spot(l, c, st.msg) = ch
    PROVE  LET u == Await(st, c, l, ch)
           IN  Comes(st, u, c, l, "none")
<1> DEFINE u == Await(st, c, l, ch)
<1>1. /\ Whole(u) /\ Alike(st, u) /\ u.sock = st.sock
      /\ \A x \in Coro : u.pc[x] = IF x = c THEN l ELSE st.pc[x]
      /\ \A x \in Coro : u.res[x] = IF x = c THEN "none" ELSE st.res[x]
      /\ \A x \in Chan : \A e \in Coro :
             Waits(u, x, e) <=> Waits(st, x, e) \/ (x = ch /\ e = c)
  BY AwaitDoes
<1> HIDE DEF u
<1>2. Ran(st, u, {c})
  BY <1>1 DEF Ran, Alike
<1> QED
  BY <1>1, <1>2 DEF Comes, Went, Calm, Alike, u

\* A coroutine goes to l at once.
LEMMA CompleteWent ==
    ASSUME NEW st, Whole(st), NEW c \in Coro, NEW l \in Label, NEW r \in Result
    PROVE  LET u == Complete(At(st, c, l), c, r)
           IN  Comes(st, u, c, l, r)
<1> DEFINE u == Complete(At(st, c, l), c, r)
<1>1. /\ Whole(u) /\ Alike(st, u) /\ u.sock = st.sock /\ u.wait = st.wait
      /\ \A x \in Coro : u.pc[x] = IF x = c THEN l ELSE st.pc[x]
      /\ \A x \in Coro : u.res[x] = IF x = c THEN r ELSE st.res[x]
  BY CompleteDoes
<1> HIDE DEF u
<1>2. Ran(st, u, {c})
  BY <1>1, SameWaits DEF Ran, Alike
<1> QED
  BY <1>1, <1>2 DEF Comes, Went, Calm, Alike, u

LEMMA AwaitIoWent ==
    ASSUME NEW st, Whole(st), NEW c \in Dir \cup Connectors \cup Readers, NEW l \in Label,
           NEW k, NEW ch \in Chan, ch # "detect", Spot(l, c, st.msg) = ch
    PROVE  LET u == AwaitIo(st, c, l, k, ch)
           IN  /\ st.sock[k] = "conn" => Comes(st, u, c, l, "none")
               /\ st.sock[k] # "conn" => Comes(st, u, c, l, "err")
<1>1. c \in Coro /\ c \notin Detectors /\ "err" \in Result
  BY FramesAreDistinct DEF Coro, Result
<1>2. AwaitIo(st, c, l, k, ch) = IF st.sock[k] = "conn" THEN Await(st, c, l, ch)
                                 ELSE Complete(At(st, c, l), c, "err")
  BY DEF AwaitIo, At
<1>3. CASE st.sock[k] = "conn"
  BY <1>1, <1>2, <1>3, AwaitWent
<1>4. CASE st.sock[k] # "conn"
  BY <1>1, <1>2, <1>4, CompleteWent
<1> QED
  BY <1>3, <1>4

LEMMA CompleteHeadWent ==
    ASSUME NEW st, Whole(st), NEW ch \in Chan, st.wait[ch] # <<>>, NEW r \in Result
    PROVE  LET u == CompleteHead(st, ch, r)
               c == Head(st.wait[ch])
           IN  /\ Went(st, u, {c}) /\ Alike(st, u) /\ u.sock = st.sock /\ u.pc = st.pc
               /\ u.res[c] = r /\ c \in Coro /\ Waits(st, ch, c)
<1> DEFINE u == CompleteHead(st, ch, r)
           c == Head(st.wait[ch])
<1>1. /\ Whole(u) /\ Alike(st, u) /\ u.sock = st.sock /\ u.pc = st.pc
      /\ c \in Coro /\ Waits(st, ch, c)
      /\ \A x \in Coro : u.res[x] = IF x = c THEN r ELSE st.res[x]
      /\ \A x \in Chan, e \in Coro : Waits(u, x, e) => Waits(st, x, e)
  BY CompleteHeadDoes
<1> HIDE DEF u, c
<1>2. Ran(st, u, {c})
  BY <1>1 DEF Ran, Alike
<1> QED
  BY <1>1, <1>2 DEF Went, Calm, Alike, u, c

\* The operation of c ends with the result r.
Gets(st, u, c, r) ==
    /\ Went(st, u, {c}) /\ Alike(st, u) /\ u.sock = st.sock /\ u.pc = st.pc
    /\ u.res[c] = r /\ c \in Coro

LEMMA HeadGets ==
    ASSUME NEW st, Whole(st), NEW ch \in Chan, st.wait[ch] # <<>>, NEW r \in Result
    PROVE  Gets(st, CompleteHead(st, ch, r), Head(st.wait[ch]), r)
BY CompleteHeadWent DEF Gets

\* A coroutine runs on with other data of its own.
LEMMA LoadWent ==
    ASSUME NEW st, Whole(st), NEW c \in Dir \cup Readers, NEW s,
           s = [f \in DOMAIN s |-> s[f]], DOMAIN s = DOMAIN st,
           s.runq = st.runq, s.wait = st.wait, s.pc = st.pc, s.res = st.res, s.sock = st.sock,
           s.closed = st.closed, s.bypass = st.bypass, s.broken = st.broken, s.msg = st.msg,
           s.handled = st.handled, s.stored = st.stored,
           \A e : e # c => s.data[e] = st.data[e] /\ s.cut[e] = st.cut[e]
    PROVE  Whole(s) /\ \A u : Went(s, u, {c}) => Went(st, u, {c})
<1>1. Whole(s)
  <2>1. s.sock = [k \in Sock |-> s.sock[k]]
    BY DEF Whole
  <2> QED
    BY <2>1, WholeAside
<1>2. Ran(st, s, {})
  BY <1>1, AsideRan
<1>3. ASSUME NEW u, Went(s, u, {c}) PROVE Went(st, u, {c})
  <2>1. {} \cap {c} = {} /\ {} \cup {c} = {c}
    OBVIOUS
  <2>2. Ran(st, u, {} \cup {c})
    BY <1>2, <1>3, <2>1, RanThen DEF Went
  <2>3. Calm(st, u, {c})
    BY <1>3 DEF Went, Calm
  <2> QED
    BY <2>1, <2>2, <2>3 DEF Went
<1> QED
  BY <1>1, <1>3

LEMMA ReturnWent ==
    ASSUME NEW st, Whole(st), NEW c \in Coro
    PROVE  LET u == Return(st, c)
           IN  Comes(st, u, c, "idle", "none")
<1> DEFINE u == Return(st, c)
<1>1. /\ Whole(u) /\ Alike(st, u) /\ u.sock = st.sock /\ u.wait = st.wait
      /\ \A x \in Coro : u.pc[x] = IF x = c THEN "idle" ELSE st.pc[x]
      /\ \A x \in Coro : u.res[x] = IF x = c THEN "none" ELSE st.res[x]
  BY ReturnDoes
<1> HIDE DEF u
<1>2. Ran(st, u, {c})
  BY <1>1, SameWaits DEF Ran, Alike
<1> QED
  BY <1>1, <1>2 DEF Comes, Went, Calm, Alike, u

\* Whoever waits on the timer is a detector.
LEMMA CancelDetectWent ==
    ASSUME NEW st, Whole(st)
    PROVE  LET u == Cancel(st, "detect")
           IN  Went(st, u, {}) /\ Alike(st, u) /\ u.sock = st.sock
<1> DEFINE u == Cancel(st, "detect")
<1>0. "detect" \in Chan
  BY DEF Chan
<1>1. /\ Whole(u) /\ Alike(st, u) /\ u.sock = st.sock /\ u.pc = st.pc
      /\ \A e \in Coro : u.res[e] = IF Waits(st, "detect", e) THEN "err" ELSE st.res[e]
      /\ \A x \in Chan, e \in Coro : Waits(u, x, e) => Waits(st, x, e)
  BY <1>0, CancelDoes
<1> HIDE DEF u
<1>2. \A e \in Coro : Waits(st, "detect", e) => e \in Detectors
  BY DEF Whole
<1>3. Ran(st, u, {})
  BY <1>1, <1>2 DEF Ran, Alike
<1> QED
  BY <1>1, <1>3 DEF Went, Calm, Alike, u

\* Nobody uses the socket, or the session is closed.
LEMMA CloseSockRan ==
    ASSUME NEW st, Whole(st), NEW k \in Sock,
           st.closed \/ \A e \in Coro : ~Waits(st, Rd[k], e) /\ ~Waits(st, Wr[k], e)
    PROVE  LET u == CloseSock(st, k)
           IN  /\ Ran(st, u, {}) /\ Alike(st, u) /\ (st.closed => Went(st, u, {}))
               /\ u.sock[k] = "closed" /\ \A j \in Sock \ {k} : u.sock[j] = st.sock[j]
<1> DEFINE u == CloseSock(st, k)
<1>1. /\ Whole(u) /\ Alike(st, u) /\ u.pc = st.pc
      /\ u.sock = [st.sock EXCEPT ![k] = "closed"]
      /\ \A e \in Coro : u.res[e] = IF Waits(st, Rd[k], e) \/ Waits(st, Wr[k], e)
                                    THEN "err" ELSE st.res[e]
      /\ \A x \in Chan, e \in Coro : Waits(u, x, e) => Waits(st, x, e)
  BY CloseSockDoes
<1> HIDE DEF u
<1>2. u.sock[k] = "closed" /\ \A j \in Sock \ {k} : u.sock[j] = st.sock[j]
  BY <1>1 DEF Whole
<1>3. u.sock["process"] = "conn" => st.sock["process"] = "conn"
  BY <1>2 DEF Sock
<1>4. Ran(st, u, {})
  BY <1>1, <1>3 DEF Ran, Alike
<1> QED
  BY <1>1, <1>2, <1>4 DEF Went, Calm, Alike, u

LEMMA GraceCloseWent ==
    ASSUME NEW st, Whole(st)
    PROVE  Went(st, GraceClose(st), {}) /\ GraceClose(st).closed
<1>1. CASE st.closed
  <2>1. Ran(st, st, {})
    BY AsideRan
  <2> QED
    BY <1>1, <2>1 DEF GraceClose, Went, Calm
<1>2. CASE ~st.closed
  <2> DEFINE z == [st EXCEPT !.closed = TRUE]
             a == Cancel(z, "detect")
             b == CloseSock(a, "client")
             c == CloseSock(b, "server")
             u == CloseSock(c, "process")
  <2>1. /\ z = [f \in DOMAIN z |-> z[f]] /\ DOMAIN z = DOMAIN st /\ z.closed
        /\ z.runq = st.runq /\ z.wait = st.wait /\ z.pc = st.pc /\ z.res = st.res
        /\ z.sock = st.sock /\ z.handled = st.handled /\ z.stored = st.stored
        /\ z.data = st.data /\ z.cut = st.cut /\ z.broken = st.broken /\ z.msg = st.msg
    <3>1. st = [f \in DOMAIN st |-> st[f]] /\ DOMAIN st = Parts
      BY DEF Whole, Ready
    <3> QED
      BY <3>1 DEF Parts
  <2> HIDE DEF z
  <2>2. Whole(z)
    <3>1. z.sock = [k \in Sock |-> z.sock[k]]
      BY <2>1 DEF Whole
    <3> QED
      BY <2>1, <3>1, WholeAside
  <2>3. Went(st, z, {})
    <3>1. Ran(st, z, {})
      BY <2>1, <2>2, AsideRan
    <3> QED
      BY <2>1, <3>1 DEF Went, Calm
  <2>4. Went(z, a, {}) /\ a.closed /\ Whole(a)
    BY <2>1, <2>2, CancelDetectWent DEF Alike, Went, Ran
  <2> HIDE DEF a
  <2>5. Went(a, b, {}) /\ b.closed /\ Whole(b)
    BY <2>4, CloseSockRan DEF Alike, Went, Ran, Sock
  <2> HIDE DEF b
  <2>6. Went(b, c, {}) /\ c.closed /\ Whole(c)
    BY <2>5, CloseSockRan DEF Alike, Went, Ran, Sock
  <2> HIDE DEF c
  <2>7. Went(c, u, {}) /\ u.closed
    BY <2>6, CloseSockRan DEF Alike, Went, Ran, Sock
  <2> HIDE DEF u
  <2>8. Went(st, u, {})
    <3>1. Went(st, a, {} \cup {})
      BY <2>3, <2>4, WentThen
    <3>2. Went(st, b, ({} \cup {}) \cup {})
      BY <2>5, <3>1, WentThen
    <3>3. Went(st, c, (({} \cup {}) \cup {}) \cup {})
      BY <2>6, <3>2, WentThen
    <3>4. Went(st, u, ((({} \cup {}) \cup {}) \cup {}) \cup {})
      BY <2>7, <3>3, WentThen
    <3>5. ((({} \cup {}) \cup {}) \cup {}) \cup {} = {}
      OBVIOUS
    <3> QED
      BY <3>4, <3>5
  <2>9. GraceClose(st) = u
    BY <1>2 DEF GraceClose, u, c, b, a, z
  <2> QED
    BY <2>7, <2>8, <2>9
<1> QED
  BY <1>1, <1>2

LEMMA GiveUpWent ==
    ASSUME NEW st, Whole(st), NEW c \in Coro
    PROVE  LET u == GiveUp(st, c)
           IN  Went(st, u, {c}) /\ u.closed /\ u.pc[c] = "idle" /\ u.res[c] = "none"
<1> DEFINE a == GraceClose(st)
           u == Return(a, c)
<1>1. Went(st, a, {}) /\ a.closed /\ Whole(a)
  BY GraceCloseWent DEF Went, Ran
<1> HIDE DEF a
<1>2. Went(a, u, {c}) /\ u.closed /\ u.pc[c] = "idle" /\ u.res[c] = "none"
  BY <1>1, ReturnWent DEF Comes, Alike
<1> HIDE DEF u
<1>3. Went(st, u, {} \cup {c}) /\ {} \cup {c} = {c}
  BY <1>1, <1>2, WentThen
<1>4. GiveUp(st, c) = u
  BY DEF GiveUp, u, a
<1> QED
  BY <1>2, <1>3, <1>4

-----------------------------------------------------------------------------
(***************************************************************************)
(* What the pieces of the handlers do.                                     *)
(***************************************************************************)
\* The places of the loops and the reader.
LEMMA Spots ==
    ASSUME NEW m
    PROVE  /\ \A d \in Dir : /\ Spot("dread", d, m) = Rd[From[d]] /\ Spot("pread", d, m) = Rd[From[d]]
                             /\ Spot("dwrite", d, m) = Wr[To[d]] /\ Spot("flush", d, m) = Wr[To[d]]
           /\ \A c : /\ Spot("pwrite", c, m) = "processWr" /\ Spot("notify", c, m) = "processWr"
                     /\ Spot("connect", c, m) = "processWr" /\ Spot("tuple", c, m) = "processWr"
                     /\ Spot("head", c, m) = "processRd" /\ Spot("body", c, m) = "processRd"
                     /\ Spot("wnew", c, m) = Wr[To[m[c].type]]
                     /\ Spot("wfwd", c, m) = Wr[To[m[c].type]]
                     /\ Spot("retry", c, m) = "retry" /\ Spot("wait", c, m) = "detect"
                     /\ Spot("dial", c, m) = "serverWr"
BY DEF Spot

LEMMA Channels ==
    /\ \A d \in Dir : /\ Rd[From[d]] \in Chan \ {"detect"} /\ Wr[To[d]] \in Chan \ {"detect"}
    /\ {"processRd", "processWr", "retry", "serverWr"} \subseteq Chan \ {"detect"} /\ "detect" \in Chan
    /\ Dir \subseteq Coro /\ Connectors \subseteq Coro /\ Readers \subseteq Coro
    /\ Detectors \subseteq Coro /\ "setup" \in Coro
    /\ {"idle", "dial", "dread", "dwrite", "pread", "pwrite", "notify", "flush", "connect", "retry",
        "tuple", "head", "body", "wnew", "wfwd", "wait"} \subseteq Label
BY DEF Dir, From, To, Rd, Wr, Chan, Coro, Label

\* The reader writes to the side its answer is for.
LEMMA ReaderSpots ==
    ASSUME NEW m, NEW r, m[r].type \in Dir
    PROVE  LET ch == Wr[To[m[r].type]]
           IN  /\ {"wnew", "wfwd"} \subseteq Label /\ ch \in Chan /\ ch # "detect"
               /\ Spot("wnew", r, m) = ch /\ Spot("wfwd", r, m) = ch
<1> DEFINE d == m[r].type
<1>1. Wr[To[d]] \in Chan \ {"detect"}
  BY Channels
<1>2. {"wnew", "wfwd"} \subseteq Label
  BY Channels
<1>3. Spot("wnew", r, m) = Wr[To[d]] /\ Spot("wfwd", r, m) = Wr[To[d]]
  BY Spots
<1> QED
  BY <1>1, <1>2, <1>3

\* The kinds of coroutines.
LEMMA Apart ==
    /\ \A d \in Dir : d \notin Connectors /\ d \notin Readers /\ d \notin Detectors /\ d # "setup"
    /\ \A k \in Connectors : k \notin Dir /\ k \notin Readers /\ k \notin Detectors /\ k # "setup"
    /\ \A r \in Readers : r \notin Dir /\ r \notin Connectors /\ r \notin Detectors /\ r # "setup"
    /\ \A t \in Detectors : t \notin Dir /\ t \notin Connectors /\ t \notin Readers /\ t # "setup"
<1>1. "setup" \notin Dir
  BY DEF Dir
<1>2. \A d \in Dir \cup {"setup"} : d \notin Connectors /\ d \notin Readers /\ d \notin Detectors
  BY FramesAreDistinct
<1>3. \A k \in Connectors : k \notin Readers /\ k \notin Detectors
  BY FramesAreDistinct
<1>4. \A r \in Readers : r \notin Detectors
  BY FramesAreDistinct
<1> QED
  BY <1>1, <1>2, <1>3, <1>4

LEMMA NextRoundWent ==
    ASSUME NEW st, Whole(st), NEW d \in Dir
    PROVE  LET u == NextRound(st, d)
           IN  /\ Went(st, u, {d}) /\ u.res[d] \in {"none", "err"}
               /\ u.pc[d] \in {"idle", "dread", "pread", "notify"}
               /\ u.pc[d] = "dread" => u.bypass
               /\ u.pc[d] \in {"pread", "notify"} => ~u.bypass
               /\ u.pc[d] = "pread" => ~(d = "res" /\ ResponseBypass)
               /\ u.pc[d] = "notify" => d = "res" /\ ResponseBypass
               /\ u.pc[d] = "idle" => u.closed
               /\ u.pc[d] # "idle" => u.bypass = st.bypass /\ u.closed = st.closed
<1> DEFINE u == NextRound(st, d)
<1>1. CASE st.eof
  BY <1>1, GiveUpWent, Channels DEF NextRound
<1>2. CASE ~st.eof
  <2> DEFINE l == IF st.bypass THEN "dread"
                  ELSE IF d = "res" /\ ResponseBypass THEN "notify" ELSE "pread"
             k == IF l = "notify" THEN "process" ELSE From[d]
             ch == IF l = "notify" THEN "processWr" ELSE Rd[From[d]]
  <2>1. u = AwaitIo(st, d, l, k, ch)
    BY <1>2 DEF NextRound
  <2>2. l \in Label /\ ch \in Chan /\ ch # "detect" /\ Spot(l, d, st.msg) = ch
    BY Channels, Spots, ZenonT(30)
  <2>3. /\ l \in {"dread", "pread", "notify"} /\ (l = "dread" <=> st.bypass)
        /\ l = "notify" => d = "res" /\ ResponseBypass
        /\ l = "pread" => ~(d = "res" /\ ResponseBypass)
    OBVIOUS
  <2> HIDE DEF l, k, ch, u
  <2>4. Comes(st, u, d, l, "none") \/ Comes(st, u, d, l, "err")
    BY <2>1, <2>2, AwaitIoWent
  <2> QED
    BY <2>3, <2>4 DEF Comes, Alike, u
<1> QED
  BY <1>1, <1>2

LEMMA ClosedConnectWent ==
    ASSUME NEW st, Whole(st), st.closed, NEW k \in Connectors, st.pc[k] = "idle"
    PROVE  LET u == ConnectProcess(st, k)
           IN  Went(st, u, {k}) /\ u.closed /\ u.pc[k] = "idle" /\ u.bypass = st.bypass
<1>0. k \in Coro
  BY Channels
<1>1. CASE st.connecting
  <2>1. ConnectProcess(st, k) = st
    BY <1>1 DEF ConnectProcess
  <2>2. Went(st, st, {k})
    BY DEF Went, Ran, Calm
  <2> QED
    BY <2>1, <2>2
<1>2. CASE ~st.connecting
  <2> DEFINE a == CloseSock(st, "process")
             b == [a EXCEPT !.connecting = TRUE, !.handled = [d \in Dir |-> 0]]
             c == Cancel(b, "detect")
             u == Return(c, k)
  <2>1. /\ Went(st, a, {}) /\ a.closed /\ Whole(a) /\ a.bypass = st.bypass
    BY CloseSockRan DEF Sock, Alike, Went, Ran
  <2> HIDE DEF a
  <2>2. /\ b = [f \in DOMAIN b |-> b[f]] /\ DOMAIN b = DOMAIN a
        /\ b.runq = a.runq /\ b.wait = a.wait /\ b.pc = a.pc /\ b.res = a.res /\ b.sock = a.sock
        /\ b.closed /\ b.bypass = a.bypass /\ b.stored = a.stored /\ b.data = a.data
        /\ b.cut = a.cut /\ b.broken = a.broken /\ b.msg = a.msg
        /\ \A d \in Dir : b.handled[d] = 0
    <3>1. a = [f \in DOMAIN a |-> a[f]] /\ DOMAIN a = Parts
      BY <2>1 DEF Whole, Ready
    <3> QED
      BY <2>1, <3>1 DEF Parts
  <2> HIDE DEF b
  <2>3. Whole(b)
    <3>1. b.sock = [j \in Sock |-> b.sock[j]]
      BY <2>1, <2>2 DEF Whole
    <3> QED
      BY <2>1, <2>2, <3>1, WholeAside
  <2>4. Went(a, b, {})
    <3>1. Ran(a, b, {})
      BY <2>1, <2>2, <2>3, AsideRan
    <3> QED
      BY <2>2, <3>1 DEF Went, Calm
  <2>5. Went(b, c, {}) /\ c.closed /\ Whole(c) /\ c.bypass = b.bypass
    BY <2>2, <2>3, CancelDetectWent DEF Alike, Went, Ran
  <2> HIDE DEF c
  <2>6. Went(c, u, {k}) /\ u.closed /\ u.pc[k] = "idle" /\ u.bypass = c.bypass
    BY <1>0, <2>5, ReturnWent DEF Comes, Alike
  <2> HIDE DEF u
  <2>7. Went(st, u, {k})
    <3>1. Went(st, b, {} \cup {})
      BY <2>1, <2>4, WentThen
    <3>2. Went(st, c, ({} \cup {}) \cup {})
      BY <2>5, <3>1, WentThen
    <3>3. Went(st, u, (({} \cup {}) \cup {}) \cup {k})
      BY <2>6, <3>2, WentThen
    <3>4. (({} \cup {}) \cup {}) \cup {k} = {k}
      OBVIOUS
    <3> QED
      BY <3>3, <3>4
  <2>8. TryConnect(c, k) = u
    BY <2>5 DEF TryConnect, u
  <2>9. ConnectProcess(st, k) = u
    BY <1>2, <2>8 DEF ConnectProcess, c, b, a
  <2> QED
    BY <2>1, <2>2, <2>5, <2>6, <2>7, <2>9
<1> QED
  BY <1>1, <1>2

\* A write to the process fails only when the session is closed: nothing is
\* written then, and nobody is connected.
LEMMA ClosedSendFailedWent ==
    ASSUME NEW st, Whole(st), st.closed, NEW d \in Dir, st.sock[To[d]] # "conn",
           NEW k \in Connectors, st.pc[k] = "idle"
    PROVE  LET u == SendFailed(st, d, k)
           IN  /\ Went(st, u, {d, k}) /\ u.closed /\ u.pc[k] = "idle"
               /\ u.pc[d] \in {"idle", "dread", "flush"}
               /\ u.pc[d] = "flush" => u.res[d] = "err"
<1> DEFINE s == EnableBypass(st)
<1>0. k # d
  BY FramesAreDistinct
<1>1. /\ s = [f \in DOMAIN s |-> s[f]] /\ DOMAIN s = DOMAIN st
      /\ s.runq = st.runq /\ s.wait = st.wait /\ s.pc = st.pc /\ s.res = st.res /\ s.sock = st.sock
      /\ s.closed /\ s.bypass /\ s.stored = st.stored /\ s.data = st.data
      /\ s.cut = st.cut /\ s.broken = st.broken /\ s.msg = st.msg /\ s.handled = st.handled
  <2>1. st = [f \in DOMAIN st |-> st[f]] /\ DOMAIN st = Parts
    BY DEF Whole, Ready
  <2> QED
    BY <2>1 DEF Parts, EnableBypass
<1> HIDE DEF s
<1>2. Whole(s)
  <2>1. s.sock = [j \in Sock |-> s.sock[j]]
    BY <1>1 DEF Whole
  <2> QED
    BY <1>1, <2>1, WholeAside
<1>3. Went(st, s, {})
  <2>1. Ran(st, s, {})
    BY <1>1, <1>2, AsideRan
  <2> QED
    BY <1>1, <2>1 DEF Went, Calm
<1>4. CASE s.stored[d] = <<>>
  <2> DEFINE a == ConnectProcess(s, k)
             u == NextRound(a, d)
  <2>1. Went(s, a, {k}) /\ a.closed /\ a.pc[k] = "idle" /\ a.bypass /\ Whole(a)
    BY <1>1, <1>2, ClosedConnectWent DEF Went, Ran
  <2> HIDE DEF a
  <2>2. /\ Went(a, u, {d}) /\ u.pc[d] \in {"idle", "dread", "pread", "notify"}
        /\ u.pc[d] \in {"pread", "notify"} => ~u.bypass
        /\ u.pc[d] # "idle" => u.bypass = a.bypass
    BY <2>1, NextRoundWent, ZenonT(30)
  <2> HIDE DEF u
  <2>3. u.closed /\ u.pc[k] = "idle"
    BY <1>0, <2>1, <2>2, Channels DEF Went, Ran
  <2>4. Went(st, u, {d, k})
    <3>1. Went(st, a, {} \cup {k})
      BY <1>3, <2>1, WentThen
    <3>2. ({} \cup {k}) \cap {d} = {}
      BY <1>0
    <3>3. Went(st, u, ({} \cup {k}) \cup {d})
      BY <2>2, <3>1, <3>2, WentThen
    <3>4. ({} \cup {k}) \cup {d} = {d, k}
      OBVIOUS
    <3> QED
      BY <3>3, <3>4
  <2>5. SendFailed(st, d, k) = u
    BY <1>4 DEF SendFailed, Reconnect, u, a, s
  <2> QED
    BY <2>1, <2>2, <2>3, <2>4, <2>5
<1>5. CASE s.stored[d] # <<>>
  <2> DEFINE a == [s EXCEPT !.data[d] = Bytes(s.stored[d])]
             u == AwaitIo(a, d, "flush", To[d], Wr[To[d]])
  <2>1. /\ a = [f \in DOMAIN a |-> a[f]] /\ DOMAIN a = DOMAIN s
        /\ a.runq = s.runq /\ a.wait = s.wait /\ a.pc = s.pc /\ a.res = s.res /\ a.sock = s.sock
        /\ a.closed /\ a.bypass /\ a.stored = s.stored
        /\ a.cut = s.cut /\ a.broken = s.broken /\ a.msg = s.msg /\ a.handled = s.handled
        /\ \A c : c # d => a.data[c] = s.data[c]
    <3>1. s = [f \in DOMAIN s |-> s[f]] /\ DOMAIN s = Parts
      BY <1>2 DEF Whole, Ready
    <3> QED
      BY <1>1, <3>1 DEF Parts
  <2> HIDE DEF a
  <2>2. Whole(a)
    <3>1. a.sock = [j \in Sock |-> a.sock[j]]
      BY <1>2, <2>1 DEF Whole
    <3> QED
      BY <1>2, <2>1, <3>1, WholeAside
  <2>3. /\ Went(a, u, {d}) /\ u.pc[d] = "flush" /\ u.closed /\ u.res[d] = "err"
    <3>1. /\ "flush" \in Label /\ Wr[To[d]] \in Chan /\ Wr[To[d]] # "detect"
          /\ Spot("flush", d, a.msg) = Wr[To[d]]
      BY Channels, Spots
    <3>2. Comes(a, u, d, "flush", "err")
      BY <1>1, <2>1, <2>2, <3>1, AwaitIoWent
    <3> QED
      BY <2>1, <3>2 DEF Comes, Alike
  <2> HIDE DEF u
  <2>4. Ran(s, a, {})
    BY <1>1, <1>2, <2>1, <2>2, AsideRan
  <2>6. Went(st, u, {d, k})
    <3>1. Ran(st, a, {} \cup {})
      BY <1>3, <2>4, RanThen DEF Went
    <3>2. Ran(st, u, ({} \cup {}) \cup {d})
      BY <2>3, <3>1, RanThen DEF Went
    <3>3. Calm(st, u, {d, k})
      BY <1>3, <2>1, <2>3 DEF Went, Calm
    <3>4. Ran(st, u, {d, k})
      BY <3>2 DEF Ran
    <3> QED
      BY <3>3, <3>4 DEF Went
  <2>7. u.pc[k] = "idle"
    BY <1>0, <1>1, <2>1, <2>3, Channels DEF Went, Ran
  <2>8. SendFailed(st, d, k) = u
    BY <1>5 DEF SendFailed, Flush, u, a, s
  <2> QED
    BY <2>3, <2>6, <2>7, <2>8
<1> QED
  BY <1>4, <1>5

LEMMA DetectWent ==
    ASSUME NEW st, Whole(st), NEW t \in Detectors
    PROVE  LET u == Detect(st, t)
           IN  /\ Went(st, u, {t}) /\ Alike(st, u) /\ u.sock = st.sock
               /\ u.pc[t] \in {"idle", "wait"} /\ u.res[t] = "none"
<1>0. t \in Coro
  BY Channels
<1>1. CASE st.closed \/ st.connecting
  BY <1>0, <1>1, ReturnWent DEF Detect, Comes
<1>2. CASE ~(st.closed \/ st.connecting)
  <2> DEFINE a == Cancel(st, "detect")
             u == Await(a, t, "wait", "detect")
  <2>1. Went(st, a, {}) /\ Whole(a) /\ Alike(st, a) /\ a.sock = st.sock
    BY CancelDetectWent DEF Went, Ran
  <2> HIDE DEF a
  <2>2. Went(a, u, {t}) /\ Alike(a, u) /\ u.sock = a.sock /\ u.pc[t] = "wait" /\ u.res[t] = "none"
    <3>1. Spot("wait", t, a.msg) = "detect" /\ "wait" \in Label /\ "detect" \in Chan
      BY Channels, Spots
    <3>2. Comes(a, u, t, "wait", "none")
      BY <1>0, <2>1, <3>1, AwaitWent
    <3> QED
      BY <3>2 DEF Comes
  <2> HIDE DEF u
  <2>3. Went(st, u, {} \cup {t}) /\ {} \cup {t} = {t}
    BY <2>1, <2>2, WentThen
  <2>4. Detect(st, t) = u
    BY <1>2 DEF Detect, u, a
  <2> QED
    BY <2>1, <2>2, <2>3, <2>4 DEF Alike
<1> QED
  BY <1>1, <1>2

LEMMA ServedWent ==
    ASSUME NEW st, Whole(st), NEW k \in Connectors, NEW r \in Readers, NEW t \in Detectors
    PROVE  LET u == Served(st, k, r, t)
           IN  /\ Went(st, u, {r, t, k}) /\ u.closed = st.closed
               /\ u.pc[k] = "idle" /\ u.pc[r] = "head" /\ u.pc[t] \in {"idle", "wait"}
               /\ u.res[k] = "none" /\ u.res[t] \in {"none", "err"}
               /\ u.res[r] \in {"none", "err"}
               /\ u.res[r] = "err" => u.closed \/ st.sock["process"] # "conn"
<1> DEFINE a == ReadHead(st, r)
           b == Detect(a, t)
           u == Return(b, k)
<1>0. /\ r # t /\ r # k /\ t # k /\ r \notin Detectors /\ k \notin Detectors
      /\ r \in Coro /\ t \in Coro /\ k \in Coro
  BY FramesAreDistinct, Channels
<1>1. /\ Went(st, a, {r}) /\ Whole(a) /\ Alike(st, a) /\ a.sock = st.sock /\ a.pc[r] = "head"
      /\ a.res[r] = IF st.sock["process"] = "conn" THEN "none" ELSE "err"
  <2>1. /\ "head" \in Label /\ "processRd" \in Chan /\ "processRd" # "detect"
        /\ Spot("head", r, st.msg) = "processRd"
    BY Channels, Spots
  <2>2. a = AwaitIo(st, r, "head", "process", "processRd")
    BY DEF ReadHead
  <2> HIDE DEF a
  <2>3. /\ st.sock["process"] = "conn" => Comes(st, a, r, "head", "none")
        /\ st.sock["process"] # "conn" => Comes(st, a, r, "head", "err")
    BY <2>1, <2>2, AwaitIoWent
  <2> QED
    BY <2>3 DEF Went, Ran, Comes
<1> HIDE DEF a
<1>2. /\ Went(a, b, {t}) /\ Whole(b) /\ Alike(a, b) /\ b.sock = a.sock
      /\ b.pc[t] \in {"idle", "wait"} /\ b.res[t] = "none"
  <2>1. /\ Went(a, b, {t}) /\ Alike(a, b) /\ b.sock = a.sock
        /\ b.pc[t] \in {"idle", "wait"} /\ b.res[t] = "none"
    BY <1>1, DetectWent
  <2> QED
    BY <2>1 DEF Went, Ran
<1> HIDE DEF b
<1>3. /\ Went(b, u, {k}) /\ Alike(b, u) /\ u.pc[k] = "idle" /\ u.res[k] = "none"
  BY <1>0, <1>2, ReturnWent DEF Comes
<1> HIDE DEF u
<1>4. Went(st, u, {r, t, k})
  <2>1. {r} \cap {t} = {} /\ ({r} \cup {t}) \cap {k} = {} /\ ({r} \cup {t}) \cup {k} = {r, t, k}
    BY <1>0
  <2>2. Went(st, b, {r} \cup {t})
    BY <1>1, <1>2, <2>1, WentThen
  <2>3. Went(st, u, ({r} \cup {t}) \cup {k})
    BY <1>3, <2>1, <2>2, WentThen
  <2> QED
    BY <2>1, <2>3
<1>5. u.closed = st.closed
  BY <1>1, <1>2, <1>3 DEF Alike
<1>6. u.pc[r] = "head" /\ u.pc[t] \in {"idle", "wait"}
  BY <1>0, <1>1, <1>2, <1>3 DEF Went, Ran
<1>7. /\ u.res[t] \in {"none", "err"}
      /\ u.res[r] = a.res[r] \/ (u.res[r] = "err" /\ u.closed)
  BY <1>0, <1>1, <1>2, <1>3 DEF Went, Ran
<1> QED
  BY <1>0, <1>1, <1>2, <1>3, <1>4, <1>5, <1>6, <1>7 DEF Served, u, b, a

-----------------------------------------------------------------------------
(***************************************************************************)
(* The inductive invariant of the session.                                 *)
(***************************************************************************)
\* connect_process starts the reader with its last step, and returns.
Single(st) ==
    \A c, e \in Connectors \cup Readers : st.pc[c] # "idle" /\ st.pc[e] # "idle" => c = e

\* What a coroutine cannot meet when nothing goes wrong: stored data is never
\* flushed, the process connection fails only in a session that is closed,
\* and the detector is never taken for the one of a dead process.  While the
\* session is open, everything but connect_process is past the bypass.
Fit(st, c) ==
    /\ c \in Dir => /\ st.pc[c] \in {"idle", "dread", "dwrite", "pread", "pwrite", "notify", "flush"}
                    /\ st.pc[c] = "flush" => st.closed /\ st.res[c] = "err"
                    /\ st.pc[c] = "pwrite" /\ st.res[c] = "err" => st.closed
    /\ c \notin Readers => st.pc[c] \notin {"wnew", "wfwd"}
    /\ c \in Readers => /\ st.pc[c] \in {"idle", "head", "body", "wnew", "wfwd"}
                        /\ st.pc[c] \in {"head", "body"} /\ st.res[c] = "err" => st.closed
    /\ c \in Detectors /\ st.pc[c] # "idle" /\ ~st.closed => st.res[c] # "ok" /\ ~st.bypass
    /\ c \in Readers /\ st.pc[c] # "idle" /\ ~st.closed => ~st.bypass
    /\ c \in Dir /\ st.pc[c] \in {"pread", "pwrite", "notify"} /\ ~st.closed => ~st.bypass
    /\ c = "res" /\ ResponseBypass /\ ~st.closed => st.pc[c] \notin {"pread", "pwrite"}
    /\ c \in Connectors /\ st.pc[c] = "tuple" /\ ~st.closed => ~st.bypass
    /\ c \in Connectors /\ st.pc[c] \in {"connect", "retry"} /\ ~st.closed =>
           st.bypass /\ (st.sock["process"] = "conn" <=> st.pc[c] = "connect" /\ st.res[c] = "ok")
    /\ c = "setup" /\ st.pc[c] # "idle" /\ ~st.closed => st.bypass

Steady(st) ==
    /\ ~st.broken
    /\ ~st.closed /\ ~st.bypass => st.sock["process"] = "conn"
    /\ \A c \in Coro : Fit(st, c)

\* The reader works on an answer for d, and has taken packets for it.
Has(st, r, d) ==
    /\ st.msg[r].type = d
    /\ \/ st.pc[r] \in {"body", "wnew", "wfwd"}
       \/ st.pc[r] = "head" /\ st.res[r] = "ok"

Takes(st, r, d) == st.msg[r].type = d /\ st.pc[r] = "wfwd"

\* An answer is never behind the bytes that were handled before.
Behind(st) == \A r \in Readers, d \in Dir : Has(st, r, d) => st.handled[d] <= st.msg[r].total

\* The reader has taken the first n bytes of q: the packets that end up to m,
\* and the part of the next one that follows m.
First(q, out, cut) ==
    LET n == Len(out)
        m == n - cut.used
    IN  /\ cut.used \in Nat /\ m \in Nat /\ n <= Len(q)
        /\ \A i \in 1..n : out[i] = q[i].b
        /\ m = 0 \/ q[m].end
        /\ cut.pkts = Cardinality({e \in Ends(q) : e <= m})
        /\ \A i \in (m + 1)..(n - 1) : ~q[i].end

Prefix(st) ==
    \A r \in Readers, d \in Dir :
        Takes(st, r, d) => First(st.stored[d], st.data[r], st.cut[r])

Steered(st) == Placed(st) /\ Single(st) /\ Steady(st) /\ Behind(st) /\ Prefix(st)

-----------------------------------------------------------------------------
(***************************************************************************)
(* The inductive invariant of a session st and its connection l.           *)
(***************************************************************************)
\* There is a process behind the connection as long as there is one.
Linked(st, l) ==
    /\ l.st = IF st.sock["process"] = "conn" THEN "ok" ELSE "none"
    /\ l.st = "none" => l = NoLink

\* Something of direction d is on its way to the process or back.
Downstream(st, l, d) ==
    \/ st.stored[d] # <<>>
    \/ l.seen[d] # <<>>
    \/ \E i \in 1..Len(l.toProc) : l.toProc[i].kind = d /\ l.toProc[i].bytes # <<>>
    \/ \E i \in 1..Len(l.fromProc) : l.fromProc[i].type = d
    \/ \E r \in Readers : Has(st, r, d)

\* Then its loop does not write to the other side itself.
Diverted(st, l) ==
    ~st.closed => \A d \in Dir : Downstream(st, l, d) => st.pc[d] \in {"pread", "pwrite"}

\* New data follows a head that announces it, and nothing else does.
Announces(m) == m.type # "body" /\ m.new

ExpectsBody(st, r) ==
    \/ st.pc[r] = "head" /\ st.res[r] = "ok" /\ st.msg[r].type \in Dir /\ st.msg[r].new
    \/ st.pc[r] = "body" /\ st.res[r] = "none"

Paired(st, l) ==
    ~st.closed =>
        LET q == l.fromProc
        IN  /\ \A i \in 1..Len(q) :
                   q[i].type = "body" <=> \/ i = 1 /\ \E r \in Readers : ExpectsBody(st, r)
                                          \/ i > 1 /\ Announces(q[i - 1])
            /\ \A r \in Readers : ExpectsBody(st, r) => q # <<>>
            /\ q # <<>> => ~Announces(q[Len(q)])
            /\ \A i \in 1..Len(q) : q[i].type = "hb" => ~q[i].new

\* The totals of a direction grow along the way back of its answers, and none
\* is beyond what the process has seen.
Totals(st, l) ==
    ~st.closed => \A d \in Dir :
        LET q == l.fromProc
            Of(i) == i \in 1..Len(q) /\ q[i].type = d
        IN  /\ st.handled[d] <= l.acked[d]
            /\ l.acked[d] <= Len(l.seen[d])
            /\ \A i \in 1..Len(q) : Of(i) => st.handled[d] <= q[i].total /\ q[i].total <= l.acked[d]
            /\ \A i, j \in 1..Len(q) : Of(i) /\ Of(j) /\ i < j => q[i].total <= q[j].total
            /\ \A r \in Readers : Has(st, r, d) =>
                   /\ st.msg[r].total <= l.acked[d]
                   /\ \A i \in 1..Len(q) : Of(i) => st.msg[r].total <= q[i].total

Fed(st, l) == Diverted(st, l) /\ Paired(st, l) /\ Totals(st, l)

Free == faults = 0 /\ Steered(ses) /\ Linked(ses, link) /\ Fed(ses, link)

-----------------------------------------------------------------------------
(***************************************************************************)
(* What goes on as before.                                                 *)
(***************************************************************************)
LEMMA PlacedOn ==
    ASSUME NEW st, NEW u, NEW X, Placed(st), Ran(st, u, X),
           \A c \in X \cap Coro, ch \in Chan : Waits(st, ch, c) => u.pc[c] = st.pc[c]
    PROVE  Placed(u)
<1> SUFFICES ASSUME NEW ch \in Chan, NEW c \in Coro, Waits(u, ch, c)
             PROVE  Spot(u.pc[c], c, u.msg) = ch
  BY DEF Placed
<1>1. CASE Waits(st, ch, c)
  <2>1. u.pc[c] = st.pc[c] /\ u.msg = st.msg
    BY <1>1 DEF Ran
  <2> QED
    BY <1>1, <2>1 DEF Placed
<1>2. CASE ~Waits(st, ch, c)
  BY <1>2 DEF Ran
<1> QED
  BY <1>1, <1>2

LEMMA FitOn ==
    ASSUME NEW st, NEW u, NEW X, Went(st, u, X), NEW c \in Coro \ X, Fit(st, c), Whole(st)
    PROVE  Fit(u, c)
<1>1. /\ u.pc[c] = st.pc[c] /\ (st.closed => u.closed)
      /\ u.res[c] = st.res[c] \/ (u.res[c] = "err" /\ (u.closed \/ c \in Detectors))
  BY DEF Went, Ran
<1>2. u.closed \/ (u.bypass = st.bypass /\ u.sock["process"] = st.sock["process"])
  BY DEF Went, Calm
<1>3. c \in Detectors => c \notin Dir /\ c \notin Readers /\ c \notin Connectors /\ c # "setup"
  BY FramesAreDistinct
<1> QED
  BY <1>1, <1>2, <1>3 DEF Fit

LEMMA SteadyOn ==
    ASSUME NEW st, NEW u, NEW X, Steady(st), Went(st, u, X), Whole(st),
           \A c \in X \cap Coro : Fit(u, c)
    PROVE  Steady(u)
<1>1. \A c \in Coro : Fit(u, c)
  BY FitOn DEF Steady
<1>2. ~u.broken /\ (~u.closed /\ ~u.bypass => u.sock["process"] = "conn")
  BY DEF Steady, Went, Ran, Calm
<1> QED
  BY <1>1, <1>2 DEF Steady

LEMMA SingleOn ==
    ASSUME NEW st, NEW u, NEW X, Single(st), Ran(st, u, X),
           NEW c \in X, st.pc[c] # "idle",
           \E x : \A e \in X \cap (Connectors \cup Readers) :
               u.pc[e] # "idle" => e = x /\ c \in Connectors \cup Readers
    PROVE  Single(u)
<1> SUFFICES ASSUME NEW a \in Connectors \cup Readers, NEW b \in Connectors \cup Readers,
                    u.pc[a] # "idle", u.pc[b] # "idle"
             PROVE  a = b
  BY DEF Single
<1>1. \A e \in (Connectors \cup Readers) \ X : u.pc[e] = st.pc[e]
  BY Channels DEF Ran
<1>2. CASE c \in Connectors \cup Readers
  <2>1. \A e \in (Connectors \cup Readers) \ X : u.pc[e] = "idle"
    BY <1>1, <1>2 DEF Single
  <2> QED
    BY <2>1
<1>3. CASE c \notin Connectors \cup Readers
  <2>1. a \notin X /\ b \notin X
    BY <1>3
  <2> QED
    BY <1>1, <2>1 DEF Single
<1> QED
  BY <1>2, <1>3

\* A reader that has not run holds no more than before.
LEMMA HasOn ==
    ASSUME NEW st, NEW u, NEW X, Ran(st, u, X), NEW r \in Readers \ X, NEW d
    PROVE  (Has(u, r, d) => Has(st, r, d)) /\ (Takes(u, r, d) <=> Takes(st, r, d))
<1>1. u.pc[r] = st.pc[r] /\ u.msg = st.msg /\ (u.res[r] = st.res[r] \/ u.res[r] = "err")
  BY Channels DEF Ran
<1> QED
  BY <1>1 DEF Has, Takes

LEMMA BehindOn ==
    ASSUME NEW st, NEW u, NEW X, Behind(st), Went(st, u, X),
           st.msg \in [Readers -> ResponseHead],
           \A r \in X \cap Readers, d \in Dir : Has(u, r, d) => Has(st, r, d)
    PROVE  Behind(u)
<1> SUFFICES ASSUME NEW r \in Readers, NEW d \in Dir, Has(u, r, d)
             PROVE  u.handled[d] <= u.msg[r].total
  BY DEF Behind
<1>1. Has(st, r, d) /\ u.msg = st.msg
  BY HasOn DEF Went, Ran
<1>2. st.msg[r].total \in Nat
  BY DEF ResponseHead
<1>3. u.handled[d] = st.handled[d] \/ u.handled[d] = 0
  BY DEF Went, Calm
<1> QED
  BY <1>1, <1>2, <1>3 DEF Behind

LEMMA PrefixOn ==
    ASSUME NEW st, NEW u, NEW X, Prefix(st), Went(st, u, X),
           \A r \in X \cap Readers, d \in Dir :
               Takes(u, r, d) => Takes(st, r, d) /\ u.data[r] = st.data[r] /\ u.cut[r] = st.cut[r]
    PROVE  Prefix(u)
<1> SUFFICES ASSUME NEW r \in Readers, NEW d \in Dir, Takes(u, r, d)
             PROVE  First(u.stored[d], u.data[r], u.cut[r])
  BY DEF Prefix
<1>1. Takes(st, r, d) /\ u.data[r] = st.data[r] /\ u.cut[r] = st.cut[r]
  BY HasOn DEF Went, Calm
<1>2. u.stored = st.stored
  BY DEF Went, Calm
<1> QED
  BY <1>1, <1>2 DEF Prefix

LEMMA DivertedOn ==
    ASSUME NEW st, NEW u, NEW X, NEW l, Diverted(st, l), Went(st, u, X),
           \A d \in X \cap Dir : ~u.closed /\ st.pc[d] \in {"pread", "pwrite"}
                                     => u.pc[d] \in {"pread", "pwrite"},
           \A r \in X \cap Readers, d \in Dir : ~u.closed /\ Has(u, r, d) => Has(st, r, d)
    PROVE  Diverted(u, l)
<1> SUFFICES ASSUME ~u.closed, NEW d \in Dir, Downstream(u, l, d)
             PROVE  u.pc[d] \in {"pread", "pwrite"}
  BY DEF Diverted
<1>1. ~st.closed /\ u.stored = st.stored
  BY DEF Went, Ran, Calm
<1>2. \A r \in Readers : Has(u, r, d) => Has(st, r, d)
  BY HasOn DEF Went
<1>3. Downstream(st, l, d)
  BY <1>1, <1>2 DEF Downstream
<1>4. st.pc[d] \in {"pread", "pwrite"}
  BY <1>1, <1>3 DEF Diverted
<1>5. d \notin X => u.pc[d] = st.pc[d]
  BY Channels DEF Went, Ran
<1> QED
  BY <1>4, <1>5

LEMMA PairedOn ==
    ASSUME NEW st, NEW u, NEW X, NEW l, Paired(st, l), Ran(st, u, X),
           \A r \in X \cap Readers : ~u.closed => (ExpectsBody(u, r) <=> ExpectsBody(st, r))
    PROVE  Paired(u, l)
<1> SUFFICES ASSUME ~u.closed PROVE Paired(u, l)
  BY DEF Paired
<1>1. ~st.closed
  BY DEF Ran
<1>2. ASSUME NEW r \in Readers PROVE ExpectsBody(u, r) <=> ExpectsBody(st, r)
  <2>1. CASE r \in X
    BY <2>1
  <2>2. CASE r \notin X
    <3>1. u.pc[r] = st.pc[r] /\ u.res[r] = st.res[r] /\ u.msg = st.msg
      BY <2>2, Channels, FramesAreDistinct DEF Ran
    <3> QED
      BY <3>1 DEF ExpectsBody
  <2> QED
    BY <2>1, <2>2
<1> QED
  BY <1>1, <1>2 DEF Paired

LEMMA TotalsOn ==
    ASSUME NEW st, NEW u, NEW X, NEW l, Totals(st, l), Went(st, u, X),
           \A r \in X \cap Readers, d \in Dir : ~u.closed /\ Has(u, r, d) => Has(st, r, d)
    PROVE  Totals(u, l)
<1> SUFFICES ASSUME ~u.closed PROVE Totals(u, l)
  BY DEF Totals
<1>1. ~st.closed /\ u.handled = st.handled /\ u.msg = st.msg
  BY DEF Went, Ran, Calm
<1>2. \A r \in Readers, d \in Dir : Has(u, r, d) => Has(st, r, d)
  BY HasOn DEF Went
<1> QED
  BY <1>1, <1>2 DEF Totals

LEMMA ClosedFed ==
    ASSUME NEW st, NEW l, st.closed
    PROVE  Fed(st, l)
BY DEF Fed, Diverted, Paired, Totals

\* All of the invariant, after a step of the coroutines of X, c among them.
LEMMA GoesOn ==
    ASSUME NEW st, NEW u, NEW X, Whole(st), st.msg \in [Readers -> ResponseHead],
           Steered(st), Went(st, u, X), NEW c \in X, st.pc[c] # "idle",
           \A e \in X \cap Coro, ch \in Chan : Waits(st, ch, e) => u.pc[e] = st.pc[e],
           \A e \in X \cap Coro : Fit(u, e),
           \E x : \A e \in X \cap (Connectors \cup Readers) :
               u.pc[e] # "idle" => e = x /\ c \in Connectors \cup Readers,
           \A r \in X \cap Readers, d \in Dir :
               /\ Has(u, r, d) => Has(st, r, d)
               /\ Takes(u, r, d) => Takes(st, r, d) /\ u.data[r] = st.data[r] /\ u.cut[r] = st.cut[r]
    PROVE  Steered(u)
<1>1. Placed(u)
  BY PlacedOn DEF Steered, Went
<1>2. Steady(u)
  BY SteadyOn DEF Steered
<1>3. Single(u)
  BY SingleOn DEF Steered, Went
<1>4. Behind(u)
  BY BehindOn DEF Steered
<1>5. Prefix(u)
  BY PrefixOn DEF Steered
<1> QED
  BY <1>1, <1>2, <1>3, <1>4, <1>5 DEF Steered

LEMMA FedOn ==
    ASSUME NEW st, NEW u, NEW X, NEW l, NEW m, u.closed \/ m = l, Fed(st, l), Went(st, u, X),
           \A d \in X \cap Dir : ~u.closed /\ st.pc[d] \in {"pread", "pwrite"}
                                     => u.pc[d] \in {"pread", "pwrite"},
           \A r \in X \cap Readers, d \in Dir : ~u.closed /\ Has(u, r, d) => Has(st, r, d),
           \A r \in X \cap Readers : ~u.closed => (ExpectsBody(u, r) <=> ExpectsBody(st, r))
    PROVE  Fed(u, m)
<1>1. CASE u.closed
  BY <1>1, ClosedFed
<1>2. CASE ~u.closed
  <2>1. Diverted(u, l)
    BY DivertedOn DEF Fed
  <2>2. Paired(u, l)
    BY PairedOn DEF Fed, Went
  <2>3. Totals(u, l)
    BY TotalsOn DEF Fed
  <2> QED
    BY <1>2, <2>1, <2>2, <2>3 DEF Fed
<1> QED
  BY <1>1, <1>2

\* What a handler makes of the connection to the process.
LEMMA LinkedOn ==
    ASSUME NEW u, NEW X, Linked(ses, link), Ran(ses, u, X), Becomes(u)
    PROVE  /\ Linked(u, link')
           /\ u.sock["process"] = ses.sock["process"] => link' = link
<1>1. link' = IF u.sock["process"] = "conn" THEN link ELSE NoLink
  BY DEF Becomes
<1>2. u.sock["process"] = "conn" => ses.sock["process"] = "conn"
  BY DEF Ran
<1>3. NoLink.st = "none"
  BY DEF NoLink
<1> QED
  BY <1>1, <1>2, <1>3 DEF Linked

\* What a handler of c finds.
LEMMA Starts ==
    ASSUME Inv, Order, NEW c, NEW ls, NEW x, Runs(c, ls, x), "idle" \notin ls
    PROVE  /\ Whole(ses) /\ Whole(st0) /\ Went(ses, st0, {}) /\ Alike(ses, st0)
           /\ st0.sock = ses.sock /\ st0.pc = ses.pc /\ st0.res = ses.res
           /\ c \in Coro /\ ses.pc[c] \in ls /\ ses.pc[c] # "idle" /\ ses.res[c] = x
           /\ \A ch \in Chan : ~Waits(ses, ch, c)
           /\ \A pool \in {Connectors, Readers, Detectors} : \A f \in Frame(ses, pool) :
                  f \in pool /\ ses.pc[f] = "idle"
           /\ \A e \in Coro : ses.pc[e] = "idle" => \A ch \in Chan : ~Waits(ses, ch, e)
           /\ ses.msg \in [Readers -> ResponseHead]
<1>1. Whole(ses)
  BY SaneWhole DEF Inv
<1>2. ses.runq # <<>> /\ c = Head(ses.runq) /\ ses.pc[c] \in ls /\ ses.res[c] = x
  BY DEF Runs
<1>3. /\ Whole(st0) /\ Went(ses, st0, {}) /\ Alike(ses, st0)
      /\ st0.sock = ses.sock /\ st0.pc = ses.pc /\ st0.res = ses.res
  BY <1>1, <1>2, PopWent, PopDoes DEF st0
<1>4. ses.runq \in Seq(Coro) /\ ses.wait \in [Chan -> Seq(Coro)]
  BY <1>1 DEF Whole, Ready
<1>5. c \in Coro /\ 1 \in 1..Len(ses.runq) /\ ses.runq[1] = c
  BY <1>2, <1>4
<1>6. /\ ses.res[c] # "none"
      /\ \A ch \in Chan : \A i \in 1..Len(ses.wait[ch]) :
             ses.pc[ses.wait[ch][i]] # "idle" /\ ses.res[ses.wait[ch][i]] = "none"
  BY <1>5 DEF Order, Orderly, Queued
<1>7. \A ch \in Chan, e \in Coro : Waits(ses, ch, e) => ses.pc[e] # "idle" /\ ses.res[e] = "none"
  BY <1>6 DEF Waits
<1>8. \A pool : \A f \in Frame(ses, pool) : f \in pool /\ ses.pc[f] = "idle"
  BY DEF Frame
<1>9. ses.msg \in [Readers -> ResponseHead]
  BY DEF Inv, Sane, Formed, SessionState
<1> QED
  BY <1>1, <1>2, <1>3, <1>5, <1>6, <1>7, <1>8, <1>9

\* A reader that holds no answer.
Rests(st, r) == st.pc[r] = "idle" \/ (st.pc[r] = "head" /\ st.res[r] # "ok")

LEMMA RestsHolds ==
    ASSUME NEW st, NEW r, Rests(st, r)
    PROVE  /\ \A d : ~Has(st, r, d) /\ ~Takes(st, r, d)
           /\ ~ExpectsBody(st, r)
BY DEF Rests, Has, Takes, ExpectsBody

LEMMA IdleFit ==
    ASSUME NEW st, NEW c, st.pc[c] = "idle"
    PROVE  Fit(st, c)
BY DEF Fit

\* The loop of d holds data that is not stored.
Carries(st, d) == \/ st.pc[d] \in {"dread", "pread"} /\ st.res[d] = "ok"
                  \/ st.pc[d] = "dwrite" /\ st.res[d] # "ok"

\* The loop of d writes stored data to the process.
Sends(st, d) == st.pc[d] = "pwrite" /\ st.res[d] = "none"

\* The reader has written what it has taken.
Done(st, r, d) == Takes(st, r, d) /\ st.res[r] = "ok"

SameLoop(st, u, d) ==
    /\ Carries(u, d) <=> Carries(st, d)
    /\ Sends(u, d) <=> Sends(st, d)
    /\ Carries(st, d) \/ Sends(st, d) => u.data[d] = st.data[d]

SameReader(st, u, r) ==
    /\ \A d \in Dir : /\ Has(u, r, d) <=> Has(st, r, d)
                      /\ Takes(u, r, d) <=> Takes(st, r, d)
                      /\ Done(u, r, d) <=> Done(st, r, d)
                      /\ Takes(st, r, d) => u.data[r] = st.data[r]
    /\ u.pc[r] = "wnew" => u.data[r] = <<0>> \/ (st.pc[r] = "wnew" /\ u.data[r] = st.data[r])

\* No coroutine gets hold of data or lets go of it.
Quiet(st, u) ==
    /\ u.stored = st.stored /\ u.msg = st.msg
    /\ \A d \in Dir : u.handled[d] = st.handled[d]
    /\ \A d \in Dir : SameLoop(st, u, d)
    /\ \A r \in Readers : SameReader(st, u, r)

\* A handler that moves nothing, or closes the session.  The first connection
\* to the process is looked for when there is nothing to move yet.
Unmoved ==
    /\ UNCHANGED outside
    /\ \/ ses'.closed
       \/ /\ Quiet(ses, ses')
          /\ \/ link' = link
             \/ link' = NoLink /\ \A d \in Dir : ~Downstream(ses, link, d)

\* Only c gets hold of data or lets go of it.
Others(st, u, c) ==
    /\ u.msg = st.msg
    /\ \A d \in Dir \ {c} : SameLoop(st, u, d)
    /\ \A r \in Readers \ {c} : SameReader(st, u, r)

\* The loop of d stores what it has read and sends it to the process.
Stores(st, u, d) ==
    /\ Others(st, u, d)
    /\ Carries(st, d) /\ Sends(u, d) /\ u.data[d] = st.data[d]
    /\ u.stored[d] = st.stored[d] \o Packet(st.data[d])
    /\ \A e \in Dir : u.handled[e] = st.handled[e] /\ (e # d => u.stored[e] = st.stored[e])

\* The reader drops what it has written.
Clears(st, u, r, d) ==
    /\ Others(st, u, r)
    /\ Done(st, r, d) /\ Rests(u, r)
    /\ u.stored[d] = SubSeq(st.stored[d], Len(st.data[r]) + 1, Len(st.stored[d]))
    /\ \A e \in Dir : u.handled[e] = st.handled[e] /\ (e # d => u.stored[e] = st.stored[e])

\* The reader takes from the front of the deque what its answer covers.
TakesUp(st, u, r, d) ==
    LET q == st.stored[d]
        C == Covered(q, st.handled[d], st.msg[r].total)
        m == Upto(q, C)
        used == IF m < Len(q) THEN st.msg[r].total - (st.handled[d] + m) ELSE 0
    IN  /\ Others(st, u, r)
        /\ Has(st, r, d) /\ ~Takes(st, r, d) /\ st.msg[r].act # "block"
        /\ Takes(u, r, d) /\ (Done(u, r, d) => u.data[r] = <<>>)
        /\ u.data[r] = Bytes(SubSeq(q, 1, m + used)) /\ used \in Nat
        /\ u.handled[d] = st.handled[d] + m
        /\ \A e \in Dir : u.stored[e] = st.stored[e] /\ (e # d => u.handled[e] = st.handled[e])

LEMMA LoopOn ==
    ASSUME NEW st, NEW u, NEW X, Went(st, u, X), ~u.closed, NEW d \in Dir \ X
    PROVE  SameLoop(st, u, d) /\ u.pc[d] = st.pc[d] /\ u.res[d] = st.res[d] /\ u.data[d] = st.data[d]
<1>1. d \in Coro \ X /\ d \notin Detectors
  BY Apart, Channels
<1>2. u.pc[d] = st.pc[d] /\ u.res[d] = st.res[d]
  BY <1>1 DEF Went, Ran
<1>3. u.data[d] = st.data[d]
  BY DEF Went, Calm
<1> QED
  BY <1>2, <1>3 DEF SameLoop, Carries, Sends

LEMMA ReaderOn ==
    ASSUME NEW st, NEW u, NEW X, Went(st, u, X), ~u.closed, NEW r \in Readers \ X
    PROVE  SameReader(st, u, r) /\ u.pc[r] = st.pc[r] /\ u.res[r] = st.res[r] /\ u.data[r] = st.data[r]
<1>1. r \in Coro \ X /\ r \notin Detectors
  BY Apart, Channels
<1>2. u.pc[r] = st.pc[r] /\ u.res[r] = st.res[r] /\ u.msg = st.msg
  BY <1>1 DEF Went, Ran
<1>3. u.data[r] = st.data[r]
  BY DEF Went, Calm
<1> QED
  BY <1>2, <1>3 DEF SameReader, Has, Takes, Done

LEMMA QuietOn ==
    ASSUME NEW st, NEW u, NEW X, Went(st, u, X), ~u.closed,
           \A d \in X \cap Dir : SameLoop(st, u, d),
           \A r \in X \cap Readers : SameReader(st, u, r)
    PROVE  Quiet(st, u)
<1>1. \A d \in Dir : SameLoop(st, u, d)
  BY LoopOn
<1>2. \A r \in Readers : SameReader(st, u, r)
  BY ReaderOn
<1>3. /\ u.stored = st.stored /\ u.msg = st.msg
      /\ \A d \in Dir : u.handled[d] = st.handled[d]
  BY DEF Went, Ran, Calm
<1> QED
  BY <1>1, <1>2, <1>3 DEF Quiet

LEMMA OthersOn ==
    ASSUME NEW st, NEW b, NEW u, NEW c, Went(b, u, {c}), ~u.closed,
           b.pc = st.pc, b.res = st.res, b.msg = st.msg,
           \A e \in (Dir \cup Readers) \ {c} : b.data[e] = st.data[e]
    PROVE  Others(st, u, c)
<1>1. \A d \in Dir \ {c} : SameLoop(b, u, d)
  BY LoopOn
<1>2. \A r \in Readers \ {c} : SameReader(b, u, r)
  BY ReaderOn
<1>3. \A d \in Dir \ {c} : SameLoop(st, u, d)
  BY <1>1 DEF SameLoop, Carries, Sends
<1>4. \A r \in Readers \ {c} : SameReader(st, u, r)
  BY <1>2 DEF SameReader, Has, Takes, Done
<1> QED
  BY <1>3, <1>4 DEF Others, Went, Ran

\* The same, from a session that differs elsewhere.
LEMMA QuietFrom ==
    ASSUME NEW st, NEW b, NEW u, Quiet(b, u), b.pc = st.pc, b.res = st.res, b.data = st.data,
           b.msg = st.msg, b.stored = st.stored, b.handled = st.handled
    PROVE  Quiet(st, u)
<1>1. \A d \in Dir : SameLoop(st, u, d)
  BY DEF Quiet, SameLoop, Carries, Sends
<1>2. \A r \in Readers : SameReader(st, u, r)
  BY DEF Quiet, SameReader, Has, Takes, Done
<1> QED
  BY <1>1, <1>2 DEF Quiet

\* A handler that moves no data.
LEMMA RunsOn ==
    ASSUME Inv, Order, Free, NEW c, NEW ls, NEW x, Runs(c, ls, x), "idle" \notin ls,
           NEW u, NEW X, Went(st0, u, X), Becomes(u), c \in X,
           \A e \in X \cap Coro : e = c \/ ses.pc[e] = "idle",
           \A e \in X \cap Coro : Fit(u, e),
           \E y : \A e \in X \cap (Connectors \cup Readers) :
               u.pc[e] # "idle" => e = y /\ c \in Connectors \cup Readers,
           \A d \in X \cap Dir : ~u.closed /\ ses.pc[d] \in {"pread", "pwrite"}
                                     => u.pc[d] \in {"pread", "pwrite"},
           \A r \in X \cap Readers : \/ Rests(u, r) /\ (u.closed \/ ~ExpectsBody(ses, r))
                                     \/ /\ \A d \in Dir : ~Takes(u, r, d) /\ (Has(u, r, d) => Has(ses, r, d))
                                        /\ u.closed \/ (ExpectsBody(u, r) <=> ExpectsBody(ses, r)),
           u.closed \/ \A d \in X \cap Dir : SameLoop(ses, u, d),
           u.closed \/ \A r \in X \cap Readers : SameReader(ses, u, r)
    PROVE  Free' /\ Unmoved
<1>1. /\ Whole(ses) /\ Went(ses, st0, {}) /\ c \in Coro /\ ses.pc[c] # "idle"
      /\ \A e \in Coro : e = c \/ ses.pc[e] = "idle" => \A ch \in Chan : ~Waits(ses, ch, e)
      /\ ses.msg \in [Readers -> ResponseHead]
  BY Starts
<1>2. Went(ses, u, X)
  <2>1. {} \cap X = {} /\ {} \cup X = X
    OBVIOUS
  <2>2. Went(ses, u, {} \cup X)
    BY <1>1, <2>1, WentThen
  <2> QED
    BY <2>1, <2>2
<1>3. \A r \in X \cap Readers, d \in Dir :
          ~Takes(u, r, d) /\ (Has(u, r, d) => Has(ses, r, d))
  BY RestsHolds
<1>4. \A r \in X \cap Readers : ~u.closed => (ExpectsBody(u, r) <=> ExpectsBody(ses, r))
  BY RestsHolds
<1>5. Steered(u)
  BY <1>1, <1>2, <1>3, GoesOn DEF Free
<1>6. Linked(u, link') /\ (u.closed \/ link' = link)
  BY <1>2, LinkedOn DEF Free, Went, Calm
<1>7. Fed(u, link')
  BY <1>2, <1>3, <1>4, <1>6, FedOn DEF Free
<1>8. ses' = u /\ faults' = faults /\ UNCHANGED outside
  BY DEF Becomes, outside
<1>9. u.closed \/ Quiet(ses, u)
  BY <1>2, QuietOn
<1> QED
  BY <1>5, <1>6, <1>7, <1>8, <1>9 DEF Free, Unmoved

-----------------------------------------------------------------------------
(***************************************************************************)
(* The handlers.                                                           *)
(***************************************************************************)
LEMMA SetupFree ==
    ASSUME Inv, Order, Free, Resolved \/ SetupFails
    PROVE  Free' /\ Unmoved
<1>1. PICK ls, x : Runs("setup", ls, x) /\ "idle" \notin ls
  BY DEF Resolved, SetupFails
<1>2. /\ Whole(st0) /\ Alike(ses, st0) /\ st0.sock = ses.sock /\ "setup" \in Coro
      /\ st0.pc = ses.pc /\ ses.pc["setup"] # "idle"
  BY <1>1, Starts
<1>3. "setup" \notin Dir /\ {"setup"} \cap Dir = {} /\ {"setup"} \cap Readers = {}
      /\ {"setup"} \cap (Connectors \cup Readers) = {} /\ "setup" \notin Detectors
  BY FramesAreDistinct DEF Dir
<1>4. ~ses.closed /\ ses.bypass
  BY <1>2, Channels DEF Inv, SetupAlone, Free, Steered, Steady, Fit
<1>5. ASSUME NEW u, Went(st0, u, {"setup"}), Becomes(u), Fit(u, "setup")
      PROVE  Free' /\ Unmoved
  BY <1>1, <1>3, <1>5, RunsOn
<1>6. CASE Resolved
  <2> DEFINE s == [st0 EXCEPT !.sock["server"] = "open"]
             u == Await(s, "setup", "dial", "serverWr")
  <2>0. st0 = [f \in DOMAIN st0 |-> st0[f]] /\ DOMAIN st0 = Parts /\ st0.sock = [k \in Sock |-> st0.sock[k]]
    BY <1>2 DEF Whole, Ready
  <2>1. /\ s = [f \in DOMAIN s |-> s[f]] /\ DOMAIN s = DOMAIN st0
        /\ s.runq = st0.runq /\ s.wait = st0.wait /\ s.pc = st0.pc /\ s.res = st0.res
        /\ s.sock = [st0.sock EXCEPT !["server"] = "open"] /\ Alike(st0, s)
    BY <2>0 DEF Parts, Alike
  <2> HIDE DEF s
  <2>2. s.sock = [k \in Sock |-> s.sock[k]] /\ s.sock["process"] = st0.sock["process"]
    BY <2>0, <2>1 DEF Sock
  <2>3. Whole(s)
    BY <1>2, <2>1, <2>2, WholeAside
  <2>4. Went(st0, s, {})
    <3>1. Ran(st0, s, {})
      BY <1>2, <2>1, <2>2, <2>3, AsideRan DEF Alike
    <3> QED
      BY <2>1, <2>2, <3>1 DEF Went, Calm, Alike
  <2>5. Comes(s, u, "setup", "dial", "none")
    <3>1. /\ "dial" \in Label /\ "serverWr" \in Chan /\ "serverWr" # "detect" /\ "setup" \in Coro
          /\ Spot("dial", "setup", s.msg) = "serverWr"
      BY Channels, Spots
    <3> QED
      BY <1>3, <2>3, <3>1, AwaitWent
  <2>6. Becomes(u)
    BY <1>6 DEF Resolved, s
  <2> HIDE DEF u
  <2>7. Went(st0, u, {} \cup {"setup"}) /\ {} \cup {"setup"} = {"setup"}
    BY <2>4, <2>5, WentThen DEF Comes
  <2>8. Fit(u, "setup")
    BY <1>2, <1>3, <1>4, <2>1, <2>5, FramesAreDistinct DEF Fit, Comes, Alike
  <2> QED
    BY <1>5, <2>6, <2>7, <2>8
<1>7. CASE SetupFails
  <2> DEFINE u == GiveUp(st0, "setup")
  <2>1. Went(st0, u, {"setup"}) /\ u.pc["setup"] = "idle"
    BY <1>2, GiveUpWent
  <2>2. Becomes(u)
    BY <1>7 DEF SetupFails
  <2> HIDE DEF u
  <2> QED
    BY <1>5, <2>1, <2>2, IdleFit
<1> QED
  BY <1>6, <1>7

\* The steps of the loops that neither store data nor flush it.
LEMMA LoopFree ==
    ASSUME Inv, Order, Free, NEW d \in Dir,
           ReadDirect(d) \/ ReadEof(d) \/ Written(d) \/ LoopFails(d) \/ Notified(d)
    PROVE  Free' /\ Unmoved
<1>1. PICK ls, x : Runs(d, ls, x) /\ "idle" \notin ls
  BY DEF ReadDirect, ReadEof, Written, LoopFails, Notified
<1>2. /\ Whole(st0) /\ Alike(ses, st0) /\ st0.sock = ses.sock /\ d \in Coro
      /\ st0.pc = ses.pc /\ st0.res = ses.res
  BY <1>1, Starts
<1>3. /\ d \notin Detectors /\ d # "setup" /\ d \notin Readers /\ d \notin Connectors
      /\ {d} \cap Readers = {} /\ {d} \cap (Connectors \cup Readers) = {}
  <2>1. d \notin Detectors /\ d # "setup" /\ d \notin Readers /\ d \notin Connectors
    BY Apart
  <2> QED
    BY <2>1
<1>4. ASSUME NEW u, Went(st0, u, {d}), Becomes(u), Fit(u, d),
             ~u.closed /\ ses.pc[d] \in {"pread", "pwrite"} => u.pc[d] \in {"pread", "pwrite"},
             u.closed \/ SameLoop(ses, u, d)
      PROVE  Free' /\ Unmoved
  BY <1>1, <1>3, <1>4, RunsOn
<1>5. Fit(ses, d)
  BY <1>2 DEF Free, Steered, Steady
<1>6. CASE ReadDirect(d)
  <2> DEFINE u == WriteDirect(st0, d)
  <2>1. Becomes(u) /\ ses.pc[d] = "dread" /\ ses.res[d] = "ok"
    BY <1>6 DEF ReadDirect, Runs
  <2>2. /\ "dwrite" \in Label /\ Wr[To[d]] \in Chan /\ Wr[To[d]] # "detect"
        /\ Spot("dwrite", d, st0.msg) = Wr[To[d]]
    BY Channels, Spots
  <2>3. u = AwaitIo(st0, d, "dwrite", To[d], Wr[To[d]])
    BY DEF WriteDirect
  <2> HIDE DEF u
  <2>4. Comes(st0, u, d, "dwrite", "none") \/ Comes(st0, u, d, "dwrite", "err")
    BY <1>2, <2>2, <2>3, AwaitIoWent
  <2>5. Fit(u, d)
    BY <1>3, <2>4 DEF Comes, Fit
  <2>6. SameLoop(ses, u, d)
    BY <1>2, <2>1, <2>4 DEF Comes, Alike, SameLoop, Carries, Sends
  <2> QED
    BY <1>4, <2>1, <2>4, <2>5, <2>6 DEF Comes
<1>7. CASE ReadEof(d)
  <2> DEFINE s == [st0 EXCEPT !.eof = TRUE]
             u == NextRound(s, d)
  <2>0. st0 = [f \in DOMAIN st0 |-> st0[f]] /\ DOMAIN st0 = Parts /\ st0.sock = [k \in Sock |-> st0.sock[k]]
    BY <1>2 DEF Whole, Ready
  <2>1. /\ s = [f \in DOMAIN s |-> s[f]] /\ DOMAIN s = DOMAIN st0 /\ s.eof
        /\ s.runq = st0.runq /\ s.wait = st0.wait /\ s.pc = st0.pc /\ s.res = st0.res
        /\ s.sock = st0.sock /\ s.closed = st0.closed /\ s.bypass = st0.bypass
        /\ s.broken = st0.broken /\ s.data = st0.data /\ s.stored = st0.stored
        /\ s.handled = st0.handled /\ s.msg = st0.msg /\ s.cut = st0.cut
    BY <2>0 DEF Parts
  <2>2. Becomes(u)
    BY <1>7 DEF ReadEof
  <2> HIDE DEF s
  <2>3. Whole(s)
    BY <1>2, <2>0, <2>1, WholeAside
  <2>4. Went(st0, s, {})
    <3>1. Ran(st0, s, {})
      BY <1>2, <2>1, <2>3, AsideRan
    <3> QED
      BY <2>1, <3>1 DEF Went, Calm
  <2>5. Went(s, u, {d}) /\ u.closed /\ u.pc[d] = "idle"
    BY <1>2, <2>1, <2>3, GiveUpWent DEF NextRound
  <2> HIDE DEF u
  <2>6. Went(st0, u, {} \cup {d}) /\ {} \cup {d} = {d}
    BY <2>4, <2>5, WentThen
  <2> QED
    BY <1>4, <2>2, <2>5, <2>6, IdleFit
<1>8. CASE Written(d)
  <2> DEFINE u == NextRound(st0, d)
  <2>1. Becomes(u) /\ ses.pc[d] \in {"dwrite", "pwrite"} /\ ses.res[d] = "ok"
    BY <1>8 DEF Written, Runs
  <2>2. /\ Went(st0, u, {d}) /\ u.res[d] \in {"none", "err"}
        /\ u.pc[d] \in {"idle", "dread", "pread", "notify"}
        /\ u.pc[d] = "dread" => u.bypass
        /\ u.pc[d] \in {"pread", "notify"} => ~u.bypass
        /\ u.pc[d] = "pread" => ~(d = "res" /\ ResponseBypass)
        /\ u.pc[d] = "notify" => d = "res" /\ ResponseBypass
        /\ u.pc[d] = "idle" => u.closed
        /\ u.pc[d] # "idle" => u.bypass = st0.bypass /\ u.closed = st0.closed
    BY <1>2, NextRoundWent
  <2> HIDE DEF u
  <2>3. Fit(u, d)
    BY <1>3, <2>2 DEF Fit
  <2>4. ASSUME ~u.closed, ses.pc[d] \in {"pread", "pwrite"} PROVE u.pc[d] \in {"pread", "pwrite"}
    <3>1. u.pc[d] # "idle" /\ ~ses.closed /\ u.bypass = ses.bypass
      BY <1>2, <2>2, <2>4 DEF Alike
    <3>2. ~ses.bypass /\ ~(d = "res" /\ ResponseBypass)
      BY <1>5, <2>4, <3>1 DEF Fit
    <3> QED
      BY <2>2, <3>1, <3>2
  <2>5. SameLoop(ses, u, d)
    BY <2>1, <2>2 DEF SameLoop, Carries, Sends
  <2> QED
    BY <1>4, <2>1, <2>2, <2>3, <2>4, <2>5
<1>9. CASE LoopFails(d)
  <2> DEFINE u == GiveUp(st0, d)
  <2>1. Went(st0, u, {d}) /\ u.pc[d] = "idle" /\ u.closed
    BY <1>2, GiveUpWent
  <2>2. Becomes(u)
    BY <1>9 DEF LoopFails
  <2> HIDE DEF u
  <2> QED
    BY <1>4, <2>1, <2>2, IdleFit
<1>10. CASE Notified(d)
  <2> DEFINE u == AwaitIo(st0, d, "dread", From[d], Rd[From[d]])
  <2>1. Becomes(u) /\ ses.pc[d] = "notify"
    BY <1>10 DEF Notified, Runs
  <2>2. /\ "dread" \in Label /\ Rd[From[d]] \in Chan /\ Rd[From[d]] # "detect"
        /\ Spot("dread", d, st0.msg) = Rd[From[d]]
    BY Channels, Spots
  <2>4. Comes(st0, u, d, "dread", "none") \/ Comes(st0, u, d, "dread", "err")
    BY <1>2, <2>2, AwaitIoWent
  <2> HIDE DEF u
  <2>5. Fit(u, d)
    BY <1>3, <2>4 DEF Comes, Fit
  <2>6. SameLoop(ses, u, d)
    BY <2>1, <2>4 DEF Comes, SameLoop, Carries, Sends
  <2> QED
    BY <1>4, <2>1, <2>4, <2>5, <2>6 DEF Comes
<1> QED
  BY <1>6, <1>7, <1>8, <1>9, <1>10

\* connect_process while it does not get through, and when it is over.
LEMMA ConnectFree ==
    ASSUME Inv, Order, Free, NEW k \in Connectors,
           ConnectFails(k) \/ Introduced(k) \/ NotIntroduced(k)
    PROVE  Free' /\ Unmoved
<1>1. PICK ls, x : Runs(k, ls, x) /\ "idle" \notin ls
  BY DEF ConnectFails, Introduced, NotIntroduced
<1>2. /\ Whole(st0) /\ Alike(ses, st0) /\ st0.sock = ses.sock /\ k \in Coro
      /\ st0.pc = ses.pc /\ st0.res = ses.res
      /\ \A r \in Frame(ses, Readers) : r \in Readers /\ ses.pc[r] = "idle"
      /\ \A t \in Frame(ses, Detectors) : t \in Detectors /\ ses.pc[t] = "idle"
  BY <1>1, Starts
<1>3. k \notin Dir /\ k \notin Readers /\ k \notin Detectors /\ k # "setup"
  BY Apart
<1>4. Fit(ses, k) /\ (~ses.closed /\ ~ses.bypass => ses.sock["process"] = "conn")
  BY <1>2 DEF Free, Steered, Steady
<1>5. ASSUME NEW u, Went(st0, u, {k}), Becomes(u), Fit(u, k)
      PROVE  Free' /\ Unmoved
  <2>1. {k} \cap Dir = {} /\ {k} \cap Readers = {}
    BY <1>3
  <2> QED
    BY <1>1, <1>5, <2>1, RunsOn
<1>6. CASE ConnectFails(k)
  <2> DEFINE u == Await(st0, k, "retry", "retry")
  <2>1. Becomes(u) /\ ses.pc[k] = "connect" /\ ses.res[k] = "err"
    BY <1>6 DEF ConnectFails, Runs
  <2>2. "retry" \in Label /\ "retry" \in Chan /\ "retry" # "detect" /\ Spot("retry", k, st0.msg) = "retry"
    BY Channels, Spots
  <2>3. Comes(st0, u, k, "retry", "none")
    BY <1>2, <1>3, <2>2, AwaitWent
  <2> HIDE DEF u
  <2>4. Fit(u, k)
    BY <1>2, <1>3, <1>4, <2>1, <2>3 DEF Comes, Alike, Fit
  <2> QED
    BY <1>5, <2>1, <2>3, <2>4 DEF Comes
<1>7. CASE NotIntroduced(k)
  <2> DEFINE u == Return(st0, k)
  <2>1. Becomes(u)
    BY <1>7 DEF NotIntroduced
  <2>2. Comes(st0, u, k, "idle", "none")
    BY <1>2, ReturnWent
  <2> HIDE DEF u
  <2> QED
    BY <1>5, <2>1, <2>2, IdleFit DEF Comes
<1>8. CASE Introduced(k)
  <2>1. PICK r \in Frame(ses, Readers), t \in Frame(ses, Detectors) : Becomes(Served(st0, k, r, t))
    BY <1>8 DEF Introduced
  <2>2. /\ r \in Readers /\ t \in Detectors /\ ses.pc[r] = "idle" /\ ses.pc[t] = "idle"
        /\ ses.pc[k] = "tuple"
    BY <1>2, <1>8 DEF Introduced, Runs
  <2> DEFINE u == Served(st0, k, r, t)
             X == {r, t, k}
  <2>3. /\ Went(st0, u, X) /\ u.closed = st0.closed
        /\ u.pc[k] = "idle" /\ u.pc[r] = "head" /\ u.pc[t] \in {"idle", "wait"}
        /\ u.res[k] = "none" /\ u.res[t] \in {"none", "err"}
        /\ u.res[r] \in {"none", "err"}
        /\ u.res[r] = "err" => u.closed \/ st0.sock["process"] # "conn"
    BY <1>2, <2>2, ServedWent
  <2>4. Becomes(u)
    BY <2>1
  <2> HIDE DEF u
  <2>5. /\ r \notin Dir /\ r \notin Connectors /\ r \notin Detectors /\ r # "setup"
        /\ t \notin Dir /\ t \notin Connectors /\ t \notin Readers /\ t # "setup"
    BY <2>2, Apart
  <2>6. ~u.closed => ~u.bypass /\ u.res[r] # "err"
    BY <1>2, <1>3, <1>4, <2>2, <2>3 DEF Went, Calm, Alike, Fit
  <2>7. \A e \in X : Fit(u, e)
    BY <1>3, <2>3, <2>5, <2>6 DEF Fit
  <2>8. Rests(u, r) /\ ~ExpectsBody(ses, r)
    BY <2>2, <2>3 DEF Rests, ExpectsBody
  <2>9. X \cap Dir = {} /\ X \cap Readers = {r} /\ X \cap (Connectors \cup Readers) = {r, k}
    BY <1>3, <2>2, <2>5
  <2>10. k \in X /\ \A e \in X : e = k \/ ses.pc[e] = "idle"
    BY <2>2
  <2>11. \A e \in X \cap (Connectors \cup Readers) : u.pc[e] # "idle" => e = r /\ k \in Connectors \cup Readers
    BY <2>3, <2>9
  <2>12. SameReader(ses, u, r)
    BY <2>2, <2>3 DEF SameReader, Has, Takes, Done
  <2> HIDE DEF X
  <2> QED
    BY <1>1, <2>3, <2>4, <2>7, <2>8, <2>9, <2>10, <2>11, <2>12, RunsOn
<1> QED
  BY <1>6, <1>7, <1>8

\* The steps of the reader that neither send stored packets nor clear them.
LEMMA ReaderFree ==
    ASSUME Inv, Order, Free, NEW r \in Readers,
           \/ Heartbeat(r) \/ BodyRead(r) \/ ReaderFails(r) \/ ProcessReadFails(r)
           \/ RequestsFlushed(r) \/ ResponsesFlushed(r)
           \/ HeadRead(r) /\ (ses.msg[r].new \/ ses.msg[r].act = "block")
           \/ NewWritten(r) /\ ses.msg[r].act = "block"
    PROVE  Free' /\ Unmoved
<1>1. PICK ls, x : Runs(r, ls, x) /\ "idle" \notin ls
  BY DEF Heartbeat, BodyRead, ReaderFails, ProcessReadFails, RequestsFlushed, ResponsesFlushed,
         HeadRead, NewWritten
<1>2. /\ Whole(st0) /\ Alike(ses, st0) /\ st0.sock = ses.sock /\ r \in Coro
      /\ st0.pc = ses.pc /\ st0.res = ses.res /\ ses.pc[r] # "idle"
  BY <1>1, Starts
<1>3. /\ r \notin Dir /\ r \notin Connectors /\ r \notin Detectors /\ r # "setup"
      /\ {r} \cap Dir = {} /\ \A e \in {r} \cap (Connectors \cup Readers) : e = r
  BY Apart
<1>4. Fit(ses, r) /\ (~ses.closed /\ ~ses.bypass => ses.sock["process"] = "conn")
  BY <1>2 DEF Free, Steered, Steady
<1>5. ~ses.closed => ~ses.bypass /\ ses.sock["process"] = "conn"
  BY <1>2, <1>4 DEF Fit
<1>6. ASSUME NEW u, Went(st0, u, {r}), Becomes(u), Fit(u, r),
             \/ Rests(u, r) /\ (u.closed \/ ~ExpectsBody(ses, r))
             \/ /\ \A d \in Dir : ~Takes(u, r, d) /\ (Has(u, r, d) => Has(ses, r, d))
                /\ u.closed \/ (ExpectsBody(u, r) <=> ExpectsBody(ses, r)),
             u.closed \/ SameReader(ses, u, r)
      PROVE  Free' /\ Unmoved
  BY <1>1, <1>3, <1>6, RunsOn
<1>7. ASSUME Becomes(GiveUp(st0, r)) PROVE Free' /\ Unmoved
  <2> DEFINE u == GiveUp(st0, r)
  <2>1. Went(st0, u, {r}) /\ u.closed /\ u.pc[r] = "idle" /\ Becomes(u)
    BY <1>2, <1>7, GiveUpWent
  <2> HIDE DEF u
  <2> QED
    BY <1>6, <2>1, IdleFit DEF Rests
<1>8. CASE Heartbeat(r)
  <2> DEFINE s == Cancel(st0, "detect")
             u == ReadHead(s, r)
  <2>1. Becomes(u) /\ ses.pc[r] = "head" /\ ses.msg[r].type = "hb"
    BY <1>8 DEF Heartbeat, Runs
  <2>2. Went(st0, s, {}) /\ Alike(st0, s) /\ s.sock = st0.sock /\ Whole(s)
    BY <1>2, CancelDetectWent DEF Went, Ran
  <2>3. u = AwaitIo(s, r, "head", "process", "processRd")
    BY DEF ReadHead
  <2> HIDE DEF s, u
  <2>4. "head" \in Label /\ "processRd" \in Chan /\ "processRd" # "detect"
        /\ Spot("head", r, s.msg) = "processRd"
    BY Channels, Spots
  <2>5. /\ s.sock["process"] = "conn" => Comes(s, u, r, "head", "none")
        /\ s.sock["process"] # "conn" => Comes(s, u, r, "head", "err")
    BY <2>2, <2>3, <2>4, AwaitIoWent
  <2>6. {} \cap {r} = {} /\ {} \cup {r} = {r}
    OBVIOUS
  <2>7. Went(s, u, {r}) /\ u.closed = ses.closed /\ u.bypass = ses.bypass /\ u.pc[r] = "head"
        /\ u.res[r] \in {"none", "err"} /\ (u.res[r] = "err" => ses.sock["process"] # "conn")
    BY <1>2, <2>2, <2>5 DEF Comes, Alike
  <2>8. Went(st0, u, {r})
    BY <2>2, <2>6, <2>7, WentThen
  <2>9. Fit(u, r)
    BY <1>3, <1>5, <2>7 DEF Fit
  <2>10. Rests(u, r) /\ ~ExpectsBody(ses, r)
    BY <2>1, <2>7 DEF Rests, ExpectsBody, Dir
  <2>11. SameReader(ses, u, r)
    BY <2>1, <2>7, <2>10, RestsHolds DEF SameReader, Has, Takes, Done, Dir
  <2> QED
    BY <1>6, <2>1, <2>8, <2>9, <2>10, <2>11
<1>9. CASE HeadRead(r) /\ ses.msg[r].new
  <2> DEFINE u == AwaitIo(st0, r, "body", "process", "processRd")
  <2>1. Becomes(u) /\ ses.pc[r] = "head" /\ ses.res[r] = "ok" /\ ses.msg[r].type \in Dir
    BY <1>9 DEF HeadRead, Runs
  <2>4. "body" \in Label /\ "processRd" \in Chan /\ "processRd" # "detect"
        /\ Spot("body", r, st0.msg) = "processRd"
    BY Channels, Spots
  <2>5. /\ st0.sock["process"] = "conn" => Comes(st0, u, r, "body", "none")
        /\ st0.sock["process"] # "conn" => Comes(st0, u, r, "body", "err")
    BY <1>2, <2>4, AwaitIoWent
  <2> HIDE DEF u
  <2>7. Went(st0, u, {r}) /\ u.closed = ses.closed /\ u.bypass = ses.bypass /\ u.pc[r] = "body"
        /\ u.msg = ses.msg
        /\ u.res[r] \in {"none", "err"} /\ (u.res[r] = "err" => ses.sock["process"] # "conn")
    BY <1>2, <2>5 DEF Comes, Alike
  <2>8. Fit(u, r)
    BY <1>3, <1>5, <2>7 DEF Fit
  <2>9. \A d \in Dir : ~Takes(u, r, d) /\ (Has(u, r, d) => Has(ses, r, d))
    BY <2>1, <2>7 DEF Takes, Has
  <2>10. u.closed \/ (ExpectsBody(u, r) <=> ExpectsBody(ses, r))
    BY <1>5, <1>9, <2>1, <2>7 DEF ExpectsBody
  <2>11. SameReader(ses, u, r)
    BY <2>1, <2>7 DEF SameReader, Has, Takes, Done
  <2> QED
    BY <1>6, <2>1, <2>7, <2>8, <2>9, <2>10, <2>11
<1>10. CASE BodyRead(r)
  <2> DEFINE d == ses.msg[r].type
             s == [st0 EXCEPT !.data[r] = <<0>>]
             u == AwaitIo(s, r, "wnew", To[d], Wr[To[d]])
  <2>1. ses.pc[r] = "body" /\ ses.res[r] = "ok" /\ Becomes(WriteNew(st0, r))
    BY <1>10 DEF BodyRead, Runs
  <2>2. Becomes(u)
    BY <1>2, <2>1 DEF WriteNew, Alike
  <2>3. d \in Dir
    BY <2>1 DEF Inv, Sane, Heads, Headed
  <2>4. st0 = [f \in DOMAIN st0 |-> st0[f]] /\ DOMAIN st0 = Parts
    BY <1>2 DEF Whole, Ready
  <2>5. /\ s = [f \in DOMAIN s |-> s[f]] /\ DOMAIN s = DOMAIN st0
        /\ s.runq = st0.runq /\ s.wait = st0.wait /\ s.pc = st0.pc /\ s.res = st0.res
        /\ s.sock = st0.sock /\ s.closed = st0.closed /\ s.bypass = st0.bypass
        /\ s.broken = st0.broken /\ s.msg = st0.msg
        /\ s.handled = st0.handled /\ s.stored = st0.stored
        /\ \A e : e # r => s.data[e] = st0.data[e] /\ s.cut[e] = st0.cut[e]
        /\ s.data = [st0.data EXCEPT ![r] = <<0>>]
    BY <2>4 DEF Parts
  <2> HIDE DEF s
  <2>13. s.data[r] = <<0>>
    <3>1. ses.data \in [Dir \cup Readers -> Seq(Nat)]
      BY DEF Inv, Sane, Formed, SessionState
    <3> QED
      BY <1>2, <2>5, <3>1 DEF Alike
  <2>6. Whole(s) /\ (Went(s, u, {r}) => Went(st0, u, {r}))
    BY <1>2, <2>5, LoadWent, ZenonT(30)
  <2>7. "wnew" \in Label /\ Wr[To[d]] \in Chan /\ Wr[To[d]] # "detect"
        /\ Spot("wnew", r, s.msg) = Wr[To[d]]
    <3>1. s.msg = ses.msg
      BY <1>2, <2>5 DEF Alike
    <3> QED
      BY <2>3, <3>1, ReaderSpots
  <2>8. Comes(s, u, r, "wnew", "none") \/ Comes(s, u, r, "wnew", "err")
    BY <2>6, <2>7, AwaitIoWent
  <2> HIDE DEF u
  <2>9. Went(st0, u, {r}) /\ u.pc[r] = "wnew" /\ u.closed = ses.closed /\ u.bypass = ses.bypass
        /\ u.msg = ses.msg
    BY <1>2, <2>5, <2>6, <2>8 DEF Comes, Alike
  <2>10. Fit(u, r)
    BY <1>3, <1>5, <2>9 DEF Fit
  <2>11. \A e \in Dir : ~Takes(u, r, e) /\ (Has(u, r, e) => Has(ses, r, e))
    BY <2>1, <2>9 DEF Takes, Has
  <2>12. ExpectsBody(u, r) <=> ExpectsBody(ses, r)
    BY <2>1, <2>9 DEF ExpectsBody
  <2>14. SameReader(ses, u, r)
    BY <2>1, <2>8, <2>9, <2>13 DEF SameReader, Has, Takes, Done, Comes, Alike
  <2> QED
    BY <1>6, <2>2, <2>9, <2>10, <2>11, <2>12, <2>14
<1>11. CASE \/ ReaderFails(r)
            \/ HeadRead(r) /\ ~ses.msg[r].new /\ ses.msg[r].act = "block"
            \/ NewWritten(r) /\ ses.msg[r].act = "block"
  <2>1. st0.msg = ses.msg
    BY <1>2 DEF Alike
  <2> QED
    BY <1>7, <1>11, <2>1 DEF ReaderFails, HeadRead, NewWritten, Decide
<1>12. CASE ProcessReadFails(r)
  <2>1. ses.pc[r] \in {"head", "body"} /\ ses.res[r] = "err"
    BY <1>12 DEF ProcessReadFails, Runs
  <2>2. st0.closed
    BY <1>2, <1>4, <2>1 DEF Fit, Alike
  <2> DEFINE u == Return(st0, r)
  <2>3. Becomes(u)
    BY <1>12, <2>2 DEF ProcessReadFails, ReadFailed
  <2>4. Comes(st0, u, r, "idle", "none")
    BY <1>2, ReturnWent
  <2> HIDE DEF u
  <2> QED
    BY <1>6, <2>2, <2>3, <2>4, IdleFit DEF Comes, Alike, Rests
<1>13. CASE RequestsFlushed(r) \/ ResponsesFlushed(r)
  BY <1>4, <1>13 DEF RequestsFlushed, ResponsesFlushed, Runs, Fit
<1> QED
  BY <1>8, <1>9, <1>10, <1>11, <1>12, <1>13

\* Writes to the process fail only in a session that is closed, and what is
\* stored is not flushed.
LEMMA LostFree ==
    ASSUME Inv, Order, Free, NEW d \in Dir, ProcessWriteFails(d) \/ StoredWritten(d)
    PROVE  Free' /\ Unmoved
<1>1. PICK ls, x : Runs(d, ls, x) /\ "idle" \notin ls
  BY DEF ProcessWriteFails, StoredWritten
<1>2. /\ Whole(st0) /\ Alike(ses, st0) /\ st0.sock = ses.sock /\ d \in Coro
      /\ st0.pc = ses.pc /\ st0.res = ses.res
      /\ \A k \in Frame(ses, Connectors) : k \in Connectors /\ ses.pc[k] = "idle"
  BY <1>1, Starts
<1>3. Fit(ses, d)
  BY <1>2 DEF Free, Steered, Steady
<1>4. ProcessWriteFails(d) /\ ses.closed
  BY <1>3 DEF ProcessWriteFails, StoredWritten, Runs, Fit
<1>5. PICK k \in Frame(ses, Connectors) : Becomes(SendFailed(st0, d, k))
  BY <1>4 DEF ProcessWriteFails
<1> DEFINE u == SendFailed(st0, d, k)
           X == {d, k}
<1>6. k \in Connectors /\ ses.pc[k] = "idle" /\ st0.closed
  BY <1>2, <1>4 DEF Alike
<1>7. st0.sock[To[d]] # "conn"
  <2>1. To[d] \in Sock
    BY DEF To, Dir, Sock
  <2> QED
    BY <1>2, <1>4, <2>1 DEF Inv, Sane, Shut, Dead
<1>8. /\ Went(st0, u, X) /\ u.closed /\ u.pc[k] = "idle"
      /\ u.pc[d] \in {"idle", "dread", "flush"}
      /\ u.pc[d] = "flush" => u.res[d] = "err"
  BY <1>2, <1>6, <1>7, ClosedSendFailedWent
<1>9. Becomes(u)
  BY <1>5
<1> HIDE DEF u
<1>10. /\ d \notin Connectors /\ d \notin Readers /\ d \notin Detectors /\ d # "setup"
       /\ k \notin Dir /\ k \notin Readers /\ k \notin Detectors /\ k # "setup"
  BY <1>6, Apart
<1>11. Fit(u, d) /\ Fit(u, k)
  BY <1>8, <1>10 DEF Fit
<1>12. /\ X \cap Readers = {} /\ X \cap (Connectors \cup Readers) = {k} /\ d \in X
       /\ \A e \in X : (e = d \/ ses.pc[e] = "idle") /\ Fit(u, e)
  BY <1>6, <1>10, <1>11
<1>13. \A e \in X \cap (Connectors \cup Readers) :
          u.pc[e] # "idle" => e = k /\ d \in Connectors \cup Readers
  BY <1>8, <1>12
<1> HIDE DEF X
<1> QED
  BY <1>1, <1>8, <1>9, <1>12, <1>13, RunsOn

\* A detector goes on, or it finds the session closed.
LEMMA DetectorFree ==
    ASSUME Inv, Order, Free, NEW t \in Detectors, Rearm(t) \/ TimedOut(t)
    PROVE  Free' /\ Unmoved
<1>1. PICK ls, x : Runs(t, ls, x) /\ "idle" \notin ls
  BY DEF Rearm, TimedOut
<1>2. /\ Whole(st0) /\ Alike(ses, st0) /\ st0.sock = ses.sock /\ t \in Coro
      /\ st0.pc = ses.pc /\ st0.res = ses.res /\ ses.pc[t] # "idle"
  BY <1>1, Starts
<1>3. /\ t \notin Dir /\ t \notin Connectors /\ t \notin Readers /\ t # "setup"
  BY Apart
<1>4. {t} \cap Dir = {} /\ {t} \cap Readers = {} /\ {t} \cap (Connectors \cup Readers) = {}
  BY <1>3
<1>5. Fit(ses, t)
  BY <1>2 DEF Free, Steered, Steady
<1>6. ASSUME NEW u, Went(st0, u, {t}), Becomes(u), Fit(u, t)
      PROVE  Free' /\ Unmoved
  BY <1>1, <1>4, <1>6, RunsOn
<1>7. CASE Rearm(t)
  <2> DEFINE u == Detect(st0, t)
  <2>1. /\ Went(st0, u, {t}) /\ Alike(st0, u) /\ u.sock = st0.sock
        /\ u.pc[t] \in {"idle", "wait"} /\ u.res[t] = "none"
    BY <1>2, DetectWent
  <2>2. Becomes(u)
    BY <1>7 DEF Rearm
  <2> HIDE DEF u
  <2>3. Fit(u, t)
    BY <1>2, <1>3, <1>5, <2>1 DEF Fit, Alike
  <2> QED
    BY <1>6, <2>1, <2>2, <2>3
<1>8. CASE TimedOut(t)
  <2> DEFINE s == CloseSock(st0, "process")
             u == Return(s, t)
  <2>1. st0.closed
    BY <1>2, <1>5, <1>8 DEF TimedOut, Runs, Fit, Alike
  <2>2. Went(st0, s, {}) /\ Whole(s)
    BY <1>2, <2>1, CloseSockRan DEF Sock, Went, Ran
  <2> HIDE DEF s
  <2>3. Comes(s, u, t, "idle", "none")
    BY <1>2, <2>2, ReturnWent
  <2>4. Becomes(u)
    BY <1>8 DEF TimedOut, s
  <2> HIDE DEF u
  <2>5. {} \cap {t} = {} /\ {} \cup {t} = {t}
    OBVIOUS
  <2>6. Went(st0, u, {t})
    BY <2>2, <2>3, <2>5, WentThen DEF Comes
  <2> QED
    BY <1>6, <2>3, <2>4, <2>6, IdleFit DEF Comes
<1> QED
  BY <1>7, <1>8

-----------------------------------------------------------------------------
(***************************************************************************)
(* What happens outside.                                                   *)
(***************************************************************************)
\* What waits on a channel of an open session.
LEMMA Waiting ==
    ASSUME Inv, Order, Free, NEW ch \in Chan, ses.wait[ch] # <<>>
    PROVE  LET c == Head(ses.wait[ch])
           IN  /\ Whole(ses) /\ c \in Coro /\ c \in Waiters[ch] /\ Waits(ses, ch, c)
               /\ ses.pc[c] # "idle" /\ ses.res[c] = "none" /\ Fit(ses, c)
               /\ Spot(ses.pc[c], c, ses.msg) = ch
               /\ ses.closed => ch \in {"detect", "retry", "resolve"}
<1> DEFINE c == Head(ses.wait[ch])
<1>1. Whole(ses)
  BY SaneWhole DEF Inv
<1>2. ses.wait[ch] \in Seq(Coro) /\ ses.wait[ch] \in Seq(Waiters[ch])
  BY <1>1 DEF Whole, Ready, Inv, Sane, Formed, Waited
<1>3. c = ses.wait[ch][1] /\ 1 \in 1..Len(ses.wait[ch]) /\ c \in Coro /\ c \in Waiters[ch]
  BY <1>2
<1>4. Waits(ses, ch, c)
  BY <1>3 DEF Waits
<1>5. ses.pc[c] # "idle" /\ ses.res[c] = "none"
  BY <1>3 DEF Order, Orderly, Queued
<1>6. Fit(ses, c) /\ Spot(ses.pc[c], c, ses.msg) = ch
  BY <1>3, <1>4 DEF Free, Steered, Steady, Placed
<1>7. ASSUME ses.closed PROVE ch \in {"detect", "retry", "resolve"}
  <2>1. \A k \in Sock : ses.wait[Rd[k]] = <<>> /\ ses.wait[Wr[k]] = <<>>
    BY <1>7 DEF Inv, Sane, Shut, Dead
  <2> QED
    BY <2>1 DEF Chan, Sock, Rd, Wr
<1> QED
  BY <1>1, <1>3, <1>4, <1>5, <1>6, <1>7

\* Where a coroutine is that waits on something else than the process.
LEMMA Elsewhere ==
    ASSUME NEW l, NEW c, NEW m
    PROVE  /\ Spot(l, c, m) # "processRd" => l \notin {"head", "body"}
           /\ Spot(l, c, m) # "processWr" => l \notin {"pwrite", "connect", "notify", "tuple"}
BY DEF Spot

\* What a loop waits for at the connection to the process.
LEMMA FilledSpot ==
    ASSUME NEW l, NEW d \in Dir, NEW m, Spot(l, d, m) = "processWr"
    PROVE  l \notin {"idle", "dread", "dwrite", "pread", "flush"}
BY DEF Spot, Dir, From, To, Rd, Wr

\* An operation of c ends.
LEMMA CompletesOn ==
    ASSUME Inv, Order, Free, NEW ch \in Chan, NEW c \in Coro, Waits(ses, ch, c),
           ses.pc[c] \notin {"idle", "head", "body"},
           NEW u, Went(ses, u, {c}), u.pc = ses.pc, Fit(u, c),
           c \in Readers => u.data[c] = ses.data[c] /\ u.cut[c] = ses.cut[c],
           u.sock["process"] = ses.sock["process"]
    PROVE  Steered(u) /\ Linked(u, link) /\ Fed(u, link)
<1>1. Whole(ses) /\ ses.msg \in [Readers -> ResponseHead]
  BY SaneWhole DEF Inv, Sane, Formed, SessionState
<1>2. u.msg = ses.msg
  BY DEF Went, Ran
<1>3. \A d : (Has(u, c, d) => Has(ses, c, d)) /\ (Takes(u, c, d) => Takes(ses, c, d))
  BY <1>2 DEF Has, Takes
<1>4. ~ExpectsBody(u, c) /\ ~ExpectsBody(ses, c)
  BY DEF ExpectsBody
<1>5. \A e \in {c} \cap (Connectors \cup Readers) : e = c /\ c \in Connectors \cup Readers
  OBVIOUS
<1>6. Steered(u)
  BY <1>1, <1>3, <1>5, GoesOn DEF Free
<1>7. Fed(u, link)
  BY <1>3, <1>4, FedOn DEF Free
<1>8. Linked(u, link)
  BY DEF Free, Linked
<1> QED
  BY <1>6, <1>7, <1>8

\* The peers and the timers.
LEMMA PeerFree ==
    ASSUME Inv, Order, Free, PeerStep
    PROVE  Free'
<1>1. faults = 0 /\ Steered(ses) /\ Linked(ses, link) /\ Fed(ses, link)
  BY DEF Free
<1>2. ASSUME UNCHANGED <<ses, link, faults>> PROVE Free'
  BY <1>1, <1>2 DEF Free
<1>3. ASSUME NEW u, ses' = u, Steered(u) /\ Linked(u, link) /\ Fed(u, link), UNCHANGED <<link, faults>>
      PROVE  Free'
  BY <1>1, <1>3 DEF Free
<1>4. CASE \E d \in Dir : PeerSends(d)
  BY <1>2, <1>4 DEF PeerSends
<1>5. CASE \E p \in Peers : PeerCloses(p)
  BY <1>2, <1>5 DEF PeerCloses
<1>6. ASSUME NEW d \in Dir, PeerRead(d) PROVE Free'
  <2> DEFINE ch == Rd[From[d]]
             x == [i \in 1..(sent[d] - got[d]) |-> got[d] + i]
             z == [ses EXCEPT !.data[d] = x]
  <2>1. ses.wait[ch] # <<>> /\ ch \in Chan /\ ch # "processRd" /\ ch # "processWr" /\ Waiters[ch] = {d}
        /\ ch \notin {"detect", "retry", "resolve"}
    BY <1>6 DEF PeerRead, Dir, From, Rd, Chan, Waiters
  <2>2. PICK s, r : (s = ses \/ s = z) /\ r \in {"ok", "eof", "err"} /\ ses' = CompleteHead(s, ch, r)
    BY <1>6 DEF PeerRead
  <2>3. /\ Whole(ses) /\ d = Head(ses.wait[ch]) /\ d \in Coro /\ Waits(ses, ch, d)
        /\ ses.pc[d] # "idle" /\ Fit(ses, d) /\ Spot(ses.pc[d], d, ses.msg) = ch /\ ~ses.closed
        /\ ses.res[d] = "none"
    BY <2>1, Waiting
  <2>4. ses.pc[d] \notin {"head", "body", "pwrite", "connect", "notify", "tuple"}
    BY <2>1, <2>3, Elsewhere
  <2>5. ses = [f \in DOMAIN ses |-> ses[f]] /\ DOMAIN ses = Parts
    BY <2>3 DEF Whole, Ready
  <2> HIDE DEF x
  <2>6. /\ s = [f \in DOMAIN s |-> s[f]] /\ DOMAIN s = DOMAIN ses
        /\ s.runq = ses.runq /\ s.wait = ses.wait /\ s.pc = ses.pc /\ s.res = ses.res
        /\ s.sock = ses.sock /\ s.closed = ses.closed /\ s.bypass = ses.bypass
        /\ s.broken = ses.broken /\ s.msg = ses.msg
        /\ s.handled = ses.handled /\ s.stored = ses.stored
        /\ \A e : e # d => s.data[e] = ses.data[e] /\ s.cut[e] = ses.cut[e]
    <3>1. CASE s = ses
      BY <2>5, <3>1
    <3>2. CASE s = z
      BY <2>5, <3>2 DEF Parts
    <3> QED
      BY <2>2, <3>1, <3>2
  <2> HIDE DEF z, ch
  <2>7. Whole(s) /\ \A u : Went(s, u, {d}) => Went(ses, u, {d})
    BY <2>3, <2>6, LoadWent
  <2> DEFINE u == CompleteHead(s, ch, r)
  <2>8. r \in Result
    BY <2>2 DEF Result
  <2>9. s.wait[ch] # <<>> /\ d = Head(s.wait[ch]) /\ u = CompleteHead(s, ch, r)
    BY <2>1, <2>3, <2>6
  <2>10. ses' = u
    BY <2>2
  <2> HIDE DEF u
  <2>15. Gets(s, u, d, r)
    BY <2>1, <2>7, <2>8, <2>9, HeadGets
  <2>11. Went(ses, u, {d}) /\ u.pc = ses.pc /\ u.sock = ses.sock /\ u.closed = ses.closed
         /\ u.bypass = ses.bypass
    BY <2>3, <2>6, <2>7, <2>15 DEF Gets, Alike
  <2>12. d \notin Readers /\ d \notin Detectors /\ d \notin Connectors /\ d # "setup"
    BY Apart
  <2>13. Fit(u, d)
    BY <2>3, <2>4, <2>11, <2>12 DEF Fit
  <2>14. Steered(u) /\ Linked(u, link) /\ Fed(u, link)
    BY <2>1, <2>3, <2>4, <2>11, <2>12, <2>13, CompletesOn
  <2> QED
    BY <1>3, <1>6, <2>10, <2>14 DEF PeerRead
<1>7. ASSUME NEW ch \in {"clientWr", "serverWr", "resolve"}, ses.wait[ch] # <<>>,
             NEW s, s = ses \/ s = [ses EXCEPT !.sock["server"] = "conn"], NEW r \in {"ok", "err"},
             ses' = CompleteHead(s, ch, r), UNCHANGED <<link, faults>>
      PROVE  Free'
  <2> DEFINE c == Head(ses.wait[ch])
             u == CompleteHead(s, ch, r)
  <2>1. ch \in Chan /\ ch # "processRd" /\ ch # "processWr" /\ Waiters[ch] \cap Detectors = {}
        /\ Waiters[ch] \cap Connectors = {}
    <3>1. Waiters[ch] \subseteq {"setup"} \cup Dir \cup Readers
      BY DEF Waiters
    <3> QED
      BY <3>1, Apart, FramesAreDistinct DEF Chan
  <2>2. /\ Whole(ses) /\ c \in Coro /\ c \in Waiters[ch] /\ Waits(ses, ch, c)
        /\ ses.pc[c] # "idle" /\ Fit(ses, c) /\ Spot(ses.pc[c], c, ses.msg) = ch
        /\ ses.res[c] = "none"
    BY <1>7, <2>1, Waiting
  <2>3. ses.pc[c] \notin {"head", "body", "pwrite", "connect", "notify", "tuple"}
    BY <2>1, <2>2, Elsewhere
  <2>4. ses = [f \in DOMAIN ses |-> ses[f]] /\ DOMAIN ses = Parts /\ ses.sock = [k \in Sock |-> ses.sock[k]]
    BY <2>2 DEF Whole, Ready
  <2>5. /\ s = [f \in DOMAIN s |-> s[f]] /\ DOMAIN s = DOMAIN ses
        /\ s.runq = ses.runq /\ s.wait = ses.wait /\ s.pc = ses.pc /\ s.res = ses.res
        /\ s.sock \in {ses.sock, [ses.sock EXCEPT !["server"] = "conn"]} /\ Alike(ses, s)
    BY <1>7, <2>4 DEF Parts, Alike
  <2>6. s.sock = [k \in Sock |-> s.sock[k]] /\ s.sock["process"] = ses.sock["process"]
    BY <2>4, <2>5 DEF Sock
  <2>7. Whole(s)
    BY <2>2, <2>5, <2>6, WholeAside
  <2> HIDE DEF c
  <2>8. Went(ses, s, {})
    <3>1. Ran(ses, s, {})
      BY <2>2, <2>5, <2>6, <2>7, AsideRan DEF Alike
    <3> QED
      BY <2>5, <2>6, <3>1 DEF Went, Calm, Alike
  <2>9. /\ r \in Result /\ s.wait[ch] # <<>> /\ c = Head(s.wait[ch])
        /\ u = CompleteHead(s, ch, r)
    BY <1>7, <2>5 DEF Result, c
  <2> HIDE DEF u
  <2>17. Gets(s, u, c, r)
    BY <2>1, <2>7, <2>9, HeadGets
  <2>10. Went(s, u, {c}) /\ Alike(s, u) /\ u.sock = s.sock /\ u.pc = s.pc /\ u.res[c] = r
    BY <2>17 DEF Gets
  <2>11. {} \cap {c} = {} /\ {} \cup {c} = {c}
    OBVIOUS
  <2>12. Went(ses, u, {c})
    BY <2>8, <2>10, <2>11, WentThen
  <2>13. /\ u.pc = ses.pc /\ u.sock["process"] = ses.sock["process"] /\ u.closed = ses.closed
         /\ u.bypass = ses.bypass /\ u.data = ses.data /\ u.cut = ses.cut
    BY <2>5, <2>6, <2>10 DEF Alike
  <2>14. c \notin Detectors /\ c \notin Connectors
    BY <2>1, <2>2
  <2>15. Fit(u, c)
    BY <2>2, <2>3, <2>13, <2>14 DEF Fit
  <2>16. Steered(u) /\ Linked(u, link) /\ Fed(u, link)
    BY <2>1, <2>2, <2>3, <2>12, <2>13, <2>15, CompletesOn
  <2> QED
    BY <1>3, <1>7, <2>16 DEF u
<1>8. CASE \E d \in Dir : PeerWritten(d)
  <2>1. PICK d \in Dir : PeerWritten(d)
    BY <1>8
  <2>2. Wr[To[d]] \in {"clientWr", "serverWr", "resolve"}
    BY DEF Dir, To, Wr
  <2> QED
    BY <1>7, <2>1, <2>2 DEF PeerWritten
<1>9. CASE ResolverDone \/ DialDone
  BY <1>7, <1>9 DEF ResolverDone, DialDone
<1> QED
  BY <1>4, <1>5, <1>6, <1>8, <1>9 DEF PeerStep

LEMMA TimerFree ==
    ASSUME Inv, Order, Free, MaxFaults = 0, TimerStep
    PROVE  Free'
<1>1. PICK ch \in {"retry", "detect"} :
          ses.wait[ch] # <<>> /\ ses' = CompleteHead(ses, ch, "ok") /\ UNCHANGED <<link, faults>>
          /\ (ch = "detect" => link.st # "ok")
  BY DEF TimerStep, RetryTimer, DetectTimer, FalseTimeout, Free
<1> DEFINE c == Head(ses.wait[ch])
           u == CompleteHead(ses, ch, "ok")
<1>2. ch \in Chan /\ ch # "processRd" /\ ch # "processWr" /\ "ok" \in Result
      /\ Waiters[ch] = IF ch = "retry" THEN Connectors ELSE Detectors
  BY DEF Chan, Result, Waiters
<1>3. /\ Whole(ses) /\ c \in Coro /\ c \in Waiters[ch] /\ Waits(ses, ch, c)
      /\ ses.pc[c] # "idle" /\ Fit(ses, c) /\ Spot(ses.pc[c], c, ses.msg) = ch
      /\ ses.res[c] = "none"
  BY <1>1, <1>2, Waiting
<1>4. ses.pc[c] \notin {"head", "body", "pwrite", "connect", "notify", "tuple"}
  BY <1>2, <1>3, Elsewhere
<1>5. Went(ses, u, {c}) /\ Alike(ses, u) /\ u.sock = ses.sock /\ u.pc = ses.pc /\ u.res[c] = "ok"
  BY <1>1, <1>2, <1>3, HeadGets DEF Gets
<1> HIDE DEF c
<1>6. /\ c \in Detectors => c \notin Dir /\ c \notin Readers /\ c \notin Connectors /\ c # "setup"
      /\ c \in Connectors => c \notin Dir /\ c \notin Readers /\ c \notin Detectors /\ c # "setup"
  BY Apart
<1>7. ASSUME ch = "detect" PROVE ses.closed
  <2>1. c \in Detectors /\ ses.sock["process"] # "conn"
    BY <1>1, <1>2, <1>3, <1>7 DEF Free, Linked
  <2> QED
    BY <1>3, <2>1 DEF Free, Steered, Steady, Fit
<1> HIDE DEF u
<1>8. Fit(u, c)
  BY <1>2, <1>3, <1>4, <1>5, <1>6, <1>7 DEF Fit, Alike
<1>9. Steered(u) /\ Linked(u, link) /\ Fed(u, link)
  BY <1>2, <1>3, <1>4, <1>5, <1>8, CompletesOn DEF Alike
<1> QED
  BY <1>1, <1>9 DEF Free, u

\* The process accepts a connection, or there is none.
LEMMA AcceptFree ==
    ASSUME Inv, Order, Free, ProcessAccepts
    PROVE  Free'
<1> DEFINE k == Head(ses.wait["processWr"])
           s == [ses EXCEPT !.sock["process"] = "conn"]
<1>1. "processWr" \in Chan /\ "processWr" \notin {"detect", "retry", "resolve"}
      /\ Waiters["processWr"] = Connectors \cup Dir /\ "ok" \in Result /\ "err" \in Result
  BY DEF Chan, Waiters, Result
<1>2. ses.wait["processWr"] # <<>> /\ ses.pc[k] = "connect"
  BY DEF ProcessAccepts
<1>3. /\ Whole(ses) /\ k \in Coro /\ k \in Connectors \cup Dir /\ Waits(ses, "processWr", k)
      /\ ses.res[k] = "none" /\ Fit(ses, k) /\ ~ses.closed
  BY <1>1, <1>2, Waiting
<1>4. k \in Connectors /\ k \notin Dir /\ k \notin Readers /\ k \notin Detectors /\ k # "setup"
  BY <1>2, <1>3, Apart DEF Fit
<1> HIDE DEF k
<1>5. ses.bypass /\ ses.sock["process"] # "conn"
  BY <1>2, <1>3, <1>4 DEF Fit
<1>6. \A e \in Connectors \cup Readers : e # k => ses.pc[e] = "idle"
  BY <1>2, <1>4 DEF Free, Steered, Single
<1>7. link = NoLink /\ faults = 0
  BY <1>5 DEF Free, Linked
<1>8. CASE listening
  <2> DEFINE u == CompleteHead(s, "processWr", "ok")
  <2>1. ses' = u /\ link' = [NoLink EXCEPT !.st = "ok"] /\ faults' = faults
    BY <1>8 DEF ProcessAccepts
  <2>2. ses = [f \in DOMAIN ses |-> ses[f]] /\ DOMAIN ses = Parts /\ ses.sock = [j \in Sock |-> ses.sock[j]]
    BY <1>3 DEF Whole, Ready
  <2>3. /\ s = [f \in DOMAIN s |-> s[f]] /\ DOMAIN s = DOMAIN ses
        /\ s.runq = ses.runq /\ s.wait = ses.wait /\ s.pc = ses.pc /\ s.res = ses.res
        /\ s.sock = [ses.sock EXCEPT !["process"] = "conn"] /\ Alike(ses, s)
    BY <2>2 DEF Parts, Alike
  <2> HIDE DEF s
  <2>4. s.sock = [j \in Sock |-> s.sock[j]] /\ s.sock["process"] = "conn"
    BY <2>2, <2>3 DEF Sock
  <2>5. Whole(s)
    BY <1>3, <2>3, <2>4, WholeAside
  <2>6. s.wait["processWr"] # <<>> /\ k = Head(s.wait["processWr"])
    BY <1>2, <2>3 DEF k
  <2>7. Gets(s, u, k, "ok")
    BY <1>1, <2>5, <2>6, HeadGets
  <2> HIDE DEF u
  <2>8. /\ Alike(ses, u) /\ u.sock["process"] = "conn" /\ u.pc = ses.pc /\ u.res[k] = "ok"
        /\ \A e \in Coro \ {k} : u.res[e] = ses.res[e] \/ (u.res[e] = "err" /\ e \in Detectors)
        /\ \A ch \in Chan, e \in Coro : Waits(u, ch, e) =>
               Waits(ses, ch, e) \/ (e = k /\ Spot(u.pc[e], e, u.msg) = ch)
    <3>1. Alike(ses, u) /\ u.sock["process"] = "conn" /\ u.pc = ses.pc /\ u.res[k] = "ok" /\ ~u.closed
      BY <1>3, <2>3, <2>4, <2>7 DEF Gets, Alike
    <3>2. \A ch \in Chan, e \in Coro : Waits(s, ch, e) <=> Waits(ses, ch, e)
      BY <2>3, SameWaits
    <3> QED
      BY <2>3, <2>7, <3>1, <3>2 DEF Gets, Went, Ran
  <2>9. Placed(u)
    BY <2>8 DEF Free, Steered, Placed, Alike
  <2>10. Single(u)
    BY <2>8 DEF Free, Steered, Single
  <2>11. Steady(u)
    <3>1. ASSUME NEW c \in Coro PROVE Fit(u, c)
      <4>1. Fit(ses, c)
        BY DEF Free, Steered, Steady
      <4>2. CASE c = k
        BY <1>2, <1>4, <1>5, <2>8, <4>2 DEF Fit, Alike
      <4>3. CASE c # k
        <5>1. c \in Detectors => c \notin Dir /\ c \notin Readers /\ c \notin Connectors /\ c # "setup"
          BY Apart
        <5>2. c \in Connectors => ses.pc[c] = "idle"
          BY <1>6, <4>3
        <5> QED
          BY <2>8, <4>1, <4>3, <5>1, <5>2 DEF Fit, Alike
      <4> QED
        BY <4>2, <4>3
    <3> QED
      BY <1>5, <2>8, <3>1 DEF Free, Steered, Steady, Alike
  <2>12. \A r \in Readers : u.pc[r] = "idle" /\ ses.pc[r] = "idle"
    BY <1>4, <1>6, <2>8
  <2>13. \A r \in Readers, d \in Dir : ~Has(u, r, d) /\ ~Takes(u, r, d) /\ ~Has(ses, r, d)
    BY <2>12 DEF Has, Takes
  <2>14. \A r \in Readers : ~ExpectsBody(u, r) /\ ~ExpectsBody(ses, r)
    BY <2>12 DEF ExpectsBody
  <2>15. Steered(u)
    BY <2>9, <2>10, <2>11, <2>13 DEF Steered, Behind, Prefix
  <2>16. /\ link'.st = "ok" /\ link'.seen = link.seen /\ link'.toProc = link.toProc
         /\ link'.fromProc = link.fromProc /\ link'.acked = link.acked
    BY <1>7, <2>1 DEF NoLink
  <2>17. Linked(u, link')
    BY <2>8, <2>16 DEF Linked
  <2>18. Diverted(u, link')
    BY <2>8, <2>13, <2>16 DEF Free, Fed, Diverted, Downstream, Alike
  <2>19. Paired(u, link')
    BY <2>8, <2>14, <2>16 DEF Free, Fed, Paired, Alike
  <2>20. Totals(u, link')
    BY <2>8, <2>13, <2>16 DEF Free, Fed, Totals, Alike
  <2> QED
    BY <1>7, <2>1, <2>15, <2>17, <2>18, <2>19, <2>20 DEF Free, Fed
<1>9. CASE ~listening
  <2> DEFINE u == CompleteHead(ses, "processWr", "err")
  <2>1. ses' = u /\ link' = link /\ faults' = faults
    BY <1>9 DEF ProcessAccepts
  <2>2. Gets(ses, u, k, "err")
    BY <1>1, <1>2, <1>3, HeadGets DEF k
  <2> HIDE DEF u
  <2>3. Fit(u, k)
    BY <1>2, <1>4, <1>5, <2>2 DEF Fit, Gets, Alike
  <2>4. Steered(u) /\ Linked(u, link) /\ Fed(u, link)
    BY <1>1, <1>2, <1>3, <1>4, <2>2, <2>3, CompletesOn DEF Gets
  <2> QED
    BY <2>1, <2>4 DEF Free
<1> QED
  BY <1>8, <1>9

\* A message is on its way to the process.
LEMMA WrittenFree ==
    ASSUME Inv, Order, Free, ProcessWritten
    PROVE  Free'
<1> DEFINE c == Head(ses.wait["processWr"])
           m == MessageOf(c)
           u == CompleteHead(ses, "processWr", "ok")
<1>1. "processWr" \in Chan /\ "processWr" \notin {"detect", "retry", "resolve"}
      /\ Waiters["processWr"] = Connectors \cup Dir /\ "ok" \in Result /\ "processWr" # "processRd"
  BY DEF Chan, Waiters, Result
<1>2. ses.wait["processWr"] # <<>> /\ ses.pc[c] # "connect"
  BY DEF ProcessWritten
<1>3. /\ Whole(ses) /\ c \in Coro /\ c \in Connectors \cup Dir /\ Waits(ses, "processWr", c)
      /\ ses.pc[c] # "idle" /\ ses.res[c] = "none" /\ Fit(ses, c) /\ ~ses.closed
      /\ Spot(ses.pc[c], c, ses.msg) = "processWr"
  BY <1>1, <1>2, Waiting
<1>4. /\ ses' = u /\ link' = [link EXCEPT !.toProc = Append(@, m)] /\ faults' = faults
  BY DEF ProcessWritten, Free, Linked
<1>5. ses.pc[c] \notin {"idle", "head", "body"}
  BY <1>1, <1>3, Elsewhere
<1>6. Gets(ses, u, c, "ok")
  BY <1>1, <1>2, <1>3, HeadGets
<1>7. /\ link.toProc \in Seq(Message)
      /\ link = [f \in DOMAIN link |-> link[f]]
      /\ DOMAIN link = {"st", "toProc", "fromProc", "seen", "acked", "split"}
  BY DEF Inv, Surroundings, LinkState
<1>8. m.bytes # <<>> => m.kind = c /\ c \in Dir /\ ses.pc[c] # "notify"
  BY <1>3 DEF MessageOf
<1> HIDE DEF u, c, m
<1>9. c \notin Readers /\ c \notin Detectors /\ c # "setup"
  BY <1>3, Apart
<1>10. Fit(u, c)
  BY <1>2, <1>3, <1>5, <1>6, <1>9 DEF Fit, Gets, Alike
<1>11. Steered(u) /\ Linked(u, link) /\ Fed(u, link)
  BY <1>1, <1>3, <1>5, <1>6, <1>9, <1>10, CompletesOn DEF Gets
<1>12. /\ link'.st = link.st /\ link'.seen = link.seen /\ link'.toProc = Append(link.toProc, m)
       /\ link'.fromProc = link.fromProc /\ link'.acked = link.acked
  BY <1>4, <1>7
<1>13. Linked(u, link')
  BY <1>3, <1>11, <1>12 DEF Linked, Free, ProcessWritten
<1>14. Paired(u, link') /\ Totals(u, link')
  BY <1>11, <1>12 DEF Fed, Paired, Totals
<1>15. Diverted(u, link')
  <2> SUFFICES ASSUME ~u.closed, NEW d \in Dir, Downstream(u, link', d)
               PROVE  u.pc[d] \in {"pread", "pwrite"}
    BY DEF Diverted
  <2>1. CASE Downstream(u, link, d)
    BY <1>11, <2>1 DEF Fed, Diverted
  <2>2. CASE ~Downstream(u, link, d)
    <3>1. PICK i \in 1..Len(link'.toProc) : link'.toProc[i].kind = d /\ link'.toProc[i].bytes # <<>>
      BY <1>12, <2>2 DEF Downstream
    <3>2. i = Len(link.toProc) + 1 /\ link'.toProc[i] = m
      BY <1>7, <1>12, <2>2, <3>1 DEF Downstream
    <3>3. c = d /\ ses.pc[d] # "notify"
      BY <1>8, <3>1, <3>2
    <3>4. ses.pc[d] = "pwrite"
      BY <1>3, <3>3, FilledSpot DEF Fit
    <3> QED
      BY <1>6, <3>4 DEF Gets
  <2> QED
    BY <2>1, <2>2
<1> QED
  BY <1>4, <1>11, <1>13, <1>14, <1>15 DEF Free, Fed

\* The reader gets what it waits for: a head, or the new data that is due.
LEMMA ReadFree ==
    ASSUME Inv, Order, Free, ProcessRead
    PROVE  Free'
<1> DEFINE r == Head(ses.wait["processRd"])
           q == link.fromProc
           m == Head(q)
           s == IF m = NewData THEN ses ELSE [ses EXCEPT !.msg[r] = m]
           u == CompleteHead(s, "processRd", "ok")
           p == Tail(q)
<1>1. "processRd" \in Chan /\ "processRd" \notin {"detect", "retry", "resolve"}
      /\ Waiters["processRd"] = Readers /\ "ok" \in Result
  BY DEF Chan, Waiters, Result
<1>2. ses.wait["processRd"] # <<>>
  BY DEF ProcessRead
<1>3. /\ Whole(ses) /\ r \in Coro /\ r \in Readers /\ Waits(ses, "processRd", r)
      /\ ses.pc[r] # "idle" /\ ses.res[r] = "none" /\ Fit(ses, r) /\ ~ses.closed
      /\ Spot(ses.pc[r], r, ses.msg) = "processRd"
  BY <1>1, <1>2, Waiting
<1>4. /\ q # <<>> /\ link' = [link EXCEPT !.fromProc = p] /\ faults' = faults
      /\ ses' = IF ses.pc[r] = (IF m = NewData THEN "body" ELSE "head") THEN u ELSE Undefined(ses)
  <2>1. ~ses.bypass
    BY <1>3 DEF Fit
  <2>2. link.st = "ok"
    BY <1>3, <2>1 DEF Free, Steered, Steady, Linked
  <2> QED
    BY <2>2 DEF ProcessRead
<1>5. /\ q \in Seq(ResponseHead \cup {NewData})
      /\ link = [f \in DOMAIN link |-> link[f]]
      /\ DOMAIN link = {"st", "toProc", "fromProc", "seen", "acked", "split"}
      /\ ses.msg \in [Readers -> ResponseHead]
  BY DEF Inv, Surroundings, LinkState, Sane, Formed, SessionState
<1>6. /\ m = q[1] /\ 1 \in 1..Len(q) /\ m \in ResponseHead \cup {NewData} /\ Len(q) \in Nat
      /\ Len(p) = Len(q) - 1 /\ \A i \in 1..Len(p) : p[i] = q[i + 1] /\ i + 1 \in 1..Len(q)
      /\ \A i \in 2..Len(q) : q[i] = p[i - 1] /\ i - 1 \in 1..Len(p)
  BY <1>4, <1>5
<1>7. ses.pc[r] \in {"head", "body"}
  <2>1. ses.pc[r] \notin {"wnew", "wfwd"}
    <3>1. ASSUME ses.pc[r] \in {"wnew", "wfwd"} PROVE FALSE
      <4>1. ses.msg[r].type \in Dir
        BY <1>3, <3>1 DEF Inv, Sane, Heads, Headed
      <4>2. Spot(ses.pc[r], r, ses.msg) = Wr[To[ses.msg[r].type]]
        BY <3>1, <4>1, ReaderSpots
      <4>3. Wr[To[ses.msg[r].type]] # "processRd"
        BY <4>1, SMTT(30) DEF Dir, To, Wr
      <4> QED
        BY <1>3, <4>2, <4>3
    <3> QED
      BY <3>1
  <2> QED
    BY <1>3, <2>1 DEF Fit
<1>8. \A e \in Readers : e # r => ses.pc[e] = "idle"
  BY <1>3 DEF Free, Steered, Single
<1>9. \A e \in Readers : ExpectsBody(ses, e) <=> e = r /\ ses.pc[r] = "body"
  BY <1>3, <1>7, <1>8 DEF ExpectsBody
<1>10. m.type = "body" <=> ses.pc[r] = "body"
  <2>1. m.type = "body" <=> \E e \in Readers : ExpectsBody(ses, e)
    BY <1>3, <1>6 DEF Free, Fed, Paired
  <2> QED
    BY <1>3, <1>9, <2>1
<1>11. m = NewData <=> m.type = "body"
  <2>1. NewData.type = "body"
    BY DEF NewData
  <2>2. m \in ResponseHead => m.type # "body"
    BY DEF ResponseHead, Dir
  <2> QED
    BY <1>6, <2>1, <2>2
<1>12. ses' = u
  BY <1>4, <1>7, <1>10, <1>11
<1>13. m # NewData => m \in ResponseHead /\ ses.pc[r] = "head"
  BY <1>6, <1>7, <1>10, <1>11
<1> HIDE DEF r, m, q, p
<1>14. /\ s = [f \in DOMAIN s |-> s[f]] /\ DOMAIN s = DOMAIN ses
       /\ s.runq = ses.runq /\ s.wait = ses.wait /\ s.pc = ses.pc /\ s.res = ses.res
       /\ s.sock = ses.sock /\ s.closed = ses.closed /\ s.bypass = ses.bypass
       /\ s.broken = ses.broken /\ s.handled = ses.handled /\ s.stored = ses.stored
       /\ s.data = ses.data /\ s.cut = ses.cut
       /\ s.msg = IF m = NewData THEN ses.msg ELSE [ses.msg EXCEPT ![r] = m]
  <2>1. ses = [f \in DOMAIN ses |-> ses[f]] /\ DOMAIN ses = Parts
    BY <1>3 DEF Whole, Ready
  <2> QED
    BY <2>1 DEF Parts
<1> HIDE DEF s
<1>15. Whole(s)
  <2>1. s.sock = [j \in Sock |-> s.sock[j]]
    BY <1>3, <1>14 DEF Whole
  <2> QED
    BY <1>3, <1>14, <2>1, WholeAside
<1>16. s.wait["processRd"] # <<>> /\ r = Head(s.wait["processRd"])
  BY <1>2, <1>14 DEF r
<1>17. Gets(s, u, r, "ok")
  BY <1>1, <1>15, <1>16, HeadGets
<1> HIDE DEF u
<1>18. /\ u.closed = ses.closed /\ u.bypass = ses.bypass /\ u.broken = ses.broken
       /\ u.stored = ses.stored /\ u.handled = ses.handled /\ u.sock = ses.sock /\ u.pc = ses.pc
       /\ u.res[r] = "ok"
       /\ u.msg = IF m = NewData THEN ses.msg ELSE [ses.msg EXCEPT ![r] = m]
  BY <1>14, <1>17 DEF Gets, Alike
<1>19. /\ \A e \in Coro \ {r} : u.res[e] = ses.res[e] \/ (u.res[e] = "err" /\ e \in Detectors)
       /\ \A ch \in Chan, e \in Coro : Waits(u, ch, e) =>
              Waits(ses, ch, e) \/ (e = r /\ Spot(u.pc[e], e, u.msg) = ch)
  <2>1. \A ch \in Chan, e \in Coro : Waits(s, ch, e) <=> Waits(ses, ch, e)
    BY <1>14, SameWaits
  <2> QED
    BY <1>3, <1>14, <1>17, <1>18, <2>1 DEF Gets, Went, Ran
<1>20. \A e \in Readers : e # r => u.msg[e] = ses.msg[e]
  BY <1>5, <1>18
<1>21. Placed(u)
  <2> SUFFICES ASSUME NEW ch \in Chan, NEW e \in Coro, Waits(u, ch, e), Waits(ses, ch, e)
               PROVE  Spot(u.pc[e], e, u.msg) = ch
    BY <1>19 DEF Placed
  <2>1. Spot(ses.pc[e], e, ses.msg) = ch
    BY DEF Free, Steered, Placed
  <2>2. CASE e = r
    <3>1. ASSUME NEW x PROVE Spot(ses.pc[r], r, x) = "processRd"
      <4>1. Spot("head", r, x) = "processRd" /\ Spot("body", r, x) = "processRd"
        BY Spots
      <4> QED
        BY <1>7, <4>1
    <3> QED
      BY <1>18, <2>1, <2>2, <3>1
  <2>3. CASE e # r
    <3>1. e \in Readers \/ ses.pc[e] \notin {"wnew", "wfwd"}
      BY DEF Free, Steered, Steady, Fit
    <3>2. Spot(ses.pc[e], e, u.msg) = Spot(ses.pc[e], e, ses.msg)
      BY <1>20, <2>3, <3>1 DEF Spot
    <3> QED
      BY <1>18, <2>1, <3>2
  <2> QED
    BY <2>2, <2>3
<1>22. Single(u)
  BY <1>18 DEF Free, Steered, Single
<1>23. Steady(u)
  <2>1. ASSUME NEW c \in Coro PROVE Fit(u, c)
    <3>1. Fit(ses, c)
      BY DEF Free, Steered, Steady
    <3>2. c \in Detectors => c \notin Dir /\ c \notin Readers /\ c \notin Connectors /\ c # "setup"
      BY Apart
    <3>3. r \notin Dir /\ r \notin Connectors /\ r \notin Detectors /\ r # "setup"
      BY <1>3, Apart
    <3>4. CASE c = r
      BY <1>18, <3>1, <3>3, <3>4 DEF Fit
    <3>5. CASE c # r
      BY <1>18, <1>19, <3>1, <3>2, <3>5 DEF Fit
    <3> QED
      BY <3>4, <3>5
  <2> QED
    BY <1>18, <2>1 DEF Free, Steered, Steady
<1>24. ASSUME NEW e \in Readers, NEW d \in Dir, Has(u, e, d)
       PROVE  e = r /\ u.msg[r].type = d /\ u.msg[r] = IF m = NewData THEN ses.msg[r] ELSE m
  BY <1>3, <1>5, <1>8, <1>18, <1>24 DEF Has
<1>25. \A d \in Dir : m = NewData /\ ses.msg[r].type = d => Has(ses, r, d)
  BY <1>10, <1>11 DEF Has
<1>26. \A e \in Readers, d \in Dir : ~Takes(u, e, d)
  BY <1>7, <1>8, <1>18 DEF Takes
<1>27. Totals(ses, link) /\ ~ses.closed
  BY <1>3 DEF Free, Fed
<1>28. \A d \in Dir : m.type = d => ses.handled[d] <= m.total /\ m.total <= link.acked[d]
  BY <1>6, <1>27 DEF Totals, q
<1>29. Behind(u)
  <2> SUFFICES ASSUME NEW e \in Readers, NEW d \in Dir, Has(u, e, d)
               PROVE  u.handled[d] <= u.msg[e].total
    BY DEF Behind
  <2> QED
    BY <1>3, <1>18, <1>24, <1>25, <1>28 DEF Free, Steered, Behind
<1>30. Steered(u)
  BY <1>21, <1>22, <1>23, <1>26, <1>29 DEF Steered, Prefix
<1>31. /\ link'.st = link.st /\ link'.seen = link.seen /\ link'.toProc = link.toProc
       /\ link'.fromProc = p /\ link'.acked = link.acked
  BY <1>4, <1>5
<1>32. Linked(u, link')
  <2>1. link.st = "ok"
    BY <1>3 DEF Free, Steered, Steady, Linked, Fit
  <2> QED
    BY <1>18, <1>31, <2>1 DEF Free, Linked
<1>33. Diverted(u, link')
  <2> SUFFICES ASSUME NEW d \in Dir, Downstream(u, link', d)
               PROVE  u.pc[d] \in {"pread", "pwrite"}
    BY DEF Diverted
  <2>1. ASSUME NEW e \in Readers, Has(u, e, d) PROVE Downstream(ses, link, d)
    <3>1. CASE m = NewData
      BY <1>3, <1>24, <1>25, <2>1, <3>1 DEF Downstream
    <3>2. CASE m # NewData
      BY <1>6, <1>24, <2>1, <3>2 DEF Downstream, q
    <3> QED
      BY <3>1, <3>2
  <2>2. ASSUME NEW i \in 1..Len(p), p[i].type = d PROVE Downstream(ses, link, d)
    BY <1>6, <2>2 DEF Downstream, q
  <2>3. Downstream(ses, link, d)
    BY <1>18, <1>31, <2>1, <2>2 DEF Downstream
  <2> QED
    BY <1>18, <1>27, <2>3 DEF Free, Fed, Diverted
<1>34. /\ \A i \in 1..Len(q) : q[i].type = "body" <=> \/ i = 1 /\ \E e \in Readers : ExpectsBody(ses, e)
                                                      \/ i > 1 /\ Announces(q[i - 1])
       /\ q # <<>> => ~Announces(q[Len(q)])
       /\ \A i \in 1..Len(q) : q[i].type = "hb" => ~q[i].new
  BY <1>27 DEF Free, Fed, Paired, q
<1>35. (\E e \in Readers : ExpectsBody(u, e)) <=> Announces(m)
  <2>1. CASE m = NewData
    <3>1. ~Announces(m)
      BY <1>11, <2>1 DEF Announces
    <3>2. \A e \in Readers : ~ExpectsBody(u, e)
      BY <1>8, <1>10, <1>11, <1>18, <2>1 DEF ExpectsBody
    <3> QED
      BY <3>1, <3>2
  <2>2. CASE m # NewData
    <3>1. m.type \in Dir \/ ~m.new
      <4>1. m.type \in Dir \cup {"hb"}
        BY <1>13, <2>2 DEF ResponseHead
      <4> QED
        BY <1>6, <1>34, <4>1
    <3>2. u.msg[r] = m
      BY <1>3, <1>5, <1>18, <2>2
    <3>3. \A e \in Readers : ExpectsBody(u, e) <=> e = r /\ m.type \in Dir /\ m.new
      BY <1>3, <1>8, <1>13, <1>18, <2>2, <3>2 DEF ExpectsBody
    <3> QED
      BY <1>3, <1>11, <2>2, <3>1, <3>3 DEF Announces
  <2> QED
    BY <2>1, <2>2
<1>36. Paired(u, link')
  <2>1. ASSUME NEW i \in 1..Len(p)
        PROVE  p[i].type = "body" <=> \/ i = 1 /\ \E e \in Readers : ExpectsBody(u, e)
                                      \/ i > 1 /\ Announces(p[i - 1])
    <3>1. p[i] = q[i + 1] /\ i + 1 \in 1..Len(q) /\ i + 1 > 1 /\ i \in Nat \ {0}
      BY <1>6
    <3>2. p[i].type = "body" <=> Announces(q[i])
      BY <1>34, <3>1
    <3>3. CASE i = 1
      BY <1>6, <1>35, <3>2, <3>3
    <3>4. CASE i > 1
      <4>1. q[i] = p[i - 1]
        BY <1>6, <3>1, <3>4
      <4> QED
        BY <3>2, <3>4, <4>1
    <3> QED
      BY <3>1, <3>3, <3>4
  <2>2. ASSUME p = <<>> PROVE ~Announces(m)
    <3>1. Len(q) = 1
      BY <1>6, <2>2
    <3> QED
      BY <1>4, <1>6, <1>34, <3>1
  <2>3. ASSUME p # <<>> PROVE ~Announces(p[Len(p)])
    <3>1. Len(p) \in 1..Len(p)
      BY <1>5, <1>6, <2>3 DEF p
    <3>2. p[Len(p)] = q[Len(q)]
      BY <1>6, <3>1
    <3> QED
      BY <1>4, <1>34, <3>2
  <2>4. \A i \in 1..Len(p) : p[i].type = "hb" => ~p[i].new
    BY <1>6, <1>34
  <2> QED
    BY <1>31, <1>35, <2>1, <2>2, <2>3, <2>4 DEF Paired
<1>37. Totals(u, link')
  <2> SUFFICES ASSUME NEW d \in Dir
               PROVE  LET Of(i) == i \in 1..Len(p) /\ p[i].type = d
                      IN  /\ u.handled[d] <= link.acked[d]
                          /\ link.acked[d] <= Len(link.seen[d])
                          /\ \A i \in 1..Len(p) : Of(i) => u.handled[d] <= p[i].total
                                                           /\ p[i].total <= link.acked[d]
                          /\ \A i, j \in 1..Len(p) : Of(i) /\ Of(j) /\ i < j => p[i].total <= p[j].total
                          /\ \A e \in Readers : Has(u, e, d) =>
                                 /\ u.msg[e].total <= link.acked[d]
                                 /\ \A i \in 1..Len(p) : Of(i) => u.msg[e].total <= p[i].total
    BY <1>31 DEF Totals
  <2>1. /\ ses.handled[d] <= link.acked[d] /\ link.acked[d] <= Len(link.seen[d])
        /\ \A i \in 1..Len(q) : q[i].type = d => ses.handled[d] <= q[i].total /\ q[i].total <= link.acked[d]
        /\ \A i, j \in 1..Len(q) : q[i].type = d /\ q[j].type = d /\ i < j => q[i].total <= q[j].total
        /\ \A e \in Readers : Has(ses, e, d) =>
               /\ ses.msg[e].total <= link.acked[d]
               /\ \A i \in 1..Len(q) : q[i].type = d => ses.msg[e].total <= q[i].total
    BY <1>27 DEF Totals, q
  <2>2. ASSUME NEW e \in Readers, Has(u, e, d), NEW i \in 1..Len(p), p[i].type = d
        PROVE  u.msg[e].total <= p[i].total
    <3>1. p[i] = q[i + 1] /\ i + 1 \in 1..Len(q) /\ 1 < i + 1
      BY <1>6
    <3>2. CASE m = NewData
      BY <1>3, <1>24, <1>25, <2>1, <2>2, <3>1, <3>2
    <3>3. CASE m # NewData
      <4>1. e = r /\ u.msg[e] = m /\ m.type = d
        BY <1>24, <2>2, <3>3
      <4> QED
        BY <1>6, <2>1, <2>2, <3>1, <4>1
    <3> QED
      BY <3>2, <3>3
  <2>3. ASSUME NEW e \in Readers, Has(u, e, d) PROVE u.msg[e].total <= link.acked[d]
    BY <1>3, <1>24, <1>25, <1>28, <2>1, <2>3
  <2>4. \A i, j \in 1..Len(p) : p[i].type = d /\ p[j].type = d /\ i < j => p[i].total <= p[j].total
    <3> SUFFICES ASSUME NEW i \in 1..Len(p), NEW j \in 1..Len(p), p[i].type = d, p[j].type = d, i < j
                 PROVE  p[i].total <= p[j].total
      OBVIOUS
    <3>1. /\ p[i] = q[i + 1] /\ i + 1 \in 1..Len(q) /\ p[j] = q[j + 1] /\ j + 1 \in 1..Len(q)
          /\ i + 1 < j + 1
      BY <1>6
    <3> QED
      BY <2>1, <3>1
  <2>5. \A i \in 1..Len(p) : p[i].type = d => u.handled[d] <= p[i].total /\ p[i].total <= link.acked[d]
    BY <1>6, <1>18, <2>1
  <2> QED
    BY <1>18, <2>1, <2>2, <2>3, <2>4, <2>5
<1> QED
  BY <1>4, <1>12, <1>30, <1>32, <1>33, <1>36, <1>37 DEF Free, Fed

\* l is the link after the process took in more, and k after it answered for d.
TakenIn(l) ==
    /\ l.fromProc = link.fromProc /\ l.acked = link.acked
    /\ l = [f \in DOMAIN l |-> l[f]] /\ DOMAIN l = {"st", "toProc", "fromProc", "seen", "acked", "split"}
    /\ \A e \in Dir : Len(link.seen[e]) <= Len(l.seen[e]) /\ Len(l.seen[e]) \in Nat

Answered(l, d, k) ==
    /\ Paired(ses, k) /\ Totals(ses, k)
    /\ k.st = l.st /\ k.seen = l.seen /\ k.toProc = l.toProc
    /\ \A i \in 1..Len(k.fromProc) : \/ k.fromProc[i].type \in {d, "body"}
                                     \/ \E j \in 1..Len(link.fromProc) :
                                            k.fromProc[i] = link.fromProc[j]

\* An answer of direction d, which counts total bytes, joins the answers.
LEMMA AckedOn ==
    ASSUME Inv, Free, ~ses.closed, NEW d \in Dir, NEW l, NEW total \in Nat, NEW act, NEW new \in BOOLEAN,
           TakenIn(l), link.acked[d] <= total, total <= Len(l.seen[d])
    PROVE  Answered(l, d, Acked(l, d, total, act, new))
<1>0. /\ l.fromProc = link.fromProc /\ l.acked = link.acked
      /\ l = [f \in DOMAIN l |-> l[f]] /\ DOMAIN l = {"st", "toProc", "fromProc", "seen", "acked", "split"}
      /\ \A e \in Dir : Len(link.seen[e]) <= Len(l.seen[e]) /\ Len(l.seen[e]) \in Nat
  BY DEF TakenIn
<1> DEFINE k == Acked(l, d, total, act, new)
           q == link.fromProc
           h == [type |-> d, act |-> act, new |-> new, total |-> total]
           p == Append(q, h) \o (IF new THEN <<NewData>> ELSE <<>>)
           n == Len(q)
<1>1. /\ k.st = l.st /\ k.seen = l.seen /\ k.toProc = l.toProc
      /\ k.acked = [link.acked EXCEPT ![d] = total] /\ k.fromProc = p
  BY <1>0 DEF Acked
<1>2. q \in Seq(ResponseHead \cup {NewData}) /\ link.acked \in [Dir -> Nat]
  BY DEF Inv, Surroundings, LinkState
<1>3. /\ n \in Nat /\ Len(p) = IF new THEN n + 2 ELSE n + 1
      /\ \A i \in 1..n : p[i] = q[i]
      /\ p[n + 1] = h /\ (new => p[n + 2] = NewData)
  <2> DEFINE S == ResponseHead \cup {NewData} \cup {h}
             a == Append(q, h)
  <2> HIDE DEF h
  <2>1. q \in Seq(S) /\ h \in S /\ <<NewData>> \in Seq(S)
    BY <1>2
  <2> HIDE DEF S
  <2>2. a \in Seq(S) /\ Len(a) = n + 1 /\ n \in Nat /\ a[n + 1] = h /\ \A i \in 1..n : a[i] = q[i]
    BY <2>1
  <2> HIDE DEF a, q
  <2>3. CASE new
    <3>1. p = a \o <<NewData>>
      BY <2>3 DEF a
    <3> HIDE DEF p
    <3>2. Len(p) = n + 2 /\ p[n + 2] = NewData /\ \A i \in 1..(n + 1) : p[i] = a[i]
      BY <2>1, <2>2, <3>1
    <3> QED
      BY <2>2, <2>3, <3>2
  <2>4. CASE ~new
    <3>1. p = a
      BY <2>2, <2>4 DEF a
    <3> QED
      BY <2>2, <2>4, <3>1
  <2> QED
    BY <2>3, <2>4
<1> HIDE DEF p, k
<1>4. h.type = d /\ h.new = new /\ h.total = total /\ d \notin {"body", "hb"} /\ h.type # "body"
  BY DEF Dir
<1> HIDE DEF h
<1>5. NewData.type = "body" /\ ~Announces(NewData)
  BY DEF NewData, Announces
<1>6. \A i \in 1..Len(p) : i \in 1..n \/ (i = n + 1 /\ p[i] = h)
                           \/ (new /\ i = n + 2 /\ p[i] = NewData)
  BY <1>3
<1>7. /\ \A i \in 1..n : q[i].type = "body" <=> \/ i = 1 /\ \E r \in Readers : ExpectsBody(ses, r)
                                                \/ i > 1 /\ Announces(q[i - 1])
      /\ \A r \in Readers : ExpectsBody(ses, r) => n > 0
      /\ n > 0 => ~Announces(q[n])
      /\ \A i \in 1..n : q[i].type = "hb" => ~q[i].new
  <2>1. q # <<>> <=> n > 0
    BY <1>2
  <2> QED
    BY <2>1 DEF Free, Fed, Paired
<1> HIDE DEF q, n
<1>8. Paired(ses, k)
  <2>1. ASSUME NEW i \in 1..Len(p)
        PROVE  p[i].type = "body" <=> \/ i = 1 /\ \E r \in Readers : ExpectsBody(ses, r)
                                      \/ i > 1 /\ Announces(p[i - 1])
    <3>1. CASE i \in 1..n
      <4>1. p[i] = q[i] /\ (i > 1 => p[i - 1] = q[i - 1])
        <5>1. n \in Nat /\ \A j \in 1..n : p[j] = q[j]
          BY <1>3
        <5>2. i > 1 => i - 1 \in 1..n
          BY <3>1, <5>1
        <5> QED
          BY <3>1, <5>1, <5>2
      <4> QED
        BY <1>7, <3>1, <4>1
    <3>2. CASE i = n + 1 /\ p[i] = h
      <4>1. i > 1 => p[i - 1] = q[n] /\ n > 0
        <5>1. i - 1 = n /\ (i > 1 => n \in 1..n)
          BY <1>3, <3>2
        <5> QED
          BY <1>3, <5>1
      <4>2. i = 1 => ~\E r \in Readers : ExpectsBody(ses, r)
        BY <1>3, <1>7, <3>2
      <4> QED
        BY <1>4, <1>7, <3>2, <4>1, <4>2
    <3>3. CASE new /\ i = n + 2 /\ p[i] = NewData
      <4>1. p[i - 1] = h /\ i > 1
        BY <1>3, <3>3
      <4> QED
        BY <1>4, <1>5, <3>3, <4>1 DEF Announces
    <3> QED
      BY <1>6, <3>1, <3>2, <3>3
  <2>2. p # <<>> /\ ~Announces(p[Len(p)])
    <3>1. Len(p) > 0 /\ p[Len(p)] = IF new THEN NewData ELSE h
      BY <1>3
    <3> QED
      BY <1>4, <1>5, <3>1 DEF Announces
  <2>3. \A i \in 1..Len(p) : p[i].type = "hb" => ~p[i].new
    BY <1>3, <1>4, <1>5, <1>6, <1>7
  <2> QED
    BY <1>1, <2>1, <2>2, <2>3 DEF Paired
<1>9. Totals(ses, k)
  <2> SUFFICES ASSUME NEW e \in Dir
               PROVE  LET Of(i) == i \in 1..Len(p) /\ p[i].type = e
                      IN  /\ ses.handled[e] <= k.acked[e]
                          /\ k.acked[e] <= Len(k.seen[e])
                          /\ \A i \in 1..Len(p) : Of(i) => ses.handled[e] <= p[i].total
                                                           /\ p[i].total <= k.acked[e]
                          /\ \A i, j \in 1..Len(p) : Of(i) /\ Of(j) /\ i < j => p[i].total <= p[j].total
                          /\ \A r \in Readers : Has(ses, r, e) =>
                                 /\ ses.msg[r].total <= k.acked[e]
                                 /\ \A i \in 1..Len(p) : Of(i) => ses.msg[r].total <= p[i].total
    BY <1>1 DEF Totals
  <2>1. /\ ses.handled[e] <= link.acked[e] /\ link.acked[e] <= Len(link.seen[e])
        /\ \A i \in 1..n : q[i].type = e => ses.handled[e] <= q[i].total /\ q[i].total <= link.acked[e]
        /\ \A i, j \in 1..n : q[i].type = e /\ q[j].type = e /\ i < j => q[i].total <= q[j].total
        /\ \A r \in Readers : Has(ses, r, e) =>
               /\ ses.msg[r].total <= link.acked[e]
               /\ \A i \in 1..n : q[i].type = e => ses.msg[r].total <= q[i].total
    BY DEF Free, Fed, Totals, q, n
  <2>2. /\ k.acked[e] = (IF e = d THEN total ELSE link.acked[e]) /\ link.acked[e] \in Nat
        /\ link.acked[e] <= k.acked[e] /\ k.acked[e] \in Nat /\ k.acked[e] <= Len(k.seen[e])
    BY <1>0, <1>1, <1>2, <2>1
  <2>3. /\ ses.handled \in [Dir -> Nat] /\ ses.msg \in [Readers -> ResponseHead]
        /\ \A i \in 1..n : q[i].type = e => q[i].total \in Nat
    <3>1. \A x \in ResponseHead \cup {NewData} : x.type = e => x.total \in Nat
      BY <1>5 DEF ResponseHead, Dir
    <3>2. \A i \in 1..n : q[i] \in ResponseHead \cup {NewData}
      BY <1>2 DEF q, n
    <3> QED
      BY <3>1, <3>2 DEF Inv, Sane, Formed, SessionState
  <2>4. \A r \in Readers : ses.msg[r].total \in Nat
    BY <2>3 DEF ResponseHead
  <2>5. ASSUME NEW i \in 1..Len(p), p[i].type = e
        PROVE  (i \in 1..n /\ p[i] = q[i] /\ q[i].type = e) \/ (i = n + 1 /\ p[i].total = k.acked[e])
    <3>1. e # "body"
      BY DEF Dir
    <3> QED
      BY <1>3, <1>4, <1>5, <1>6, <2>2, <2>5, <3>1
  <2>6. \A i \in 1..Len(p) : p[i].type = e => ses.handled[e] <= p[i].total /\ p[i].total <= k.acked[e]
    BY <2>1, <2>2, <2>3, <2>5
  <2>7. ASSUME NEW i \in 1..Len(p), NEW j \in 1..Len(p), p[i].type = e, p[j].type = e, i < j
        PROVE  p[i].total <= p[j].total
    <3>1. CASE j \in 1..n
      <4>1. i \in 1..n
        BY <1>3, <2>7, <3>1
      <4> QED
        BY <1>3, <2>1, <2>7, <3>1, <4>1
    <3>2. CASE j = n + 1 /\ p[j].total = k.acked[e]
      BY <2>6, <2>7, <3>2
    <3> QED
      BY <2>5, <2>7, <3>1, <3>2
  <2>8. ASSUME NEW r \in Readers, Has(ses, r, e)
        PROVE  /\ ses.msg[r].total <= k.acked[e]
               /\ \A i \in 1..Len(p) : p[i].type = e => ses.msg[r].total <= p[i].total
    BY <2>1, <2>2, <2>3, <2>4, <2>5, <2>8
  <2>9. ses.handled[e] <= k.acked[e]
    BY <2>1, <2>2, <2>3
  <2> QED
    BY <2>2, <2>6, <2>7, <2>8, <2>9
<1>10. \A i \in 1..Len(p) : \/ p[i].type \in {d, "body"}
                            \/ \E j \in 1..n : p[i] = q[j]
  BY <1>3, <1>4, <1>5, <1>6
<1> QED
  BY <1>1, <1>8, <1>9, <1>10 DEF k, q, n, Answered

\* The process takes messages and answers them.
LEMMA ProcessFree ==
    ASSUME Inv, Order, Free, MaxFaults = 0, ProcessStep
    PROVE  Free'
<1>1. faults = 0 /\ Steered(ses) /\ Linked(ses, link) /\ Fed(ses, link)
  BY DEF Free
<1>2. /\ link = [f \in DOMAIN link |-> link[f]]
      /\ DOMAIN link = {"st", "toProc", "fromProc", "seen", "acked", "split"}
      /\ link.toProc \in Seq(Message) /\ link.fromProc \in Seq(ResponseHead \cup {NewData})
      /\ link.seen \in [Dir -> Seq(Nat)] /\ link.acked \in [Dir -> Nat]
  BY DEF Inv, Surroundings, LinkState
<1>3. ASSUME ses' = ses, faults' = faults, link.st = "ok",
             link'.st = link.st, Fed(ses, link')
      PROVE  Free'
  <2>1. Linked(ses, link')
    BY <1>1, <1>3 DEF Linked
  <2> QED
    BY <1>1, <1>3, <2>1 DEF Free
<1>4. ASSUME link.st = "ok",
             \A d \in Dir : Downstream(ses, link', d) => Downstream(ses, link, d)
      PROVE  Diverted(ses, link')
  BY <1>1, <1>4 DEF Fed, Diverted
<1>5. CASE ProcessTakes
  <2> DEFINE m == Head(link.toProc)
             d == m.kind
             rest == [link EXCEPT !.toProc = Tail(@)]
             l == [rest EXCEPT !.seen[d] = @ \o m.bytes]
             all == Len(l.seen[d])
             w == [l EXCEPT !.split[d] = TRUE]
  <2>1. link.toProc # <<>> /\ link.st = "ok" /\ ses' = ses /\ faults' = faults
    BY <1>5 DEF ProcessTakes
  <2>2. /\ m \in Message /\ m = link.toProc[1] /\ 1 \in 1..Len(link.toProc)
        /\ \A i \in 1..Len(Tail(link.toProc)) :
               Tail(link.toProc)[i] = link.toProc[i + 1] /\ i + 1 \in 1..Len(link.toProc)
    BY <1>2, <2>1
  <2>3. m.bytes # <<>> => d \in Dir /\ m.bytes \in Seq(Nat)
    BY <2>2 DEF Message
  <2>4. m.bytes # <<>> => Downstream(ses, link, d)
    BY <2>2 DEF Downstream
  <2>5. /\ rest.st = link.st /\ rest.toProc = Tail(link.toProc) /\ rest.fromProc = link.fromProc
        /\ rest.seen = link.seen /\ rest.acked = link.acked
        /\ rest = [f \in DOMAIN rest |-> rest[f]] /\ DOMAIN rest = DOMAIN link
    BY <1>2
  <2>6. CASE m.bytes = <<>> /\ link' = rest
    <3>1. \A e \in Dir : Downstream(ses, link', e) => Downstream(ses, link, e)
      BY <2>2, <2>5, <2>6 DEF Downstream
    <3>2. Paired(ses, link') /\ Totals(ses, link')
      BY <1>1, <2>5, <2>6 DEF Fed, Paired, Totals
    <3> QED
      BY <1>3, <1>4, <2>1, <2>5, <2>6, <3>1, <3>2 DEF Fed
  <2>7. CASE m.bytes # <<>>
    <3>1. PICK k, total, act, new :
              /\ k = l \/ k = w
              /\ total = all \/ total \in (l.acked[d] + 1)..(all - 1)
              /\ new \in BOOLEAN
              /\ link' = Acked(k, d, total, act, new)
      BY <1>5, <2>7, Zenon DEF ProcessTakes, Passes
    <3> HIDE DEF rest, m
    <3>2. /\ l.st = link.st /\ l.toProc = rest.toProc /\ l.fromProc = link.fromProc
          /\ l.acked = link.acked /\ l.seen = [link.seen EXCEPT ![d] = @ \o m.bytes]
          /\ l = [f \in DOMAIN l |-> l[f]] /\ DOMAIN l = DOMAIN link
      BY <1>2, <2>5
    <3> HIDE DEF l
    <3>3. /\ k.st = link.st /\ k.toProc = rest.toProc /\ k.fromProc = link.fromProc
          /\ k.acked = link.acked /\ k.seen = l.seen
          /\ k = [f \in DOMAIN k |-> k[f]] /\ DOMAIN k = DOMAIN link
      <4>1. CASE k = l
        BY <3>2, <4>1
      <4>2. CASE k = w
        BY <1>2, <3>2, <4>2
      <4> QED
        BY <3>1, <4>1, <4>2
    <3> HIDE DEF w, d
    <3>4. /\ d \in Dir /\ \A e \in Dir : e # d => k.seen[e] = link.seen[e]
          /\ Len(k.seen[d]) = Len(link.seen[d]) + Len(m.bytes)
          /\ Len(m.bytes) \in Nat /\ Len(link.seen[d]) \in Nat
      <4>1. d \in Dir /\ m.bytes \in Seq(Nat) /\ link.seen[d] \in Seq(Nat)
        BY <1>2, <2>3, <2>7
      <4>2. k.seen[d] = link.seen[d] \o m.bytes /\ \A e \in Dir : e # d => k.seen[e] = link.seen[e]
        BY <1>2, <3>2, <3>3, <4>1
      <4> QED
        BY <4>1, <4>2
    <3>5. \A e \in Dir : Len(link.seen[e]) <= Len(k.seen[e]) /\ Len(k.seen[e]) \in Nat
      <4>1. \A e \in Dir : link.seen[e] \in Seq(Nat)
        BY <1>2
      <4>2. ASSUME NEW e \in Dir
            PROVE  Len(link.seen[e]) <= Len(k.seen[e]) /\ Len(k.seen[e]) \in Nat
        <5>1. CASE e = d
          <6>1. /\ Len(k.seen[e]) = Len(link.seen[e]) + Len(m.bytes)
                /\ Len(m.bytes) \in Nat /\ Len(link.seen[e]) \in Nat
            BY <3>4, <5>1
          <6>2. \A x, y \in Nat : x <= x + y /\ x + y \in Nat
            OBVIOUS
          <6> QED
            BY <6>1, <6>2, Zenon
        <5>2. CASE e # d
          <6>1. k.seen[e] = link.seen[e] /\ Len(link.seen[e]) \in Nat
            BY <3>4, <4>1, <5>2
          <6> QED
            BY <6>1
        <5> QED
          BY <5>1, <5>2
      <4> QED
        BY <4>2
    <3>6. ~ses.closed => link.acked[d] <= Len(link.seen[d])
      BY <1>1, <3>4 DEF Fed, Totals
    <3>7. CASE ses.closed
      <4>1. Fed(ses, link')
        BY <3>7, ClosedFed
      <4>2. link'.st = link.st
        BY <1>2, <3>1, <3>3 DEF Acked
      <4> QED
        BY <1>3, <2>1, <4>1, <4>2
    <3>8. CASE ~ses.closed
      <4>1. all = Len(k.seen[d]) /\ link.acked[d] \in Nat
        BY <1>2, <3>3, <3>4
      <4>2. total \in Nat /\ link.acked[d] <= total /\ total <= Len(k.seen[d])
        <5> HIDE DEF all
        <5>1. l.acked[d] = link.acked[d]
          BY <3>2
        <5> DEFINE x == link.acked[d]
                   y == Len(k.seen[d])
        <5>2. /\ total = all \/ total \in (x + 1)..(all - 1)
              /\ all = y /\ x \in Nat /\ y \in Nat /\ x <= y
          <6>1. x <= Len(link.seen[d])
            BY <3>6, <3>8
          <6>2. Len(link.seen[d]) <= y /\ y \in Nat /\ Len(link.seen[d]) \in Nat
            BY <3>4, <3>5
          <6> QED
            BY <3>1, <4>1, <5>1, <6>1, <6>2
        <5> HIDE DEF x, y
        <5>3. total \in Nat /\ x <= total /\ total <= y
          BY <5>2
        <5> QED
          BY <5>3 DEF x, y
      <4> DEFINE z == Acked(k, d, total, act, new)
      <4>3. Answered(k, d, z)
        <5>1. TakenIn(k)
          BY <1>2, <3>3, <3>5 DEF TakenIn
        <5>2. d \in Dir /\ new \in BOOLEAN /\ link.acked[d] <= total /\ total <= Len(k.seen[d])
          BY <3>1, <3>4, <4>2
        <5> QED
          BY <3>8, <4>2, <5>1, <5>2, AckedOn
      <4>4. link' = z
        BY <3>1
      <4> HIDE DEF z
      <4>5. ASSUME NEW e \in Dir, Downstream(ses, z, e) PROVE Downstream(ses, link, e)
        <5>1. CASE e = d
          BY <2>4, <2>7, <5>1 DEF d
        <5>2. CASE e # d
          <6>1. e # "body"
            BY DEF Dir
          <6>2. z.seen[e] = link.seen[e] /\ z.toProc = Tail(link.toProc)
            BY <2>5, <3>3, <3>4, <4>3, <5>2 DEF Answered
          <6>3. (\E i \in 1..Len(z.fromProc) : z.fromProc[i].type = e) =>
                    \E i \in 1..Len(link.fromProc) : link.fromProc[i].type = e
            BY <4>3, <5>2, <6>1 DEF Answered
          <6>4. (\E i \in 1..Len(z.toProc) : z.toProc[i].kind = e /\ z.toProc[i].bytes # <<>>) =>
                    \E i \in 1..Len(link.toProc) : link.toProc[i].kind = e /\ link.toProc[i].bytes # <<>>
            BY <2>2, <6>2
          <6> QED
            BY <4>5, <6>2, <6>3, <6>4 DEF Downstream
        <5> QED
          BY <5>1, <5>2
      <4> QED
        BY <1>3, <1>4, <2>1, <3>3, <4>3, <4>4, <4>5 DEF Fed, Answered
    <3> QED
      BY <3>7, <3>8
  <2> QED
    BY <1>5, <2>6, <2>7 DEF ProcessTakes
<1>6. ASSUME NEW d \in Dir, ProcessGoesOn(d) PROVE Free'
  <2> DEFINE z == Acked(link, d, Len(link.seen[d]), "pass", FALSE)
  <2>1. /\ link.st = "ok" /\ ses' = ses /\ faults' = faults
        /\ link.acked[d] < Len(link.seen[d]) /\ link' = z
    BY <1>6 DEF ProcessGoesOn, Passes
  <2>2. \A e \in Dir : Len(link.seen[e]) \in Nat
    BY <1>2
  <2>3. link.acked[d] \in Nat /\ link.seen[d] # <<>>
    BY <1>2, <2>1
  <2>4. z.st = link.st
    BY <1>2 DEF Acked
  <2>5. CASE ses.closed
    BY <1>3, <2>1, <2>4, <2>5, ClosedFed
  <2>6. CASE ~ses.closed
    <3> DEFINE total == Len(link.seen[d])
    <3>3. total \in Nat /\ link.acked[d] <= total /\ total <= Len(link.seen[d])
      <4>1. total \in Nat
        BY <2>2
      <4> QED
        BY <2>1, <2>3, <4>1
    <3>4. TakenIn(link)
      BY <1>2, <2>2 DEF TakenIn
    <3> HIDE DEF total
    <3>1. Answered(link, d, Acked(link, d, total, "pass", FALSE))
      BY <2>6, <3>3, <3>4, AckedOn
    <3>5. Answered(link, d, z)
      BY <3>1 DEF total
    <3> HIDE DEF z
    <3>2. ASSUME NEW e \in Dir, Downstream(ses, z, e) PROVE Downstream(ses, link, e)
      <4>1. CASE e = d
        BY <2>3, <4>1 DEF Downstream
      <4>2. CASE e # d
        <5>1. e # "body"
          BY DEF Dir
        <5> QED
          BY <3>2, <3>5, <4>2, <5>1 DEF Answered, Downstream
      <4> QED
        BY <4>1, <4>2
    <3> QED
      BY <1>3, <1>4, <2>1, <3>2, <3>5 DEF Answered, Fed
  <2> QED
    BY <2>5, <2>6
<1>7. CASE ProcessBeats
  <2> DEFINE q == link.fromProc
             p == Append(q, NoHead)
             n == Len(q)
  <2>1. /\ link.st = "ok" /\ ses' = ses /\ faults' = faults
        /\ link' = [link EXCEPT !.fromProc = Append(@, NoHead)]
    BY <1>7 DEF ProcessBeats
  <2>2. /\ link'.st = link.st /\ link'.seen = link.seen /\ link'.toProc = link.toProc
        /\ link'.fromProc = p /\ link'.acked = link.acked
    BY <1>2, <2>1
  <2>3. NoHead.type = "hb" /\ ~NoHead.new /\ ~Announces(NoHead) /\ NoHead.type \notin Dir
    BY DEF NoHead, Announces, Dir
  <2>4. /\ n \in Nat /\ Len(p) = n + 1 /\ p[n + 1] = NoHead /\ (q # <<>> <=> n > 0)
        /\ p # <<>>
    BY <1>2
  <2>12. \A i \in 1..n : p[i] = q[i]
    BY <1>2
  <2>13. \A i \in 1..n : i > 1 => i - 1 \in 1..n
    BY <2>4
  <2> HIDE DEF p, n
  <2>5. \A i \in 1..Len(p) : i \in 1..n \/ i = n + 1
    BY <2>4
  <2>6. ASSUME ~ses.closed PROVE Paired(ses, link')
    <3>1. /\ \A i \in 1..n : q[i].type = "body" <=> \/ i = 1 /\ \E r \in Readers : ExpectsBody(ses, r)
                                                    \/ i > 1 /\ Announces(q[i - 1])
          /\ \A r \in Readers : ExpectsBody(ses, r) => n > 0
          /\ n > 0 => ~Announces(q[n])
          /\ \A i \in 1..n : q[i].type = "hb" => ~q[i].new
      BY <1>1, <2>4, <2>6 DEF Fed, Paired, n
    <3>2. ASSUME NEW i \in 1..Len(p)
          PROVE  p[i].type = "body" <=> \/ i = 1 /\ \E r \in Readers : ExpectsBody(ses, r)
                                        \/ i > 1 /\ Announces(p[i - 1])
      <4>1. CASE i \in 1..n
        <5>1. p[i] = q[i] /\ (i > 1 => p[i - 1] = q[i - 1])
          BY <2>12, <2>13, <4>1
        <5> QED
          BY <3>1, <4>1, <5>1
      <4>2. CASE i = n + 1
        <5>1. i - 1 = n /\ (i > 1 => n \in 1..n /\ n > 0) /\ (i = 1 => ~(n > 0))
          BY <2>4, <4>2
        <5>2. i > 1 => p[i - 1] = q[n]
          BY <2>12, <5>1
        <5> QED
          BY <2>3, <2>4, <3>1, <4>2, <5>1, <5>2
      <4> QED
        BY <2>5, <4>1, <4>2
    <3>3. ~Announces(p[Len(p)]) /\ \A i \in 1..Len(p) : p[i].type = "hb" => ~p[i].new
      BY <2>3, <2>4, <2>5, <2>12, <3>1
    <3> QED
      BY <2>2, <2>4, <3>2, <3>3 DEF Paired
  <2>7. ASSUME NEW d \in Dir, NEW i \in 1..Len(p), p[i].type = d
        PROVE  i \in 1..n /\ p[i] = q[i]
    BY <2>3, <2>4, <2>5, <2>7, <2>12
  <2>8. ASSUME ~ses.closed PROVE Totals(ses, link')
    <3> SUFFICES ASSUME NEW d \in Dir
                 PROVE  LET Of(i) == i \in 1..Len(p) /\ p[i].type = d
                        IN  /\ ses.handled[d] <= link.acked[d]
                            /\ link.acked[d] <= Len(link.seen[d])
                            /\ \A i \in 1..Len(p) : Of(i) => ses.handled[d] <= p[i].total
                                                             /\ p[i].total <= link.acked[d]
                            /\ \A i, j \in 1..Len(p) : Of(i) /\ Of(j) /\ i < j => p[i].total <= p[j].total
                            /\ \A e \in Readers : Has(ses, e, d) =>
                                   /\ ses.msg[e].total <= link.acked[d]
                                   /\ \A i \in 1..Len(p) : Of(i) => ses.msg[e].total <= p[i].total
      BY <2>2 DEF Totals
    <3>1. /\ ses.handled[d] <= link.acked[d] /\ link.acked[d] <= Len(link.seen[d])
          /\ \A i \in 1..n : q[i].type = d => ses.handled[d] <= q[i].total /\ q[i].total <= link.acked[d]
          /\ \A i, j \in 1..n : q[i].type = d /\ q[j].type = d /\ i < j => q[i].total <= q[j].total
          /\ \A r \in Readers : Has(ses, r, d) =>
                 /\ ses.msg[r].total <= link.acked[d]
                 /\ \A i \in 1..n : q[i].type = d => ses.msg[r].total <= q[i].total
      BY <1>1, <2>8 DEF Fed, Totals, n
    <3> HIDE DEF q
    <3>2. \A i \in 1..Len(p) : p[i].type = d => i \in 1..n /\ p[i] = q[i]
      BY <2>7
    <3> QED
      BY <3>1, <3>2
  <2>9. ASSUME NEW d \in Dir, Downstream(ses, link', d) PROVE Downstream(ses, link, d)
    <3>1. (\E i \in 1..Len(p) : p[i].type = d) => \E i \in 1..n : q[i].type = d
      BY <2>7
    <3>2. link'.fromProc = p /\ link'.seen = link.seen /\ link'.toProc = link.toProc
      BY <2>2
    <3> QED
      BY <2>9, <3>1, <3>2 DEF Downstream, q, n
  <2>10. CASE ses.closed
    BY <1>3, <2>1, <2>2, <2>10, ClosedFed
  <2>11. CASE ~ses.closed
    BY <1>3, <1>4, <2>1, <2>2, <2>6, <2>8, <2>9, <2>11 DEF Fed
  <2> QED
    BY <2>10, <2>11
<1>8. CASE ProcessDies \/ ProcessHangs
  BY <1>1, <1>8 DEF ProcessDies, ProcessHangs
<1>9. CASE ProcessStarts
  BY <1>1, <1>9 DEF ProcessStarts, Free
<1> QED
  BY <1>5, <1>6, <1>7, <1>8, <1>9 DEF ProcessStep

-----------------------------------------------------------------------------
(***************************************************************************)
(* The handlers that move data, or turn to the process.                    *)
(***************************************************************************)
\* Sessions that differ in their data, and in the state of the connection.
Twin(st, b) ==
    /\ Whole(b)
    /\ b.closed = st.closed /\ b.broken = st.broken /\ b.wait = st.wait
    /\ b.pc = st.pc /\ b.res = st.res /\ b.msg = st.msg
    /\ b.sock["process"] = "conn" <=> st.sock["process"] = "conn"

LEMMA TwinHas ==
    ASSUME NEW st, NEW b, Twin(st, b)
    PROVE  /\ \A r, d : (Has(b, r, d) <=> Has(st, r, d)) /\ (Takes(b, r, d) <=> Takes(st, r, d))
           /\ \A r : ExpectsBody(b, r) <=> ExpectsBody(st, r)
           /\ \A ch, c : Waits(b, ch, c) <=> Waits(st, ch, c)
           /\ Placed(st) => Placed(b)
           /\ Single(st) => Single(b)
BY DEF Twin, Has, Takes, ExpectsBody, Waits, Placed, Single

\* Only the data differ.
LEMMA TwinSteady ==
    ASSUME NEW st, NEW b, Twin(st, b), b.bypass = st.bypass, b.sock["process"] = st.sock["process"],
           Steady(st)
    PROVE  Steady(b)
BY DEF Twin, Steady, Fit

\* A handler of c, from other data b.
LEMMA TwinFree ==
    ASSUME Inv, Order, Free, NEW c, NEW ls, NEW x, Runs(c, ls, x), "idle" \notin ls,
           NEW b, Twin(ses, b), Behind(b), Fed(b, link),
           NEW u, Went(b, u, {c}), Becomes(u), Steady(u), Prefix(u),
           c \in Dir /\ ~u.closed => u.pc[c] \in {"pread", "pwrite"},
           c \in Readers => /\ \A d \in Dir : Has(u, c, d) => Has(ses, c, d)
                            /\ u.closed \/ (ExpectsBody(u, c) <=> ExpectsBody(ses, c)),
           u.sock["process"] = "conn" <=> ses.sock["process"] = "conn"
    PROVE  Free'
<1>1. /\ Whole(ses) /\ c \in Coro /\ ses.pc[c] # "idle"
      /\ \A ch \in Chan : ~Waits(ses, ch, c)
      /\ ses.msg \in [Readers -> ResponseHead]
  BY Starts
<1>2. /\ Steered(ses) /\ Linked(ses, link) /\ faults = 0
  BY DEF Free
<1>3. /\ \A r, d : (Has(b, r, d) <=> Has(ses, r, d)) /\ (Takes(b, r, d) <=> Takes(ses, r, d))
      /\ \A r : ExpectsBody(b, r) <=> ExpectsBody(ses, r)
      /\ \A ch, e : Waits(b, ch, e) <=> Waits(ses, ch, e)
      /\ Placed(b) /\ Single(b)
  BY <1>2, TwinHas DEF Steered
<1>4. b.pc = ses.pc /\ b.msg = ses.msg /\ Whole(b)
  BY DEF Twin
<1>5. Ran(b, u, {c})
  BY DEF Went
<1>6. Placed(u)
  <2>1. \A e \in {c} \cap Coro, ch \in Chan : Waits(b, ch, e) => u.pc[e] = b.pc[e]
    BY <1>1, <1>3
  <2> QED
    BY <1>3, <1>5, <2>1, PlacedOn
<1>7. Single(u)
  <2>1. \E y : \A e \in {c} \cap (Connectors \cup Readers) :
            u.pc[e] # "idle" => e = y /\ c \in Connectors \cup Readers
    OBVIOUS
  <2>2. c \in {c} /\ b.pc[c] # "idle"
    BY <1>1, <1>4
  <2> QED
    BY <1>3, <1>5, <2>1, <2>2, SingleOn
<1>8. \A r \in {c} \cap Readers, d \in Dir : Has(u, r, d) => Has(b, r, d)
  BY <1>3
<1>9. Behind(u)
  BY <1>1, <1>4, <1>8, BehindOn
<1>10. Steered(u)
  BY <1>6, <1>7, <1>9 DEF Steered
<1>11. link' = link /\ Linked(u, link')
  <2>1. link' = IF u.sock["process"] = "conn" THEN link ELSE NoLink
    BY DEF Becomes
  <2>2. NoLink.st = "none"
    BY DEF NoLink
  <2> QED
    BY <1>2, <2>1, <2>2 DEF Linked
<1>12. Fed(u, link')
  <2>1. \A d \in {c} \cap Dir : ~u.closed /\ b.pc[d] \in {"pread", "pwrite"}
                                    => u.pc[d] \in {"pread", "pwrite"}
    OBVIOUS
  <2>2. \A r \in {c} \cap Readers : ~u.closed => (ExpectsBody(u, r) <=> ExpectsBody(b, r))
    BY <1>3
  <2> QED
    BY <1>8, <1>11, <2>1, <2>2, FedOn
<1>13. ses' = u /\ faults' = faults
  BY DEF Becomes, outside
<1> QED
  BY <1>2, <1>10, <1>11, <1>12, <1>13 DEF Free

\* What was taken from the front stays there while packets are added.
LEMMA FirstLonger ==
    ASSUME NEW q \in Seq(Byte), NEW p \in Seq(Byte), NEW out, NEW cut, First(q, out, cut),
           Len(out) \in Nat
    PROVE  First(q \o p, out, cut)
<1> DEFINE w == q \o p
           n == Len(out)
           m == n - cut.used
<1>1. /\ cut.used \in Nat /\ m \in Nat /\ n <= Len(q)
      /\ \A i \in 1..n : out[i] = q[i].b
      /\ m = 0 \/ q[m].end
      /\ cut.pkts = Cardinality({e \in Ends(q) : e <= m})
      /\ \A i \in (m + 1)..(n - 1) : ~q[i].end
  BY DEF First
<1>2. /\ Len(w) = Len(q) + Len(p) /\ Len(q) \in Nat /\ Len(p) \in Nat
      /\ \A i \in 1..Len(q) : w[i] = q[i]
  BY ConcatProperties
<1>3. n \in Nat /\ n = m + cut.used
  BY <1>1
<1> HIDE DEF w, n, m
<1>4. n <= Len(w) /\ m <= Len(q) /\ \A i \in 1..n : w[i] = q[i]
  BY <1>1, <1>2, <1>3
<1>5. m = 0 \/ w[m].end
  BY <1>1, <1>2, <1>4
<1>6. {e \in Ends(w) : e <= m} = {e \in Ends(q) : e <= m}
  BY <1>1, <1>2, <1>4 DEF Ends
<1>7. ASSUME NEW i \in (m + 1)..(n - 1) PROVE ~w[i].end
  <2>1. i \in 1..n
    <3>1. m \in Nat /\ n \in Nat
      BY <1>1, <1>3
    <3> QED
      BY <3>1
  <2>2. w[i] = q[i] /\ ~q[i].end
    BY <1>1, <1>4, <2>1
  <2> QED
    BY <2>2
<1> QED
  BY <1>1, <1>4, <1>5, <1>6, <1>7 DEF First, w, n, m

\* What is read for the process is stored, and sent to it.
LEMMA StoreFree ==
    ASSUME Inv, Order, Free, NEW d \in Dir, ReadForProcess(d)
    PROVE  Free' /\ UNCHANGED outside /\ (ses'.closed \/ (link' = link /\ Stores(ses, ses', d)))
<1> DEFINE p == Packet(st0.data[d])
           b == [st0 EXCEPT !.stored[d] = @ \o p]
           u == AwaitIo(b, d, "pwrite", "process", "processWr")
<1>1. Runs(d, {"pread"}, "ok") /\ "idle" \notin {"pread"} /\ Becomes(u)
  BY DEF ReadForProcess, StoreAndSend
<1>2. /\ Whole(ses) /\ Whole(st0) /\ Went(ses, st0, {}) /\ Alike(ses, st0)
      /\ st0.sock = ses.sock /\ st0.pc = ses.pc /\ st0.res = ses.res
      /\ ses.pc[d] = "pread" /\ ses.res[d] = "ok" /\ d \in Coro
  BY <1>1, Starts DEF Runs
<1>3. /\ ses.stored \in [Dir -> Seq(Byte)] /\ ses.data \in [Dir \cup Readers -> Seq(Nat)]
      /\ ses.msg \in [Readers -> ResponseHead]
  BY DEF Inv, Sane, Formed, SessionState, Byte
<1>4. p \in Seq(Byte)
  BY <1>2, <1>3, PacketType DEF Alike
<1> HIDE DEF p
<1>5. st0 = [f \in DOMAIN st0 |-> st0[f]] /\ DOMAIN st0 = Parts /\ st0.sock = [k \in Sock |-> st0.sock[k]]
  BY <1>2 DEF Whole, Ready
<1>6. st0.wait = ses.wait
  BY DEF st0, Pop
<1>7. /\ b = [f \in DOMAIN b |-> b[f]] /\ DOMAIN b = DOMAIN st0
      /\ b.runq = st0.runq /\ b.wait = st0.wait /\ b.pc = st0.pc /\ b.res = st0.res
      /\ b.sock = st0.sock /\ b.closed = st0.closed /\ b.bypass = st0.bypass
      /\ b.broken = st0.broken /\ b.msg = st0.msg /\ b.handled = st0.handled
      /\ b.data = st0.data /\ b.cut = st0.cut
      /\ b.stored = [st0.stored EXCEPT ![d] = @ \o p]
  BY <1>5 DEF Parts
<1> HIDE DEF b
<1>8. Whole(b)
  BY <1>2, <1>5, <1>7, WholeAside
<1>9. /\ b.closed = ses.closed /\ b.broken = ses.broken /\ b.wait = ses.wait /\ b.pc = ses.pc
      /\ b.res = ses.res /\ b.msg = ses.msg /\ b.bypass = ses.bypass /\ b.handled = ses.handled
      /\ b.data = ses.data /\ b.cut = ses.cut /\ b.sock = ses.sock
      /\ b.stored[d] = ses.stored[d] \o p
      /\ \A e \in Dir : e # d => b.stored[e] = ses.stored[e]
  BY <1>2, <1>3, <1>6, <1>7 DEF Alike
<1>10. Twin(ses, b)
  BY <1>8, <1>9 DEF Twin
<1>11. /\ \A r, e : (Has(b, r, e) <=> Has(ses, r, e)) /\ (Takes(b, r, e) <=> Takes(ses, r, e))
       /\ \A r : ExpectsBody(b, r) <=> ExpectsBody(ses, r)
  BY <1>10, TwinHas
<1>12. Behind(b)
  BY <1>9, <1>11 DEF Behind, Free, Steered
<1>13. Prefix(b)
  <2> SUFFICES ASSUME NEW r \in Readers, NEW e \in Dir, Takes(ses, r, e)
               PROVE  First(b.stored[e], ses.data[r], ses.cut[r])
    BY <1>9, <1>11 DEF Prefix
  <2>1. First(ses.stored[e], ses.data[r], ses.cut[r])
    BY DEF Free, Steered, Prefix
  <2>2. CASE e = d
    <3>1. ses.stored[d] \in Seq(Byte) /\ Len(ses.data[r]) \in Nat
      BY <1>3
    <3> QED
      BY <1>4, <1>9, <2>1, <2>2, <3>1, FirstLonger
  <2>3. CASE e # d
    BY <1>9, <2>1, <2>3
  <2> QED
    BY <2>2, <2>3
<1>14. Steady(b) /\ Fit(ses, d) /\ Steady(ses)
  BY <1>2, <1>9, <1>10, TwinSteady DEF Free, Steered, Steady
<1>15. Fed(b, link)
  <2>1. Paired(b, link) /\ Totals(b, link)
    BY <1>9, <1>11 DEF Free, Fed, Paired, Totals
  <2>2. ASSUME ~ses.closed, NEW e \in Dir, Downstream(b, link, e)
        PROVE  ses.pc[e] \in {"pread", "pwrite"}
    <3>1. CASE e = d
      BY <1>2, <3>1
    <3>2. CASE e # d
      BY <1>9, <1>11, <2>2, <3>2 DEF Free, Fed, Diverted, Downstream
    <3> QED
      BY <3>1, <3>2
  <2> QED
    BY <1>9, <2>1, <2>2 DEF Fed, Diverted
<1>16. ~ses.closed => ~ses.bypass /\ ses.sock["process"] = "conn"
  BY <1>2, <1>14 DEF Steady, Fit
<1>17. /\ b.sock["process"] = "conn" => Comes(b, u, d, "pwrite", "none")
       /\ b.sock["process"] # "conn" => Comes(b, u, d, "pwrite", "err")
  <2>1. /\ d \in Dir \cup Connectors \cup Readers /\ "pwrite" \in Label /\ "processWr" # "detect"
        /\ "processWr" \in Chan /\ Spot("pwrite", d, b.msg) = "processWr"
    BY Channels, Spots
  <2> QED
    BY <1>8, <2>1, AwaitIoWent
<1> HIDE DEF u
<1>18. /\ Went(b, u, {d}) /\ Alike(b, u) /\ u.sock = b.sock /\ u.pc[d] = "pwrite"
       /\ u.res[d] = "none" \/ (u.res[d] = "err" /\ u.closed)
  BY <1>9, <1>16, <1>17 DEF Comes, Alike
<1>19. Fit(u, d)
  <2>1. ~(d = "res" /\ ResponseBypass /\ ~u.closed)
    BY <1>2, <1>9, <1>14, <1>18 DEF Fit, Alike
  <2>2. d \notin Connectors /\ d \notin Readers /\ d \notin Detectors /\ d # "setup"
    BY Apart
  <2>3. ~u.closed => ~u.bypass
    BY <1>9, <1>16, <1>18 DEF Alike
  <2> QED
    BY <1>18, <2>1, <2>2, <2>3 DEF Fit
<1>20. Steady(u)
  <2>1. \A e \in {d} \cap Coro : Fit(u, e)
    BY <1>19
  <2> QED
    BY <1>8, <1>14, <1>18, <2>1, SteadyOn
<1>21. Prefix(u)
  <2>1. d \notin Readers
    BY Apart
  <2>2. \A r \in {d} \cap Readers, e \in Dir :
            Takes(u, r, e) => Takes(b, r, e) /\ u.data[r] = b.data[r] /\ u.cut[r] = b.cut[r]
    BY <2>1
  <2> QED
    BY <1>13, <1>18, <2>2, PrefixOn
<1>22. d \notin Readers
  BY Apart
<1>23. Free'
  BY <1>1, <1>9, <1>10, <1>12, <1>15, <1>18, <1>20, <1>21, <1>22, TwinFree
<1>24. ses' = u /\ UNCHANGED outside /\ (u.sock["process"] = "conn" => link' = link)
  BY <1>1 DEF Becomes
<1>25. ASSUME ~u.closed PROVE link' = link /\ Stores(ses, u, d)
  <2>1. u.closed = ses.closed
    BY <1>9, <1>18 DEF Alike
  <2>2. link' = link
    BY <1>9, <1>16, <1>18, <1>24, <1>25, <2>1
  <2>3. Others(ses, u, d)
    BY <1>9, <1>18, <1>25, OthersOn
  <2>4. Carries(ses, d) /\ Sends(u, d)
    BY <1>2, <1>18, <1>25 DEF Carries, Sends
  <2>5. u.data = ses.data /\ u.stored = b.stored /\ u.handled = ses.handled
    BY <1>9, <1>18 DEF Alike
  <2>6. p = Packet(ses.data[d])
    BY <1>2 DEF p, Alike
  <2> QED
    BY <1>9, <2>2, <2>3, <2>4, <2>5, <2>6 DEF Stores
<1> QED
  BY <1>23, <1>24, <1>25

\* The process is reached: the loops turn to it.
LEMMA ConnectedFree ==
    ASSUME Inv, Order, Free, NEW k \in Connectors, ProcessConnected(k)
    PROVE  Free' /\ Unmoved
<1> DEFINE b == [st0 EXCEPT !.bypass = FALSE, !.connecting = FALSE]
           u == AwaitIo(b, k, "tuple", "process", "processWr")
<1>1. Runs(k, {"connect"}, "ok") /\ "idle" \notin {"connect"} /\ Becomes(u)
  BY DEF ProcessConnected, Connected
<1>2. /\ Whole(ses) /\ Whole(st0) /\ Went(ses, st0, {}) /\ Alike(ses, st0)
      /\ st0.sock = ses.sock /\ st0.pc = ses.pc /\ st0.res = ses.res
      /\ ses.pc[k] = "connect" /\ ses.res[k] = "ok" /\ k \in Coro
  BY <1>1, Starts
<1>3. k \notin Dir /\ k \notin Readers /\ k \notin Detectors /\ k # "setup"
  BY Apart
<1>4. st0 = [f \in DOMAIN st0 |-> st0[f]] /\ DOMAIN st0 = Parts /\ st0.sock = [j \in Sock |-> st0.sock[j]]
  BY <1>2 DEF Whole, Ready
<1>5. st0.wait = ses.wait
  BY DEF st0, Pop
<1>6. /\ b = [f \in DOMAIN b |-> b[f]] /\ DOMAIN b = DOMAIN st0
      /\ b.runq = st0.runq /\ b.wait = st0.wait /\ b.pc = st0.pc /\ b.res = st0.res
      /\ b.sock = st0.sock /\ b.closed = st0.closed /\ b.broken = st0.broken
      /\ b.msg = st0.msg /\ b.handled = st0.handled
      /\ b.data = st0.data /\ b.cut = st0.cut /\ b.stored = st0.stored /\ b.bypass = FALSE
  BY <1>4 DEF Parts
<1> HIDE DEF b
<1>7. Whole(b)
  BY <1>2, <1>4, <1>6, WholeAside
<1>8. /\ b.closed = ses.closed /\ b.broken = ses.broken /\ b.wait = ses.wait /\ b.pc = ses.pc
      /\ b.res = ses.res /\ b.msg = ses.msg /\ b.handled = ses.handled /\ ~b.bypass
      /\ b.data = ses.data /\ b.cut = ses.cut /\ b.stored = ses.stored /\ b.sock = ses.sock
  BY <1>2, <1>5, <1>6 DEF Alike
<1>9. Twin(ses, b)
  BY <1>7, <1>8 DEF Twin
<1>10. /\ \A r, e : (Has(b, r, e) <=> Has(ses, r, e)) /\ (Takes(b, r, e) <=> Takes(ses, r, e))
       /\ \A r : ExpectsBody(b, r) <=> ExpectsBody(ses, r)
  BY <1>9, TwinHas
<1>11. Behind(b) /\ Prefix(b)
  BY <1>8, <1>10 DEF Behind, Prefix, Free, Steered
<1>12. Fed(b, link)
  BY <1>8, <1>10 DEF Free, Fed, Paired, Totals, Diverted, Downstream
<1>13. Steady(ses) /\ Single(ses) /\ Fit(ses, k)
  BY <1>2 DEF Free, Steered, Steady
<1>14. ~ses.closed => ses.sock["process"] = "conn"
  BY <1>2, <1>13 DEF Fit
<1>15. /\ b.sock["process"] = "conn" => Comes(b, u, k, "tuple", "none")
       /\ b.sock["process"] # "conn" => Comes(b, u, k, "tuple", "err")
  <2>1. /\ k \in Dir \cup Connectors \cup Readers /\ "tuple" \in Label /\ "processWr" # "detect"
        /\ "processWr" \in Chan /\ Spot("tuple", k, b.msg) = "processWr"
    BY Channels, Spots
  <2> QED
    BY <1>7, <2>1, AwaitIoWent
<1> HIDE DEF u
<1>16. /\ Went(b, u, {k}) /\ Alike(b, u) /\ u.sock = b.sock /\ u.pc[k] = "tuple"
  BY <1>15 DEF Comes
<1>17. Fit(u, k)
  BY <1>3, <1>8, <1>16 DEF Fit, Alike
<1>18. ses.pc["setup"] = "idle" /\ \A e \in Connectors \cup Readers : e # k => ses.pc[e] = "idle"
  BY <1>2, <1>3, <1>13 DEF Inv, SetupAlone, Single
<1>19. ASSUME NEW e \in Coro, e # k PROVE Fit(b, e)
  <2>1. Fit(ses, e)
    BY <1>13 DEF Steady
  <2>2. CASE ses.pc[e] = "idle"
    BY <1>8, <2>2, IdleFit
  <2>3. CASE ses.pc[e] # "idle"
    <3>1. e # "setup" /\ e \notin Connectors
      BY <1>18, <1>19, <2>3
    <3> QED
      BY <1>8, <2>1, <3>1 DEF Fit
  <2> QED
    BY <2>2, <2>3
<1>20. Steady(u)
  <2>1. ASSUME NEW e \in Coro PROVE Fit(u, e)
    <3>1. CASE e = k
      BY <1>17, <3>1
    <3>2. CASE e # k
      <4>1. e \in Coro \ {k} /\ Fit(b, e)
        BY <1>19, <3>2
      <4> QED
        BY <1>7, <1>16, <4>1, FitOn
    <3> QED
      BY <3>1, <3>2
  <2>2. ~u.broken
    BY <1>8, <1>13, <1>16 DEF Steady, Alike
  <2>3. ~u.closed => u.sock["process"] = "conn"
    BY <1>8, <1>14, <1>16 DEF Alike
  <2> QED
    BY <2>1, <2>2, <2>3 DEF Steady
<1>21. Prefix(u)
  <2>1. \A r \in {k} \cap Readers, e \in Dir :
            Takes(u, r, e) => Takes(b, r, e) /\ u.data[r] = b.data[r] /\ u.cut[r] = b.cut[r]
    BY <1>3
  <2> QED
    BY <1>11, <1>16, <2>1, PrefixOn
<1>22. Free'
  BY <1>1, <1>3, <1>8, <1>9, <1>11, <1>12, <1>16, <1>20, <1>21, TwinFree
<1>23. u.closed \/ Quiet(ses, u)
  <2>1. u.closed \/ Quiet(b, u)
    BY <1>3, <1>16, QuietOn
  <2> QED
    BY <1>8, <2>1, QuietFrom
<1>24. UNCHANGED outside /\ ses' = u /\ (u.closed \/ link' = link)
  BY <1>1, <1>8, <1>14, <1>16 DEF Becomes, Alike
<1> QED
  BY <1>22, <1>23, <1>24 DEF Unmoved

\* The next attempt to reach the process.
LEMMA AgainFree ==
    ASSUME Inv, Order, Free, NEW k \in Connectors, ConnectAgain(k)
    PROVE  Free' /\ Unmoved
<1>1. Runs(k, {"retry"}, "ok") /\ "idle" \notin {"retry"} /\ Becomes(TryConnect(st0, k))
  BY DEF ConnectAgain
<1>2. /\ Whole(ses) /\ Whole(st0) /\ Went(ses, st0, {}) /\ Alike(ses, st0)
      /\ st0.sock = ses.sock /\ st0.pc = ses.pc /\ st0.res = ses.res
      /\ ses.pc[k] = "retry" /\ k \in Coro
  BY <1>1, Starts
<1>3. k \notin Dir /\ k \notin Readers /\ k \notin Detectors /\ k # "setup"
  BY Apart
<1>4. CASE ses.closed
  <2> DEFINE u == Return(st0, k)
  <2>1. Becomes(u)
    BY <1>1, <1>2, <1>4 DEF TryConnect, Alike
  <2>2. Went(st0, u, {k}) /\ u.pc[k] = "idle"
    BY <1>2, ReturnWent DEF Comes
  <2> HIDE DEF u
  <2>3. Fit(u, k)
    BY <2>2, IdleFit
  <2>4. {k} \cap Dir = {} /\ {k} \cap Readers = {} /\ k \in {k}
        /\ (\A e \in {k} \cap Coro : e = k) /\ (\A e \in {k} \cap (Connectors \cup Readers) : e = k)
    BY <1>3
  <2>5. /\ \A e \in {k} \cap Coro : e = k \/ ses.pc[e] = "idle"
        /\ \A e \in {k} \cap Coro : Fit(u, e)
        /\ \E y : \A e \in {k} \cap (Connectors \cup Readers) :
               u.pc[e] # "idle" => e = y /\ k \in Connectors \cup Readers
    BY <2>3, <2>4
  <2> QED
    BY <1>1, <2>1, <2>2, <2>4, <2>5, RunsOn
<1>5. CASE ~ses.closed
  <2> DEFINE b == [st0 EXCEPT !.sock["process"] = "open"]
             u == Await(b, k, "connect", "processWr")
  <2>1. Becomes(u)
    BY <1>1, <1>2, <1>5 DEF TryConnect, Alike
  <2>2. st0 = [f \in DOMAIN st0 |-> st0[f]] /\ DOMAIN st0 = Parts /\ st0.sock = [j \in Sock |-> st0.sock[j]]
    BY <1>2 DEF Whole, Ready
  <2>3. st0.wait = ses.wait
    BY DEF st0, Pop
  <2>4. /\ b = [f \in DOMAIN b |-> b[f]] /\ DOMAIN b = DOMAIN st0
        /\ b.runq = st0.runq /\ b.wait = st0.wait /\ b.pc = st0.pc /\ b.res = st0.res
        /\ b.closed = st0.closed /\ b.broken = st0.broken /\ b.bypass = st0.bypass
        /\ b.msg = st0.msg /\ b.handled = st0.handled
        /\ b.data = st0.data /\ b.cut = st0.cut /\ b.stored = st0.stored
        /\ b.sock = [st0.sock EXCEPT !["process"] = "open"]
    BY <2>2 DEF Parts
  <2> HIDE DEF b
  <2>5. b.sock = [j \in Sock |-> b.sock[j]] /\ b.sock["process"] = "open"
    BY <2>2, <2>4 DEF Sock
  <2>6. Whole(b)
    BY <1>2, <2>4, <2>5, WholeAside
  <2>7. /\ b.closed = ses.closed /\ b.broken = ses.broken /\ b.wait = ses.wait /\ b.pc = ses.pc
        /\ b.res = ses.res /\ b.msg = ses.msg /\ b.handled = ses.handled /\ b.bypass = ses.bypass
        /\ b.data = ses.data /\ b.cut = ses.cut /\ b.stored = ses.stored
    BY <1>2, <2>3, <2>4 DEF Alike
  <2>8. Steady(ses) /\ Single(ses) /\ Fit(ses, k)
    BY <1>2 DEF Free, Steered, Steady
  <2>9. ses.bypass /\ ses.sock["process"] # "conn"
    BY <1>2, <1>5, <2>8 DEF Fit
  <2>10. Twin(ses, b)
    BY <2>5, <2>6, <2>7, <2>9 DEF Twin
  <2>11. /\ \A r, e : (Has(b, r, e) <=> Has(ses, r, e)) /\ (Takes(b, r, e) <=> Takes(ses, r, e))
         /\ \A r : ExpectsBody(b, r) <=> ExpectsBody(ses, r)
    BY <2>10, TwinHas
  <2>12. Behind(b) /\ Prefix(b)
    BY <2>7, <2>11 DEF Behind, Prefix, Free, Steered
  <2>13. Fed(b, link)
    BY <2>7, <2>11 DEF Free, Fed, Paired, Totals, Diverted, Downstream
  <2>14. Comes(b, u, k, "connect", "none")
    <3>1. /\ "connect" \in Label /\ "processWr" # "detect" /\ k \notin Detectors
          /\ "processWr" \in Chan /\ Spot("connect", k, b.msg) = "processWr"
      BY <1>3, Channels, Spots
    <3> QED
      BY <1>2, <2>6, <3>1, AwaitWent
  <2> HIDE DEF u
  <2>15. /\ Went(b, u, {k}) /\ Alike(b, u) /\ u.sock = b.sock
         /\ u.pc[k] = "connect" /\ u.res[k] = "none"
    BY <2>14 DEF Comes
  <2>16. Fit(u, k)
    BY <1>3, <2>5, <2>7, <2>9, <2>15 DEF Fit, Alike
  <2>17. \A e \in Connectors \cup Readers : e # k => ses.pc[e] = "idle"
    BY <1>2, <2>8 DEF Single
  <2>18. ASSUME NEW e \in Coro, e # k PROVE Fit(b, e)
    <3>1. Fit(ses, e)
      BY <2>8 DEF Steady
    <3>2. CASE ses.pc[e] = "idle"
      BY <2>7, <3>2, IdleFit
    <3>3. CASE ses.pc[e] # "idle"
      <4>1. e \notin Connectors
        BY <2>17, <2>18, <3>3
      <4> QED
        BY <2>7, <3>1, <4>1 DEF Fit
    <3> QED
      BY <3>2, <3>3
  <2>19. Steady(u)
    <3>1. ASSUME NEW e \in Coro PROVE Fit(u, e)
      <4>1. CASE e = k
        BY <2>16, <4>1
      <4>2. CASE e # k
        <5>1. e \in Coro \ {k} /\ Fit(b, e)
          BY <2>18, <4>2
        <5> QED
          BY <2>6, <2>15, <5>1, FitOn
      <4> QED
        BY <4>1, <4>2
    <3>2. ~u.broken /\ u.bypass
      BY <2>7, <2>8, <2>9, <2>15 DEF Steady, Alike
    <3> QED
      BY <3>1, <3>2 DEF Steady
  <2>20. Prefix(u)
    <3>1. \A r \in {k} \cap Readers, e \in Dir :
              Takes(u, r, e) => Takes(b, r, e) /\ u.data[r] = b.data[r] /\ u.cut[r] = b.cut[r]
      BY <1>3
    <3> QED
      BY <2>12, <2>15, <3>1, PrefixOn
  <2>21. u.sock["process"] = "conn" <=> ses.sock["process"] = "conn"
    BY <2>5, <2>9, <2>15
  <2>22. Free'
    BY <1>1, <1>3, <2>1, <2>10, <2>12, <2>13, <2>15, <2>19, <2>20, <2>21, TwinFree
  <2>23. u.closed \/ Quiet(ses, u)
    <3>1. u.closed \/ Quiet(b, u)
      BY <1>3, <2>15, QuietOn
    <3> QED
      BY <2>7, <3>1, QuietFrom
  <2>24. UNCHANGED outside /\ ses' = u /\ link' = link
    BY <2>1, <2>9, <2>21 DEF Becomes, Free, Linked
  <2> QED
    BY <2>22, <2>23, <2>24 DEF Unmoved
<1> QED
  BY <1>4, <1>5

\* connect_process, called in an open session that has no connection to the
\* process and does not try to get one.
LEMMA OpenConnectRan ==
    ASSUME NEW st, Whole(st), ~st.closed, ~st.connecting, NEW k \in Connectors,
           \A e \in Coro : ~Waits(st, "processRd", e) /\ ~Waits(st, "processWr", e)
    PROVE  LET u == ConnectProcess(st, k)
           IN  /\ Ran(st, u, {k}) /\ ~u.closed /\ u.bypass = st.bypass /\ u.stored = st.stored
               /\ u.sock["process"] = "open" /\ u.pc[k] = "connect" /\ u.res[k] = "none"
               /\ \A d \in Dir : u.handled[d] = 0
<1> DEFINE a == CloseSock(st, "process")
           b == [a EXCEPT !.connecting = TRUE, !.handled = [d \in Dir |-> 0]]
           c == Cancel(b, "detect")
           s == [c EXCEPT !.sock["process"] = "open"]
           u == Await(s, k, "connect", "processWr")
<1>1. Ran(st, a, {}) /\ Alike(st, a) /\ Whole(a)
  <2>1. Rd["process"] = "processRd" /\ Wr["process"] = "processWr" /\ "process" \in Sock
    BY DEF Rd, Wr, Sock
  <2>2. \A e \in Coro : ~Waits(st, Rd["process"], e) /\ ~Waits(st, Wr["process"], e)
    BY <2>1
  <2> QED
    BY <2>1, <2>2, CloseSockRan DEF Ran
<1> HIDE DEF a
<1>2. /\ b = [f \in DOMAIN b |-> b[f]] /\ DOMAIN b = DOMAIN a
      /\ b.runq = a.runq /\ b.wait = a.wait /\ b.pc = a.pc /\ b.res = a.res /\ b.sock = a.sock
      /\ b.closed = a.closed /\ b.bypass = a.bypass /\ b.stored = a.stored
      /\ b.broken = a.broken /\ b.msg = a.msg
      /\ \A d \in Dir : b.handled[d] = 0
  <2>1. a = [f \in DOMAIN a |-> a[f]] /\ DOMAIN a = Parts
    BY <1>1 DEF Whole, Ready
  <2> QED
    BY <2>1 DEF Parts
<1> HIDE DEF b
<1>3. Whole(b) /\ Ran(a, b, {})
  <2>1. b.sock = [j \in Sock |-> b.sock[j]]
    BY <1>1, <1>2 DEF Whole
  <2>2. Whole(b)
    BY <1>1, <1>2, <2>1, WholeAside
  <2> QED
    BY <1>1, <1>2, <2>2, AsideRan
<1>4. Ran(b, c, {}) /\ Alike(b, c) /\ c.sock = b.sock /\ Whole(c)
  BY <1>3, CancelDetectWent DEF Went, Ran
<1> HIDE DEF c
<1>5. /\ s = [f \in DOMAIN s |-> s[f]] /\ DOMAIN s = DOMAIN c
      /\ s.runq = c.runq /\ s.wait = c.wait /\ s.pc = c.pc /\ s.res = c.res
      /\ s.sock = [c.sock EXCEPT !["process"] = "open"] /\ Alike(c, s)
  <2>1. c = [f \in DOMAIN c |-> c[f]] /\ DOMAIN c = Parts
    BY <1>4 DEF Whole, Ready
  <2> QED
    BY <2>1 DEF Parts, Alike
<1> HIDE DEF s
<1>6. Whole(s) /\ Ran(c, s, {}) /\ s.sock["process"] = "open"
  <2>1. c.sock = [j \in Sock |-> c.sock[j]]
    BY <1>4 DEF Whole
  <2>2. s.sock = [j \in Sock |-> s.sock[j]] /\ s.sock["process"] = "open"
    BY <1>5, <2>1 DEF Sock
  <2>3. Whole(s)
    BY <1>4, <1>5, <2>2, WholeAside
  <2> QED
    BY <1>4, <1>5, <2>2, <2>3, AsideRan DEF Alike
<1>7. Comes(s, u, k, "connect", "none")
  <2>1. /\ "connect" \in Label /\ "processWr" # "detect" /\ k \notin Detectors /\ k \in Coro
        /\ "processWr" \in Chan /\ Spot("connect", k, s.msg) = "processWr"
    BY Apart, Channels, Spots
  <2> QED
    BY <1>6, <2>1, AwaitWent
<1> HIDE DEF u
<1>8. Ran(s, u, {k})
  BY <1>7 DEF Comes, Went
<1>9. Ran(st, u, {k})
  <2>1. Ran(st, b, {} \cup {})
    BY <1>1, <1>3, RanThen
  <2>2. Ran(st, c, ({} \cup {}) \cup {})
    BY <1>4, <2>1, RanThen
  <2>3. Ran(st, s, (({} \cup {}) \cup {}) \cup {})
    BY <1>6, <2>2, RanThen
  <2>4. Ran(st, u, ((({} \cup {}) \cup {}) \cup {}) \cup {k})
    BY <1>8, <2>3, RanThen
  <2>5. ((({} \cup {}) \cup {}) \cup {}) \cup {k} = {k}
    OBVIOUS
  <2> QED
    BY <2>4, <2>5
<1>10. TryConnect(c, k) = u
  BY <1>1, <1>2, <1>4 DEF TryConnect, u, s, Alike
<1>11. ConnectProcess(st, k) = u
  BY <1>10 DEF ConnectProcess, c, b, a
<1>12. /\ u.closed = st.closed /\ u.bypass = st.bypass /\ u.stored = st.stored
       /\ u.handled = b.handled /\ u.sock = s.sock /\ u.pc[k] = "connect" /\ u.res[k] = "none"
  BY <1>1, <1>2, <1>4, <1>5, <1>7 DEF Alike, Comes
<1>13. ~u.closed
  BY <1>12
<1> QED
  BY <1>2, <1>6, <1>9, <1>11, <1>12, <1>13

\* The server is reached: the loops start, and the process is looked for.
LEMMA DialedFree ==
    ASSUME Inv, Order, Free, Dialed
    PROVE  Free' /\ Unmoved
<1>1. PICK k \in Frame(ses, Connectors) :
          Becomes(Return(NextRound(NextRound(ConnectProcess(st0, k), "req"), "res"), "setup"))
  BY DEF Dialed
<1> DEFINE a == ConnectProcess(st0, k)
           y == NextRound(a, "req")
           z == NextRound(y, "res")
           u == Return(z, "setup")
           X == {"req", "res", "setup"}
<1>2. Runs("setup", {"dial"}, "ok") /\ "idle" \notin {"dial"} /\ Becomes(u)
  BY <1>1 DEF Dialed
<1>3. /\ Whole(ses) /\ Whole(st0) /\ Went(ses, st0, {}) /\ Alike(ses, st0)
      /\ st0.sock = ses.sock /\ st0.pc = ses.pc /\ st0.res = ses.res
      /\ ses.pc["setup"] # "idle" /\ "setup" \in Coro /\ k \in Connectors
      /\ \A ch \in Chan : ~Waits(ses, ch, "setup")
      /\ \A e \in Coro : ses.pc[e] = "idle" => \A ch \in Chan : ~Waits(ses, ch, e)
      /\ ses.msg \in [Readers -> ResponseHead]
  <2>1. Connectors \in {Connectors, Readers, Detectors}
    OBVIOUS
  <2>2. k \in Connectors
    BY <1>2, <2>1, Starts
  <2> QED
    BY <1>2, <2>2, Starts
<1>4. "req" \in Dir /\ "res" \in Dir /\ "req" # "res" /\ Dir = {"req", "res"}
  BY DEF Dir
<1>5. /\ \A d \in Dir : d \notin Connectors /\ d \notin Readers /\ d \notin Detectors /\ d # "setup"
      /\ k # "setup" /\ k \notin Dir /\ k \notin Readers /\ k \notin Detectors /\ k \in Coro
      /\ "setup" \notin Connectors /\ "setup" \notin Readers /\ "setup" \notin Detectors
      /\ Dir \subseteq Coro /\ Readers \subseteq Coro /\ Connectors \subseteq Coro
  BY <1>3, Apart, Channels
<1>6. ~ses.closed /\ \A e \in Coro : e # "setup" => ses.pc[e] = "idle"
  BY <1>3 DEF Inv, SetupAlone
<1>7. \A ch \in Chan, e \in Coro : ~Waits(ses, ch, e)
  BY <1>3, <1>6
<1>8. Steady(ses) /\ Fit(ses, "setup") /\ ses.bypass
  <2>1. Steady(ses) /\ Fit(ses, "setup")
    BY <1>3 DEF Free, Steered, Steady
  <2> QED
    BY <1>3, <1>6, <2>1 DEF Fit
<1>9. \A d \in Dir : ~Downstream(ses, link, d)
  BY <1>5, <1>6 DEF Free, Fed, Diverted
<1>10. ~st0.connecting
  <2>1. \A e \in Connectors : ses.pc[e] = "idle"
    BY <1>5, <1>6
  <2>2. ~ses.connecting
    BY <1>6, <2>1 DEF Inv, Sane, OneTrying, Trying
  <2>3. ses = [f \in DOMAIN ses |-> ses[f]] /\ DOMAIN ses = Parts
    BY <1>3 DEF Whole, Ready
  <2> QED
    BY <2>2, <2>3 DEF st0, Pop, Parts
<1>11. /\ Ran(st0, a, {k}) /\ ~a.closed /\ a.bypass /\ a.stored = ses.stored
       /\ a.sock["process"] = "open" /\ a.pc[k] = "connect" /\ a.res[k] = "none"
       /\ \A d \in Dir : a.handled[d] = 0
  <2>1. st0.wait = ses.wait
    BY DEF st0, Pop
  <2>2. \A e \in Coro : ~Waits(st0, "processRd", e) /\ ~Waits(st0, "processWr", e)
    BY <1>7, <2>1, Channels DEF Waits
  <2> QED
    BY <1>3, <1>6, <1>8, <1>10, <2>2, OpenConnectRan, ZenonT(30) DEF Alike
<1> HIDE DEF a
<1>12. Ran(ses, a, {k})
  <2>1. Ran(ses, st0, {})
    BY <1>3 DEF Went
  <2>2. Ran(ses, a, {} \cup {k}) /\ {} \cup {k} = {k}
    BY <1>11, <2>1, RanThen
  <2> QED
    BY <2>2
<1>13. /\ Whole(a) /\ ~a.broken /\ a.msg = ses.msg
       /\ \A e \in Coro : e # k => a.pc[e] = ses.pc[e]
       /\ \A ch \in Chan, e \in Coro : Waits(a, ch, e) => e = k
  BY <1>7, <1>8, <1>12 DEF Ran, Steady
<1>14. \A e \in Coro : e # k /\ e # "setup" => a.pc[e] = "idle"
  BY <1>6, <1>13
<1>15. Placed(a)
  <2>1. \A e \in {k} \cap Coro, ch \in Chan : Waits(ses, ch, e) => a.pc[e] = ses.pc[e]
    BY <1>7
  <2> QED
    BY <1>12, <2>1, PlacedOn DEF Free, Steered
<1>16. Single(a)
  BY <1>5, <1>14 DEF Single
<1>17. \A r \in Readers, d \in Dir : ~Has(a, r, d) /\ ~Takes(a, r, d) /\ ~ExpectsBody(a, r)
  <2>1. \A r \in Readers : a.pc[r] = "idle"
    BY <1>5, <1>14
  <2> QED
    BY <2>1 DEF Has, Takes, ExpectsBody
<1>18. Steady(a)
  <2>1. Fit(a, k)
    BY <1>5, <1>11 DEF Fit
  <2>2. Fit(a, "setup")
    BY <1>5, <1>8, <1>11, <1>13, <1>3 DEF Fit
  <2>3. \A e \in Coro : Fit(a, e)
    BY <1>14, <2>1, <2>2, IdleFit
  <2> QED
    BY <1>11, <1>13, <2>3 DEF Steady
<1>19. Steered(a)
  BY <1>15, <1>16, <1>17, <1>18 DEF Steered, Behind, Prefix
<1>20. /\ NoLink.fromProc = <<>> /\ NoLink.toProc = <<>> /\ NoLink.st = "none"
       /\ \A d \in Dir : NoLink.seen[d] = <<>> /\ NoLink.acked[d] = 0
  BY DEF NoLink
<1>21. Fed(a, NoLink)
  <2>1. Len(<<>>) = 0 /\ 1..0 = {}
    OBVIOUS
  <2>2. \A d \in Dir : a.stored[d] = <<>>
    BY <1>9, <1>11 DEF Downstream
  <2>3. \A d \in Dir : ~Downstream(a, NoLink, d)
    BY <1>17, <1>20, <2>1, <2>2 DEF Downstream
  <2>4. Paired(a, NoLink)
    <3>1. \A r \in Readers : ~ExpectsBody(a, r)
      BY <1>4, <1>17
    <3> QED
      BY <1>20, <2>1, <3>1 DEF Paired
  <2>5. Totals(a, NoLink)
    <3>1. \A d \in Dir : a.handled[d] <= NoLink.acked[d] /\ NoLink.acked[d] <= Len(NoLink.seen[d])
      BY <1>11, <1>20, <2>1
    <3> QED
      BY <1>17, <1>20, <2>1, <3>1 DEF Totals
  <2> QED
    BY <2>3, <2>4, <2>5 DEF Fed, Diverted
<1>22. /\ Went(a, y, {"req"}) /\ y.pc["req"] \in {"idle", "dread", "pread", "notify"}
       /\ y.res["req"] \in {"none", "err"}
       /\ y.pc["req"] \in {"pread", "notify"} => ~y.bypass
       /\ y.pc["req"] # "idle" => y.bypass = a.bypass
       /\ y.pc["req"] = "idle" => y.closed
  BY <1>4, <1>13, NextRoundWent
<1> HIDE DEF y
<1>23. y.pc["req"] = "dread" \/ (y.pc["req"] = "idle" /\ y.closed)
  BY <1>11, <1>22
<1>24. /\ Whole(y) /\ (y.closed \/ y.bypass)
  BY <1>11, <1>22 DEF Went, Ran, Calm
<1>25. /\ Went(y, z, {"res"}) /\ z.pc["res"] \in {"idle", "dread", "pread", "notify"}
       /\ z.res["res"] \in {"none", "err"}
       /\ z.pc["res"] \in {"pread", "notify"} => ~z.bypass
       /\ z.pc["res"] # "idle" => z.bypass = y.bypass /\ z.closed = y.closed
  BY <1>4, <1>24, NextRoundWent
<1> HIDE DEF z
<1>26. z.pc["res"] \in {"idle", "dread"} \/ z.closed
  BY <1>24, <1>25
<1>27. Whole(z) /\ z.pc["req"] = y.pc["req"] /\ (y.closed => z.closed)
  BY <1>4, <1>5, <1>25 DEF Went, Ran
<1>28. Went(z, u, {"setup"}) /\ u.pc["setup"] = "idle"
  BY <1>3, <1>27, ReturnWent DEF Comes
<1> HIDE DEF u
<1>29. u.pc["req"] = z.pc["req"] /\ u.pc["res"] = z.pc["res"] /\ (z.closed => u.closed)
  BY <1>4, <1>5, <1>28 DEF Went, Ran
<1>30. Went(a, u, X)
  <2>1. Went(a, z, {"req"} \cup {"res"})
    <3>1. {"req"} \cap {"res"} = {}
      BY <1>4
    <3> QED
      BY <1>22, <1>25, <3>1, WentThen
  <2>2. ({"req"} \cup {"res"}) \cap {"setup"} = {}
    BY <1>4, <1>5
  <2>3. Went(a, u, ({"req"} \cup {"res"}) \cup {"setup"})
    BY <1>28, <2>1, <2>2, WentThen
  <2>4. ({"req"} \cup {"res"}) \cup {"setup"} = X
    OBVIOUS
  <2> QED
    BY <2>3, <2>4
<1>31. \A e \in X : Fit(u, e)
  <2>1. Fit(u, "setup")
    BY <1>28, IdleFit
  <2>2. ASSUME NEW d \in Dir PROVE Fit(u, d)
    <3>1. u.pc[d] \in {"idle", "dread"} \/ (u.closed /\ u.pc[d] \in {"idle", "dread", "pread", "notify"})
      BY <1>4, <1>23, <1>25, <1>26, <1>27, <1>29
    <3> QED
      BY <1>5, <3>1 DEF Fit
  <2> QED
    BY <1>4, <2>1, <2>2
<1>32. /\ X \cap Readers = {} /\ X \cap (Connectors \cup Readers) = {} /\ X \cap Dir = Dir
       /\ \A d \in Dir : a.pc[d] \notin {"pread", "pwrite"}
  BY <1>4, <1>5, <1>14
<1>33. Steered(u)
  <2>1. "setup" \in X /\ a.pc["setup"] # "idle"
    BY <1>3, <1>5, <1>13
  <2>2. \A e \in X \cap Coro, ch \in Chan : Waits(a, ch, e) => u.pc[e] = a.pc[e]
    BY <1>4, <1>5, <1>13
  <2>3. a.msg \in [Readers -> ResponseHead]
    BY <1>3, <1>13
  <2> HIDE DEF X
  <2> QED
    BY <1>13, <1>19, <1>30, <1>31, <1>32, <2>1, <2>2, <2>3, GoesOn
<1>34. u.sock["process"] # "conn"
  BY <1>11, <1>30 DEF Went, Ran
<1>35. link' = NoLink /\ Linked(u, link')
  BY <1>2, <1>20, <1>34 DEF Becomes, Linked
<1>36. Fed(u, link')
  <2> HIDE DEF X
  <2> QED
    BY <1>21, <1>30, <1>32, <1>35, FedOn
<1>37. ses' = u /\ faults' = faults /\ UNCHANGED outside
  BY <1>2 DEF Becomes, outside
<1>38. ASSUME ~u.closed PROVE Quiet(ses, u)
  <2>1. \A d \in Dir : u.handled[d] = ses.handled[d]
    <3>1. Len(<<>>) = 0 /\ ses.handled \in [Dir -> Nat]
      BY DEF Inv, Sane, Formed, SessionState
    <3>2. \A d \in Dir : ses.handled[d] <= 0
      <4>1. ASSUME NEW d \in Dir PROVE ses.handled[d] <= link.acked[d] /\ link.acked[d] <= Len(link.seen[d])
        BY <1>6 DEF Free, Fed, Totals
      <4>2. \A d \in Dir : link.seen[d] = <<>>
        BY <1>9 DEF Downstream
      <4>3. link.acked \in [Dir -> Nat]
        BY DEF Inv, Surroundings, LinkState
      <4> QED
        BY <3>1, <4>1, <4>2, <4>3
    <3>3. \A d \in Dir : ses.handled[d] = 0
      BY <3>1, <3>2
    <3>4. \A d \in Dir : u.handled[d] = 0
      BY <1>11, <1>30 DEF Went, Calm
    <3> QED
      BY <3>3, <3>4
  <2>2. u.stored = ses.stored /\ u.msg = ses.msg
    BY <1>11, <1>13, <1>30 DEF Went, Calm, Ran
  <2>3. ASSUME NEW d \in Dir PROVE SameLoop(ses, u, d)
    <3>1. ses.pc[d] = "idle"
      BY <1>5, <1>6
    <3>2. u.pc[d] \in {"idle", "dread"}
      BY <1>4, <1>23, <1>26, <1>27, <1>29, <1>38
    <3>3. ~z.closed /\ z.res["req"] = y.res["req"]
      BY <1>4, <1>5, <1>25, <1>29, <1>38, LoopOn
    <3>4. u.res["req"] = z.res["req"] /\ u.res["res"] = z.res["res"]
      BY <1>4, <1>5, <1>28, <1>38, LoopOn
    <3>5. u.res[d] # "ok"
      BY <1>4, <1>22, <1>25, <3>3, <3>4
    <3> QED
      BY <3>1, <3>2, <3>5 DEF SameLoop, Carries, Sends
  <2>4. ASSUME NEW r \in Readers PROVE SameReader(ses, u, r)
    <3>1. ses.pc[r] = "idle"
      BY <1>5, <1>6
    <3>2. u.pc[r] = "idle"
      <4>1. r \notin X /\ r \in Coro
        BY <1>5, <1>32
      <4> QED
        BY <1>5, <1>14, <1>30, <4>1 DEF Went, Ran
    <3> QED
      BY <3>1, <3>2 DEF SameReader, Has, Takes, Done
  <2> QED
    BY <2>1, <2>2, <2>3, <2>4 DEF Quiet
<1> QED
  BY <1>9, <1>33, <1>35, <1>36, <1>37, <1>38 DEF Free, Unmoved

\* A set of positions that is not empty has a last one.
LEMMA LastOne ==
    ASSUME NEW n \in Nat, NEW S \in SUBSET (1..n), S # {}
    PROVE  \E m \in S : \A e \in S : e <= m
<1> DEFINE T == {x \in Nat : \A e \in S : e <= x}
           R == OpToRel(<, Nat)
<1>1. IsWellFoundedOn(R, Nat)
  BY NatLessThanWellFounded
<1>2. \A x, y \in Nat : y < x => <<y, x>> \in R
  BY DEF OpToRel
<1> HIDE DEF R
<1>3. PICK m \in T : \A y \in T : ~(<<y, m>> \in R)
  <2>1. T \subseteq Nat /\ T # {}
    <3>1. n \in T
      OBVIOUS
    <3> QED
      BY <3>1
  <2> HIDE DEF T
  <2> QED
    BY <1>1, <2>1, WFMin
<1>4. m \in Nat /\ \A e \in S : e \in Nat /\ e <= m /\ e >= 1
  BY <1>3
<1>5. ASSUME m \notin S PROVE FALSE
  <2>1. \A e \in S : e <= m - 1
    BY <1>4, <1>5
  <2>2. m - 1 \in Nat /\ m - 1 < m
    <3>1. PICK e \in S : TRUE
      OBVIOUS
    <3>2. e \in Nat /\ e >= 1 /\ e <= m - 1
      BY <1>4, <2>1
    <3> QED
      BY <1>4, <3>2
  <2>3. m - 1 \in T
    BY <2>1, <2>2
  <2> QED
    BY <1>2, <1>3, <1>4, <2>2, <2>3
<1> QED
  BY <1>4, <1>5

\* The bytes up to some ends of packets are those up to the last of them.
LEMMA UptoLast ==
    ASSUME NEW q \in Seq(Byte), NEW S \in SUBSET (1..Len(q))
    PROVE  LET m == Upto(q, S)
           IN  /\ m \in Nat /\ m <= Len(q)
               /\ m = 0 \/ m \in S
               /\ \A e \in S : e <= m
<1>1. Len(q) \in Nat
  OBVIOUS
<1>2. CASE S = {}
  <2>1. {i \in 1..Len(q) : \E e \in S : i <= e} = {}
    BY <1>2
  <2>2. Upto(q, S) = 0
    BY <2>1, FS_EmptySet DEF Upto
  <2> QED
    BY <1>1, <1>2, <2>2
<1>3. CASE S # {}
  <2>1. PICK m \in S : \A e \in S : e <= m
    BY <1>1, <1>3, LastOne
  <2>2. m \in 1..Len(q)
    OBVIOUS
  <2>3. {i \in 1..Len(q) : \E e \in S : i <= e} = 1..m
    BY <1>1, <2>1, <2>2
  <2>4. Cardinality(1..m) = m
    <3>1. m \in Nat /\ m >= 1
      BY <1>1, <2>2
    <3>2. 1 \in Int /\ m \in Int
      BY <3>1
    <3> QED
      BY <3>1, <3>2, FS_Interval
  <2>5. Upto(q, S) = m
    BY <2>3, <2>4 DEF Upto
  <2> QED
    BY <1>1, <2>1, <2>2, <2>5
<1> QED
  BY <1>2, <1>3

\* What Transfer takes for an answer up to t is from the front of the deque.
LEMMA TakesFirst ==
    ASSUME NEW q \in Seq(Byte), q # <<>> => q[Len(q)].end, NEW h \in Nat, NEW t \in Nat, h <= t
    PROVE  LET C == Covered(q, h, t)
               m == Upto(q, C)
               used == IF m < Len(q) THEN t - (h + m) ELSE 0
               out == Bytes(SubSeq(q, 1, m + used))
           IN  /\ m \in Nat /\ h + m <= t /\ used \in Nat
               /\ First(q, out, [pkts |-> Cardinality(C), used |-> used])
<1> DEFINE C == Covered(q, h, t)
           m == Upto(q, C)
           used == IF m < Len(q) THEN t - (h + m) ELSE 0
           n == m + used
           out == Bytes(SubSeq(q, 1, n))
           cut == [pkts |-> Cardinality(C), used |-> used]
<1>1. Len(q) \in Nat
  OBVIOUS
<1>2. C = {e \in 1..Len(q) : q[e].end /\ h + e <= t}
  BY DEF Covered, Ends
<1>3. C \in SUBSET (1..Len(q))
  BY <1>2
<1> HIDE DEF C
<1>4. /\ m \in Nat /\ m <= Len(q)
      /\ m = 0 \/ m \in C
      /\ \A e \in C : e <= m
  BY <1>3, UptoLast
<1> HIDE DEF m
<1>5. h + m <= t /\ (m = 0 \/ q[m].end)
  BY <1>2, <1>4
<1>6. used \in Nat /\ n \in Nat /\ n = m + used
  BY <1>1, <1>4, <1>5
<1>7. m < Len(q) => h + n = t /\ n < Len(q)
  <2> SUFFICES ASSUME m < Len(q) PROVE h + n = t /\ n < Len(q)
    OBVIOUS
  <2>1. used = t - (h + m)
    OBVIOUS
  <2>2. h + n = t
    BY <1>4, <2>1
  <2>3. Len(q) \in 1..Len(q) /\ q # <<>>
    BY <1>1, <1>4
  <2>4. Len(q) \notin C
    BY <1>1, <1>4
  <2>5. t < h + Len(q)
    BY <1>1, <1>2, <2>3, <2>4
  <2> QED
    BY <1>1, <1>6, <2>2, <2>5
<1>8. ~(m < Len(q)) => n = m /\ m = Len(q)
  BY <1>1, <1>4
<1>9. n <= Len(q)
  BY <1>1, <1>6, <1>7, <1>8
<1> HIDE DEF used, n
<1>10. Len(out) = n /\ \A i \in 1..n : out[i] = q[i].b
  <2>1. SubSeq(q, 1, n) = [i \in 1..n |-> q[i]]
    BY <1>1, <1>6, <1>9
  <2>2. SubSeq(q, 1, n) \in Seq(Byte) /\ Len(SubSeq(q, 1, n)) = n
    <3>1. \A i \in 1..n : q[i] \in Byte
      BY <1>1, <1>6, <1>9
    <3>2. [i \in 1..n |-> q[i]] \in [1..n -> Byte]
      BY <3>1
    <3>3. [i \in 1..n |-> q[i]] \in Seq(Byte)
      BY <1>6, <3>2, SeqDef
    <3>4. DOMAIN [i \in 1..n |-> q[i]] = 1..n
      OBVIOUS
    <3> QED
      BY <1>6, <2>1, <3>3, <3>4, LenProperties
  <2>3. out = [i \in 1..n |-> q[i].b]
    BY <2>1, <2>2 DEF Bytes
  <2>4. out \in Seq(Nat)
    BY <2>2, BytesType
  <2> HIDE DEF out
  <2>5. DOMAIN out = 1..n
    BY <2>3
  <2> QED
    BY <1>6, <2>3, <2>4, <2>5, LenProperties
<1> HIDE DEF out
<1>11. {e \in Ends(q) : e <= m} = C
  <2>1. \A e \in 1..Len(q) : q[e].end /\ e <= m => h + e <= t
    BY <1>1, <1>4, <1>5
  <2> QED
    BY <1>2, <1>4, <2>1 DEF Ends
<1>12. ASSUME NEW i \in (m + 1)..(n - 1) PROVE ~q[i].end
  <2>1. CASE m < Len(q)
    <3>1. i \in Nat /\ i > m /\ i < n /\ i \in 1..Len(q)
      BY <1>1, <1>4, <1>6, <1>9, <1>12
    <3>2. h + i <= t
      BY <1>6, <1>7, <2>1, <3>1
    <3>3. i \notin C
      BY <1>4, <3>1
    <3> QED
      BY <1>2, <3>1, <3>2, <3>3
  <2>2. CASE ~(m < Len(q))
    BY <1>4, <1>8, <1>12, <2>2
  <2> QED
    BY <2>1, <2>2
<1>13. First(q, out, cut)
  <2>1. cut.used = used /\ cut.pkts = Cardinality(C)
    OBVIOUS
  <2>2. Len(out) - used = m
    BY <1>4, <1>6, <1>10
  <2> HIDE DEF cut
  <2> QED
    BY <1>4, <1>5, <1>6, <1>9, <1>10, <1>11, <1>12, <2>1, <2>2 DEF First
<1> QED
  BY <1>4, <1>5, <1>6, <1>13 DEF cut, out, n, used, m, C

\* What clear_handled_packet finds is what was taken.
LEMMA ClearsFirst ==
    ASSUME NEW q \in Seq(Byte), NEW out, Len(out) \in Nat, NEW cut, First(q, out, cut)
    PROVE  /\ ~(Cardinality(Ends(q)) < cut.pkts)
           /\ ~(cut.used > LengthOf(q, cut.pkts + 1) - LengthOf(q, cut.pkts))
           /\ LengthOf(q, cut.pkts) + cut.used = Len(out)
<1> DEFINE n == Len(out)
           m == n - cut.used
           F == {e \in Ends(q) : e <= m}
           k == cut.pkts
           Before(i) == {e \in Ends(q) : e < i}
           A == {i \in 1..Len(q) : Cardinality(Before(i)) < k}
           B == {i \in 1..Len(q) : Cardinality(Before(i)) < k + 1}
<1>1. /\ cut.used \in Nat /\ m \in Nat /\ n <= Len(q)
      /\ m = 0 \/ q[m].end
      /\ k = Cardinality(F)
      /\ \A i \in (m + 1)..(n - 1) : ~q[i].end
  BY DEF First
<1>2. Len(q) \in Nat /\ n \in Nat /\ n = m + cut.used /\ m <= n /\ m <= Len(q)
  BY <1>1
<1>3. Ends(q) \in SUBSET (1..Len(q)) /\ \A e \in Ends(q) : e \in 1..Len(q) /\ q[e].end
  BY DEF Ends
<1>4. IsFiniteSet(Ends(q)) /\ Cardinality(Ends(q)) \in Nat
  BY <1>3, Positions, FS_Subset, FS_CardinalityType
<1>5. F \in SUBSET Ends(q)
  OBVIOUS
<1>6. IsFiniteSet(F) /\ k \in Nat /\ k <= Cardinality(Ends(q))
  <2> HIDE DEF F
  <2> QED
    BY <1>1, <1>4, <1>5, FS_Subset, FS_CardinalityType
<1>7. m > 0 => m \in F
  BY <1>1, <1>2 DEF Ends
<1> HIDE DEF m, k
<1>8. ASSUME NEW i \in 1..Len(q), i <= m PROVE Cardinality(Before(i)) < k
  <2>1. Before(i) \in SUBSET F /\ m \notin Before(i) /\ m \in F
    <3>1. i \in Nat /\ i >= 1 /\ m > 0
      BY <1>1, <1>2, <1>8
    <3>2. \A e \in Ends(q) : e \in Nat
      BY <1>3
    <3> QED
      BY <1>1, <1>7, <1>8, <3>1, <3>2
  <2> HIDE DEF F, Before
  <2>2. Cardinality(Before(i)) <= k /\ (k = Cardinality(Before(i)) => F = Before(i))
        /\ Cardinality(Before(i)) \in Nat
    BY <1>1, <1>6, <2>1, FS_Subset, FS_CardinalityType
  <2> QED
    BY <1>6, <2>1, <2>2
<1>9. ASSUME NEW i \in 1..Len(q), i > m PROVE ~(Cardinality(Before(i)) < k)
  <2>1. F \in SUBSET Before(i)
    BY <1>1, <1>3, <1>9
  <2>2. Before(i) \in SUBSET Ends(q)
    OBVIOUS
  <2> HIDE DEF F, Before
  <2>3. IsFiniteSet(Before(i)) /\ Cardinality(Before(i)) \in Nat /\ k <= Cardinality(Before(i))
    BY <1>1, <1>4, <2>1, <2>2, FS_Subset, FS_CardinalityType
  <2> QED
    BY <1>6, <2>3
<1>10. ASSUME NEW i \in 1..Len(q), i <= n PROVE Cardinality(Before(i)) < k + 1
  <2>1. Before(i) \in SUBSET F
    <3> SUFFICES ASSUME NEW e \in Ends(q), e < i, ~(e <= m) PROVE FALSE
      OBVIOUS
    <3>1. e \in (m + 1)..(n - 1)
      BY <1>1, <1>2, <1>3, <1>10
    <3> QED
      BY <1>1, <1>3, <3>1
  <2> HIDE DEF F, Before
  <2>2. Cardinality(Before(i)) <= k /\ Cardinality(Before(i)) \in Nat
    BY <1>1, <1>6, <2>1, FS_Subset, FS_CardinalityType
  <2> QED
    BY <1>6, <2>2
<1>11. LengthOf(q, k) = m
  <2>1. A = 1..m
    <3> HIDE DEF Before
    <3> QED
      BY <1>1, <1>2, <1>8, <1>9
  <2>2. Cardinality(1..m) = m
    BY <1>1, FS_Interval
  <2>3. LengthOf(q, k) = Cardinality(A)
    BY DEF LengthOf
  <2> QED
    BY <2>1, <2>2, <2>3
<1>15. LengthOf(q, k) + cut.used = n
  BY <1>2, <1>11
<1>12. LengthOf(q, k + 1) \in Nat /\ n <= LengthOf(q, k + 1)
  <2>1. 1..n \in SUBSET B
    <3> HIDE DEF Before
    <3> QED
      BY <1>1, <1>2, <1>10
  <2>2. IsFiniteSet(B) /\ Cardinality(B) \in Nat
    <3>1. B \in SUBSET (1..Len(q))
      OBVIOUS
    <3> HIDE DEF B
    <3> QED
      BY <3>1, Positions, FS_Subset, FS_CardinalityType
  <2>3. Cardinality(1..n) = n
    BY <1>2, FS_Interval, SMTT(30)
  <2>4. LengthOf(q, k + 1) = Cardinality(B)
    BY DEF LengthOf
  <2> HIDE DEF B, n
  <2> QED
    BY <2>1, <2>2, <2>3, <2>4, FS_Subset
<1> HIDE DEF n
<1>13. ~(cut.used > LengthOf(q, k + 1) - LengthOf(q, k))
  BY <1>1, <1>2, <1>11, <1>12
<1>14. ~(Cardinality(Ends(q)) < k)
  BY <1>4, <1>6
<1> QED
  BY <1>13, <1>14, <1>15 DEF k, n

\* What was handled is dropped, and the next answer is awaited.
LEMMA HandledFree ==
    ASSUME Inv, Order, Free, NEW r \in Readers, HandledWritten(r)
    PROVE  /\ Free' /\ UNCHANGED outside
           /\ ses'.closed \/ (link' = link /\ \E d \in Dir : Clears(ses, ses', r, d))
<1> DEFINE d == ses.msg[r].type
           q == ses.stored[d]
           cut == ses.cut[r]
           rest == SubSeq(q, LengthOf(q, cut.pkts) + cut.used + 1, Len(q))
           b == [st0 EXCEPT !.stored[d] = rest]
           u == ReadHead(b, r)
<1>1. Runs(r, {"wfwd"}, "ok") /\ "idle" \notin {"wfwd"} /\ Becomes(Cleared(st0, r))
  BY DEF HandledWritten
<1>2. /\ Whole(ses) /\ Whole(st0) /\ Alike(ses, st0)
      /\ st0.sock = ses.sock /\ st0.pc = ses.pc /\ st0.res = ses.res
      /\ ses.pc[r] = "wfwd" /\ ses.res[r] = "ok" /\ r \in Coro
  BY <1>1, Starts
<1>3. /\ ses.stored \in [Dir -> Seq(Byte)] /\ ses.data \in [Dir \cup Readers -> Seq(Nat)]
      /\ ses.msg \in [Readers -> ResponseHead] /\ ses.cut \in [Readers -> [pkts : Nat, used : Nat]]
  BY DEF Inv, Sane, Formed, SessionState, Byte
<1>4. r \notin Dir /\ r \notin Connectors /\ r \notin Detectors /\ r # "setup"
  BY Apart
<1>5. d \in Dir
  BY <1>2 DEF Inv, Sane, Heads, Headed
<1>6. Takes(ses, r, d) /\ Has(ses, r, d)
  BY <1>2 DEF Takes, Has
<1>7. First(q, ses.data[r], cut)
  BY <1>5, <1>6 DEF Free, Steered, Prefix
<1>8. Becomes(u) /\ rest = SubSeq(q, Len(ses.data[r]) + 1, Len(q))
  <2>1. q \in Seq(Byte) /\ Len(ses.data[r]) \in Nat
    BY <1>3, <1>5
  <2>2. /\ ~(Cardinality(Ends(q)) < cut.pkts)
        /\ ~(cut.used > LengthOf(q, cut.pkts + 1) - LengthOf(q, cut.pkts))
        /\ LengthOf(q, cut.pkts) + cut.used = Len(ses.data[r])
    <3> HIDE DEF q, cut
    <3> QED
      BY <1>7, <2>1, ClearsFirst
  <2>3. st0.msg = ses.msg /\ st0.stored = ses.stored /\ st0.cut = ses.cut
    BY <1>2 DEF Alike
  <2>4. Cleared(st0, r) = u
    BY <2>2, <2>3 DEF Cleared
  <2> QED
    BY <1>1, <2>2, <2>4
<1> HIDE DEF rest
<1>9. st0 = [f \in DOMAIN st0 |-> st0[f]] /\ DOMAIN st0 = Parts /\ st0.sock = [k \in Sock |-> st0.sock[k]]
  BY <1>2 DEF Whole, Ready
<1>10. st0.wait = ses.wait
  BY DEF st0, Pop
<1>11. /\ b = [f \in DOMAIN b |-> b[f]] /\ DOMAIN b = DOMAIN st0
       /\ b.runq = st0.runq /\ b.wait = st0.wait /\ b.pc = st0.pc /\ b.res = st0.res
       /\ b.sock = st0.sock /\ b.closed = st0.closed /\ b.bypass = st0.bypass
       /\ b.broken = st0.broken /\ b.msg = st0.msg /\ b.handled = st0.handled
       /\ b.data = st0.data
       /\ b.stored = [st0.stored EXCEPT ![d] = rest]
  BY <1>9 DEF Parts
<1> HIDE DEF b
<1>12. Whole(b)
  BY <1>2, <1>9, <1>11, WholeAside
<1>13. /\ b.closed = ses.closed /\ b.broken = ses.broken /\ b.wait = ses.wait /\ b.pc = ses.pc
       /\ b.res = ses.res /\ b.msg = ses.msg /\ b.bypass = ses.bypass /\ b.handled = ses.handled
       /\ b.sock = ses.sock /\ b.data = ses.data /\ b.stored[d] = rest
       /\ \A e \in Dir : e # d => b.stored[e] = ses.stored[e]
  BY <1>2, <1>3, <1>5, <1>10, <1>11 DEF Alike
<1>14. Twin(ses, b)
  BY <1>12, <1>13 DEF Twin
<1>15. /\ \A x, e : (Has(b, x, e) <=> Has(ses, x, e)) /\ (Takes(b, x, e) <=> Takes(ses, x, e))
       /\ \A x : ExpectsBody(b, x) <=> ExpectsBody(ses, x)
  BY <1>14, TwinHas
<1>16. Behind(b)
  BY <1>13, <1>15 DEF Behind, Free, Steered
<1>17. Steady(ses) /\ Single(ses) /\ Fit(ses, r) /\ Steady(b)
  BY <1>2, <1>13, <1>14, TwinSteady DEF Free, Steered, Steady
<1>18. Fed(b, link)
  <2>1. Paired(b, link) /\ Totals(b, link)
    BY <1>13, <1>15 DEF Free, Fed, Paired, Totals
  <2>2. ASSUME ~ses.closed, NEW e \in Dir, Downstream(b, link, e)
        PROVE  Downstream(ses, link, e)
    <3>1. CASE e = d
      BY <1>6, <3>1 DEF Downstream
    <3>2. CASE e # d
      BY <1>13, <1>15, <2>2, <3>2 DEF Downstream
    <3> QED
      BY <3>1, <3>2
  <2>3. Diverted(b, link)
    BY <1>13, <2>2 DEF Free, Fed, Diverted
  <2> QED
    BY <2>1, <2>3 DEF Fed
<1>19. /\ b.sock["process"] = "conn" => Comes(b, u, r, "head", "none")
       /\ b.sock["process"] # "conn" => Comes(b, u, r, "head", "err")
  <2>1. /\ r \in Dir \cup Connectors \cup Readers /\ "head" \in Label /\ "processRd" # "detect"
        /\ "processRd" \in Chan /\ Spot("head", r, b.msg) = "processRd"
    BY Channels, Spots
  <2> QED
    BY <1>12, <2>1, AwaitIoWent DEF ReadHead
<1> HIDE DEF u
<1>20. ~ses.closed => ~ses.bypass /\ ses.sock["process"] = "conn"
  BY <1>2, <1>17 DEF Steady, Fit
<1>21. /\ Went(b, u, {r}) /\ u.pc[r] = "head" /\ (u.res[r] = "none" \/ (u.res[r] = "err" /\ u.closed))
       /\ u.closed = ses.closed /\ u.bypass = ses.bypass /\ u.sock = ses.sock
       /\ u.stored = b.stored /\ u.handled = ses.handled
  BY <1>13, <1>19, <1>20 DEF Comes, Alike
<1>22. Fit(u, r)
  BY <1>4, <1>20, <1>21 DEF Fit
<1>23. Steady(u)
  <2>1. \A e \in {r} \cap Coro : Fit(u, e)
    BY <1>22
  <2> QED
    BY <1>12, <1>17, <1>21, <2>1, SteadyOn
<1>24. \A e : ~Has(u, r, e) /\ ~Takes(u, r, e) /\ ~ExpectsBody(u, r) /\ ~ExpectsBody(ses, r)
  BY <1>2, <1>21 DEF Has, Takes, ExpectsBody
<1>25. Prefix(u)
  <2> SUFFICES ASSUME NEW x \in Readers, NEW e \in Dir, Takes(u, x, e) PROVE FALSE
    BY DEF Prefix
  <2>1. x # r
    BY <1>24
  <2>2. Takes(b, x, e)
    BY <1>21, <2>1, HasOn DEF Went
  <2>3. ses.pc[x] = "wfwd"
    BY <1>15, <2>2 DEF Takes
  <2> QED
    BY <1>2, <1>17, <2>1, <2>3 DEF Single
<1>26. Free'
  BY <1>1, <1>4, <1>8, <1>14, <1>16, <1>18, <1>21, <1>23, <1>24, <1>25, TwinFree
<1>27. ses' = u /\ UNCHANGED outside /\ (u.sock["process"] = "conn" => link' = link)
  BY <1>8 DEF Becomes
<1>28. ASSUME ~u.closed PROVE link' = link /\ Clears(ses, u, r, d)
  <2>1. link' = link
    BY <1>20, <1>21, <1>27, <1>28
  <2>2. Others(ses, u, r)
    BY <1>13, <1>21, <1>28, OthersOn
  <2>3. Done(ses, r, d) /\ Rests(u, r)
    BY <1>2, <1>6, <1>21, <1>28 DEF Done, Rests
  <2>4. u.stored[d] = SubSeq(q, Len(ses.data[r]) + 1, Len(q))
    BY <1>8, <1>13, <1>21
  <2> QED
    BY <1>13, <1>21, <2>1, <2>2, <2>3, <2>4 DEF Clears
<1> QED
  BY <1>5, <1>26, <1>27, <1>28

\* What an answer covers is taken from the stored data and written.
LEMMA TransferFree ==
    ASSUME Inv, Order, Free, NEW r \in Readers, ses.msg[r].act # "block",
           (HeadRead(r) /\ ~ses.msg[r].new) \/ NewWritten(r)
    PROVE  /\ Free' /\ UNCHANGED outside
           /\ ses'.closed \/ (link' = link /\ \E d \in Dir : TakesUp(ses, ses', r, d))
<1> DEFINE d == ses.msg[r].type
           q == ses.stored[d]
           h == ses.handled[d]
           t == ses.msg[r].total
           n == Cardinality(Covered(q, h, t))
           m == Upto(q, Covered(q, h, t))
           used == IF m < Len(q) THEN t - (h + m) ELSE 0
           out == Bytes(SubSeq(q, 1, m + used))
           cut == [pkts |-> n, used |-> used]
           b == [st0 EXCEPT !.handled[d] = h + m]
           s == [st0 EXCEPT !.handled[d] = h + m, !.cut[r] = cut, !.data[r] = out]
           u == IF out = <<>> THEN AwaitNothing(s, r, "wfwd")
                ELSE AwaitIo(s, r, "wfwd", To[d], Wr[To[d]])
<1>1. PICK l \in {"head", "wnew"} : Runs(r, {l}, "ok") /\ (l = "head" => d \in Dir /\ ~ses.msg[r].new)
  BY DEF HeadRead, NewWritten
<1>2. /\ Whole(ses) /\ Whole(st0) /\ Alike(ses, st0)
      /\ st0.sock = ses.sock /\ st0.pc = ses.pc /\ st0.res = ses.res
      /\ ses.pc[r] = l /\ ses.res[r] = "ok" /\ r \in Coro
  <2>1. "idle" \notin {l}
    OBVIOUS
  <2> QED
    BY <1>1, <2>1, Starts
<1>3. /\ ses.stored \in [Dir -> Seq(Byte)] /\ ses.data \in [Dir \cup Readers -> Seq(Nat)]
      /\ ses.msg \in [Readers -> ResponseHead] /\ ses.cut \in [Readers -> [pkts : Nat, used : Nat]]
      /\ ses.handled \in [Dir -> Nat]
  BY DEF Inv, Sane, Formed, SessionState, Byte
<1>4. r \notin Dir /\ r \notin Connectors /\ r \notin Detectors /\ r # "setup"
  BY Apart
<1>5. d \in Dir
  BY <1>1, <1>2 DEF Inv, Sane, Heads, Headed
<1>6. Has(ses, r, d)
  BY <1>2 DEF Has
<1>7. q \in Seq(Byte) /\ (q # <<>> => q[Len(q)].end) /\ h \in Nat /\ t \in Nat /\ h <= t
  <2>1. q \in Seq(Byte) /\ h \in Nat
    BY <1>3, <1>5
  <2>2. t \in Nat
    BY <1>3 DEF ResponseHead
  <2>3. q # <<>> => q[Len(q)].end
    BY <1>5 DEF Inv, Sane, Formed, Ended
  <2>4. h <= t
    BY <1>5, <1>6 DEF Free, Steered, Behind
  <2> QED
    BY <2>1, <2>2, <2>3, <2>4
<1>8. m \in Nat /\ h + m <= t /\ used \in Nat /\ First(q, out, cut)
  <2> HIDE DEF q, h, t
  <2> QED
    BY <1>7, TakesFirst
<1>9. Becomes(u)
  <2>1. st0.msg = ses.msg /\ st0.stored = ses.stored /\ st0.handled = ses.handled
    BY <1>2 DEF Alike
  <2>2. Decide(st0, r) = Transfer(st0, r)
    BY <2>1 DEF Decide
  <2>3. Becomes(Transfer(st0, r))
    BY <2>2 DEF HeadRead, NewWritten
  <2>4. ~(used < 0)
    <3> HIDE DEF used, out, cut, m, b, s, u
    <3>1. used \in Nat
      BY <1>8
    <3> QED
      BY <3>1
  <2>5. Transfer(st0, r) = u
    BY <2>1, <2>4 DEF Transfer
  <2> QED
    BY <2>3, <2>5
<1> HIDE DEF out, cut
<1>10. st0 = [f \in DOMAIN st0 |-> st0[f]] /\ DOMAIN st0 = Parts /\ st0.sock = [k \in Sock |-> st0.sock[k]]
  BY <1>2 DEF Whole, Ready
<1>11. st0.wait = ses.wait
  BY DEF st0, Pop
<1> DEFINE g == h + m
<1>12. g \in Nat /\ h <= g /\ g <= t
  <2> HIDE DEF h, m, t
  <2> QED
    BY <1>7, <1>8
<1>13. /\ b = [f \in DOMAIN b |-> b[f]] /\ DOMAIN b = DOMAIN st0
       /\ b.runq = st0.runq /\ b.wait = st0.wait /\ b.pc = st0.pc /\ b.res = st0.res
       /\ b.sock = st0.sock /\ b.closed = st0.closed /\ b.bypass = st0.bypass
       /\ b.broken = st0.broken /\ b.msg = st0.msg /\ b.stored = st0.stored
       /\ b.data = st0.data /\ b.cut = st0.cut
       /\ b.handled = [st0.handled EXCEPT ![d] = g]
  <2> HIDE DEF h, m
  <2> QED
    BY <1>10 DEF Parts
<1>14. /\ s = [f \in DOMAIN s |-> s[f]] /\ DOMAIN s = DOMAIN st0
       /\ s.runq = st0.runq /\ s.wait = st0.wait /\ s.pc = st0.pc /\ s.res = st0.res
       /\ s.sock = st0.sock /\ s.closed = st0.closed /\ s.bypass = st0.bypass
       /\ s.broken = st0.broken /\ s.msg = st0.msg /\ s.stored = st0.stored
       /\ s.data = [st0.data EXCEPT ![r] = out] /\ s.cut = [st0.cut EXCEPT ![r] = cut]
       /\ s.handled = [st0.handled EXCEPT ![d] = g]
  <2> HIDE DEF h, m
  <2> QED
    BY <1>10 DEF Parts
<1> HIDE DEF b, s, g, m
<1>15. Whole(b)
  BY <1>2, <1>10, <1>13, WholeAside
<1>16. /\ b.closed = ses.closed /\ b.broken = ses.broken /\ b.wait = ses.wait /\ b.pc = ses.pc
       /\ b.res = ses.res /\ b.msg = ses.msg /\ b.bypass = ses.bypass /\ b.stored = ses.stored
       /\ b.sock = ses.sock /\ b.handled[d] = g
       /\ \A e \in Dir : e # d => b.handled[e] = ses.handled[e]
  BY <1>2, <1>3, <1>5, <1>11, <1>13 DEF Alike
<1>17. Twin(ses, b)
  BY <1>15, <1>16 DEF Twin
<1>18. /\ \A x, e : (Has(b, x, e) <=> Has(ses, x, e)) /\ (Takes(b, x, e) <=> Takes(ses, x, e))
       /\ \A x : ExpectsBody(b, x) <=> ExpectsBody(ses, x)
  BY <1>17, TwinHas
<1>19. Steady(ses) /\ Single(ses) /\ Fit(ses, r) /\ Steady(b)
  BY <1>2, <1>16, <1>17, TwinSteady DEF Free, Steered, Steady
<1>20. \A x \in Readers : x # r => ses.pc[x] = "idle"
  BY <1>2, <1>19 DEF Single
<1>21. \A x \in Readers, e \in Dir : x # r => ~Has(ses, x, e)
  BY <1>20 DEF Has
<1>22. Behind(b)
  <2> SUFFICES ASSUME NEW x \in Readers, NEW e \in Dir, Has(ses, x, e)
               PROVE  b.handled[e] <= ses.msg[x].total
    BY <1>16, <1>18 DEF Behind
  <2>1. x = r /\ e = d
    BY <1>21 DEF Has
  <2> QED
    BY <1>12, <1>16, <2>1
<1>23. Fed(b, link)
  <2>1. Paired(b, link) /\ Diverted(b, link)
    BY <1>16, <1>18 DEF Free, Fed, Paired, Diverted, Downstream
  <2>2. ASSUME ~ses.closed PROVE Totals(b, link)
    <3> DEFINE p == link.fromProc
    <3> SUFFICES ASSUME NEW e \in Dir
                 PROVE  LET Of(i) == i \in 1..Len(p) /\ p[i].type = e
                        IN  /\ b.handled[e] <= link.acked[e]
                            /\ link.acked[e] <= Len(link.seen[e])
                            /\ \A i \in 1..Len(p) : Of(i) => b.handled[e] <= p[i].total
                                                             /\ p[i].total <= link.acked[e]
                            /\ \A i, j \in 1..Len(p) : Of(i) /\ Of(j) /\ i < j => p[i].total <= p[j].total
                            /\ \A x \in Readers : Has(ses, x, e) =>
                                   /\ ses.msg[x].total <= link.acked[e]
                                   /\ \A i \in 1..Len(p) : Of(i) => ses.msg[x].total <= p[i].total
      BY <1>16, <1>18 DEF Totals
    <3>1. /\ ses.handled[e] <= link.acked[e]
          /\ link.acked[e] <= Len(link.seen[e])
          /\ \A i \in 1..Len(p) : p[i].type = e => ses.handled[e] <= p[i].total
                                                   /\ p[i].total <= link.acked[e]
          /\ \A i, j \in 1..Len(p) : p[i].type = e /\ p[j].type = e /\ i < j => p[i].total <= p[j].total
          /\ \A x \in Readers : Has(ses, x, e) =>
                 /\ ses.msg[x].total <= link.acked[e]
                 /\ \A i \in 1..Len(p) : p[i].type = e => ses.msg[x].total <= p[i].total
      BY <2>2 DEF Free, Fed, Totals
    <3>2. CASE e # d
      BY <1>16, <3>1, <3>2
    <3>3. CASE e = d
      <4>1. /\ t <= link.acked[e]
            /\ \A i \in 1..Len(p) : p[i].type = e => t <= p[i].total
        BY <1>6, <3>1, <3>3
      <4>2. link.acked \in [Dir -> Nat] /\ p \in Seq(ResponseHead \cup {NewData})
        BY DEF Inv, Surroundings, LinkState
      <4>3. \A i \in 1..Len(p) : p[i].type = e => p[i].total \in Nat
        <5>1. \A y \in ResponseHead \cup {NewData} : y.type = e => y.total \in Nat
          BY DEF ResponseHead, NewData, Dir
        <5>2. \A i \in 1..Len(p) : p[i] \in ResponseHead \cup {NewData}
          BY <4>2
        <5> QED
          BY <5>1, <5>2
      <4>4. b.handled[e] = g /\ link.acked[e] \in Nat
        BY <1>16, <3>3, <4>2
      <4> HIDE DEF t
      <4>5. /\ b.handled[e] <= link.acked[e]
            /\ \A i \in 1..Len(p) : p[i].type = e => b.handled[e] <= p[i].total
        BY <1>7, <1>12, <4>1, <4>3, <4>4
      <4> QED
        BY <3>1, <4>5
    <3> QED
      BY <3>2, <3>3
  <2> QED
    BY <1>16, <2>1, <2>2, ClosedFed DEF Fed
<1>24. Whole(s) /\ \A v : Went(s, v, {r}) => Went(b, v, {r})
  <2>1. \A e : e # r => s.data[e] = b.data[e] /\ s.cut[e] = b.cut[e]
    BY <1>13, <1>14
  <2>2. /\ DOMAIN s = DOMAIN b /\ s.runq = b.runq /\ s.wait = b.wait /\ s.pc = b.pc /\ s.res = b.res
        /\ s.sock = b.sock /\ s.closed = b.closed /\ s.bypass = b.bypass /\ s.broken = b.broken
        /\ s.msg = b.msg /\ s.handled = b.handled /\ s.stored = b.stored
    BY <1>13, <1>14
  <2> QED
    BY <1>14, <1>15, <2>1, <2>2, LoadWent
<1>25. /\ s.msg = ses.msg /\ s.closed = ses.closed /\ s.bypass = ses.bypass /\ s.sock = ses.sock
       /\ s.stored = ses.stored /\ s.data[r] = out /\ s.cut[r] = cut
  BY <1>2, <1>3, <1>14 DEF Alike
<1>26. \E x : Comes(s, u, r, "wfwd", x) /\ (x = "ok" => out = <<>>)
  <2>1. /\ r \in Dir \cup Connectors \cup Readers /\ "wfwd" \in Label
        /\ Wr[To[d]] \in Chan /\ Wr[To[d]] # "detect" /\ Spot("wfwd", r, s.msg) = Wr[To[d]]
    BY <1>5, <1>25, ReaderSpots
  <2>2. CASE out = <<>>
    <3> DEFINE v == AwaitNothing(s, r, "wfwd")
    <3>1. v = Complete(At(s, r, "wfwd"), r, "ok") /\ "ok" \in Result
      BY DEF AwaitNothing, At, Result
    <3>2. Comes(s, v, r, "wfwd", "ok")
      <4> HIDE DEF v
      <4> QED
        BY <1>2, <1>24, <2>1, <3>1, CompleteWent
    <3> QED
      BY <2>2, <3>2
  <2>3. CASE out # <<>>
    <3> DEFINE v == AwaitIo(s, r, "wfwd", To[d], Wr[To[d]])
    <3>1. Comes(s, v, r, "wfwd", "none") \/ Comes(s, v, r, "wfwd", "err")
      BY <1>24, <2>1, AwaitIoWent
    <3> QED
      BY <2>3, <3>1
  <2> QED
    BY <2>2, <2>3
<1> HIDE DEF u
<1>27. /\ Went(s, u, {r}) /\ u.pc[r] = "wfwd" /\ u.closed = ses.closed /\ u.bypass = ses.bypass
       /\ u.sock = ses.sock /\ u.stored = ses.stored /\ u.data[r] = out /\ u.cut[r] = cut /\ u.msg = ses.msg
       /\ u.handled = s.handled /\ (u.res[r] = "ok" => out = <<>>)
  BY <1>25, <1>26 DEF Comes, Alike
<1>28. Went(b, u, {r})
  BY <1>24, <1>27
<1>29. ~ses.closed => ~ses.bypass
  BY <1>2, <1>19 DEF Fit
<1>30. Fit(u, r)
  BY <1>4, <1>27, <1>29 DEF Fit
<1>31. Steady(u)
  <2>1. \A e \in {r} \cap Coro : Fit(u, e)
    BY <1>30
  <2> QED
    BY <1>15, <1>19, <1>28, <2>1, SteadyOn
<1>32. \A e : (Has(u, r, e) => Has(ses, r, e)) /\ ~ExpectsBody(u, r) /\ ~ExpectsBody(ses, r)
  BY <1>1, <1>2, <1>6, <1>27 DEF Has, ExpectsBody
<1>33. Prefix(u)
  <2> SUFFICES ASSUME NEW x \in Readers, NEW e \in Dir, Takes(u, x, e)
               PROVE  First(u.stored[e], u.data[x], u.cut[x])
    BY DEF Prefix
  <2>1. x = r
    <3> SUFFICES ASSUME x # r PROVE FALSE
      OBVIOUS
    <3>1. Takes(b, x, e)
      BY <1>28, HasOn DEF Went
    <3> QED
      BY <1>18, <1>20, <3>1 DEF Takes
  <2>2. e = d
    BY <1>27, <2>1 DEF Takes
  <2> QED
    BY <1>8, <1>27, <2>1, <2>2
<1>34. Free'
  <2>1. Runs(r, {l}, "ok") /\ "idle" \notin {l}
    BY <1>1
  <2> QED
    BY <1>4, <1>9, <1>17, <1>22, <1>23, <1>27, <1>28, <1>31, <1>32, <1>33, <2>1, TwinFree
<1>35. ses' = u /\ UNCHANGED outside /\ (u.sock["process"] = "conn" => link' = link)
  BY <1>9 DEF Becomes
<1>36. ASSUME ~u.closed PROVE link' = link /\ TakesUp(ses, u, r, d)
  <2>1. link' = link
    BY <1>19, <1>27, <1>29, <1>35, <1>36 DEF Steady
  <2>2. Others(ses, u, r)
    <3>1. \A e \in (Dir \cup Readers) \ {r} : b.data[e] = ses.data[e]
      BY <1>2, <1>13 DEF Alike
    <3> QED
      BY <1>16, <1>28, <1>36, <3>1, OthersOn
  <2>3. Has(ses, r, d) /\ ~Takes(ses, r, d) /\ Takes(u, r, d) /\ (Done(u, r, d) => u.data[r] = <<>>)
    BY <1>1, <1>2, <1>6, <1>27 DEF Takes, Done
  <2>4. u.data[r] = Bytes(SubSeq(q, 1, m + used)) /\ used \in Nat
    BY <1>8, <1>27 DEF out
  <2>5. \A e \in Dir : u.stored[e] = ses.stored[e] /\ (e # d => u.handled[e] = ses.handled[e])
    BY <1>16, <1>27, <1>28, <1>36 DEF Went, Calm
  <2>6. u.handled[d] = h + m
    BY <1>2, <1>3, <1>5, <1>14, <1>27 DEF Alike, g
  <2> QED
    <3> HIDE DEF h
    <3>1. /\ u.handled[d] = ses.handled[d] + m
          /\ u.data[r] = Bytes(SubSeq(q, 1, m + used)) /\ used \in Nat
      BY <2>4, <2>6 DEF h
    <3> QED
      BY <2>1, <2>2, <2>3, <2>5, <3>1 DEF TakesUp, m, h
<1> QED
  BY <1>5, <1>34, <1>35, <1>36

-----------------------------------------------------------------------------
(***************************************************************************)
(* Every step, and the theorems.                                           *)
(***************************************************************************)
\* setup_proxy waits for the resolver, nothing else has begun.
LEMMA InitFree == Init => Free
<1> SUFFICES ASSUME Init PROVE Free
  OBVIOUS
<1>1. /\ ~ses.closed /\ ses.bypass /\ ~ses.broken
      /\ \A ch \in Chan : ses.wait[ch] = IF ch = "resolve" THEN <<"setup">> ELSE <<>>
      /\ \A c \in Coro : ses.pc[c] = IF c = "setup" THEN "resolve" ELSE "idle"
      /\ \A c \in Coro : ses.res[c] = "none"
      /\ \A d \in Dir : ses.stored[d] = <<>> /\ ses.handled[d] = 0
      /\ ses.sock["process"] = "closed" /\ link = NoLink /\ faults = 0
  BY DEF Init, NewSession
<1>2. /\ Len(<<>>) = 0 /\ 1..0 = {} /\ Len(<<"setup">>) = 1 /\ 1..1 = {1}
      /\ <<"setup">>[1] = "setup"
  OBVIOUS
<1>3. \A c \in Dir \cup Connectors \cup Readers \cup Detectors : ses.pc[c] = "idle" /\ c # "setup"
  BY <1>1, Apart, Channels
<1>4. Placed(ses)
  <2> SUFFICES ASSUME NEW ch \in Chan, NEW c \in Coro, Waits(ses, ch, c)
               PROVE  Spot(ses.pc[c], c, ses.msg) = ch
    BY DEF Placed
  <2>1. ch = "resolve" /\ c = "setup"
    BY <1>1, <1>2 DEF Waits
  <2> QED
    BY <1>1, <2>1 DEF Spot
<1>5. Single(ses)
  BY <1>3 DEF Single
<1>6. Steady(ses)
  <2>1. Fit(ses, "setup")
    BY <1>1, Apart, Channels DEF Fit
  <2>2. \A c \in Coro : Fit(ses, c)
    BY <1>1, <2>1, IdleFit
  <2> QED
    BY <1>1, <2>2 DEF Steady
<1>7. \A r \in Readers, d \in Dir : ~Has(ses, r, d) /\ ~Takes(ses, r, d)
  BY <1>3 DEF Has, Takes
<1>8. \A r \in Readers : ~ExpectsBody(ses, r)
  BY <1>3 DEF ExpectsBody
<1>9. Steered(ses)
  BY <1>4, <1>5, <1>6, <1>7 DEF Steered, Behind, Prefix
<1>10. /\ link.st = "none" /\ link.fromProc = <<>> /\ link.toProc = <<>>
       /\ \A d \in Dir : link.seen[d] = <<>> /\ link.acked[d] = 0
  BY <1>1 DEF NoLink
<1>11. Linked(ses, link)
  BY <1>1, <1>10 DEF Linked
<1>12. \A d \in Dir : ~Downstream(ses, link, d)
  BY <1>1, <1>2, <1>7, <1>10 DEF Downstream
<1>13. Paired(ses, link) /\ Totals(ses, link)
  <2>1. \A d \in Dir : ses.handled[d] <= link.acked[d] /\ link.acked[d] <= Len(link.seen[d])
    BY <1>1, <1>2, <1>10
  <2> QED
    BY <1>2, <1>7, <1>8, <1>10, <2>1 DEF Paired, Totals
<1> QED
  BY <1>1, <1>9, <1>11, <1>12, <1>13 DEF Free, Fed, Diverted

\* Every step of a session without faults keeps to it.
LEMMA NextFree ==
    ASSUME Inv, Order, Free, MaxFaults = 0, [Next]_vars
    PROVE  Free'
<1>1. CASE Handler
  <2>1. CASE Resolved \/ SetupFails
    BY <2>1, SetupFree
  <2>2. CASE Dialed
    BY <2>2, DialedFree
  <2>3. ASSUME NEW d \in Dir,
               \/ ReadDirect(d) \/ ReadForProcess(d) \/ ReadEof(d) \/ Written(d)
               \/ LoopFails(d) \/ Notified(d) \/ ProcessWriteFails(d) \/ StoredWritten(d)
        PROVE  Free'
    BY <2>3, LoopFree, StoreFree, LostFree
  <2>4. ASSUME NEW k \in Connectors,
               \/ ProcessConnected(k) \/ ConnectFails(k) \/ ConnectAgain(k)
               \/ Introduced(k) \/ NotIntroduced(k)
        PROVE  Free'
    BY <2>4, ConnectFree, ConnectedFree, AgainFree
  <2>5. ASSUME NEW r \in Readers,
               \/ Heartbeat(r) \/ HeadRead(r) \/ BodyRead(r) \/ NewWritten(r)
               \/ HandledWritten(r) \/ ReaderFails(r) \/ ProcessReadFails(r)
               \/ RequestsFlushed(r) \/ ResponsesFlushed(r)
        PROVE  Free'
    <3>1. CASE HandledWritten(r)
      BY <3>1, HandledFree
    <3>2. CASE HeadRead(r)
      BY <3>2, ReaderFree, TransferFree
    <3>3. CASE NewWritten(r)
      BY <3>3, ReaderFree, TransferFree
    <3> QED
      BY <2>5, <3>1, <3>2, <3>3, ReaderFree
  <2>6. ASSUME NEW t \in Detectors, Rearm(t) \/ TimedOut(t) PROVE Free'
    BY <2>6, DetectorFree
  <2> QED
    BY <1>1, <2>1, <2>2, <2>3, <2>4, <2>5, <2>6 DEF Handler
<1>2. CASE PeerStep
  BY <1>2, PeerFree
<1>3. CASE LocalStep
  BY <1>3, AcceptFree, WrittenFree, ReadFree DEF LocalStep
<1>4. CASE TimerStep
  BY <1>4, TimerFree
<1>5. CASE ProcessStep
  BY <1>5, ProcessFree
<1>6. CASE UNCHANGED vars
  <2>1. ses' = ses /\ link' = link /\ faults' = faults
    BY <1>6 DEF vars
  <2> QED
    BY <2>1 DEF Free
<1> QED
  BY <1>1, <1>2, <1>3, <1>4, <1>5, <1>6 DEF Next, Terminated

\* Without faults the invariant holds for good.
LEMMA AlwaysFree ==
    ASSUME MaxFaults = 0
    PROVE  Spec => [](Inv /\ Order /\ Free)
<1>1. Init => Order /\ Free
  BY InitOrder, InitFree
<1>2. Inv /\ Order /\ Free /\ [Next]_vars => Order' /\ Free'
  BY NextOrder, NextFree
<1> QED
  BY <1>1, <1>2, Invariance, PTL DEF Spec

\* The arithmetic on lengths stays within the stored packets: an answer is
\* never behind what was handled before, and what it made the session take is
\* still at the front of the deque when it is dropped; a body is read exactly
\* where the head announced one (session.hpp 238-242, 254-263, 309-346).
THEOREM NothingUndefined ==
    ASSUME MaxFaults = 0
    PROVE  Spec => []NoUndefinedBehaviour
<1>1. Free => NoUndefinedBehaviour
  BY DEF Free, Steered, Steady, NoUndefinedBehaviour
<1> QED
  BY <1>1, AlwaysFree, PTL


\* Who writes to a peer in an open session: the loop of that direction, which
\* is not in the process mode, or the one reader with an answer for it.
LEMMA LoopAtPeer ==
    ASSUME Inv, Free, NEW d \in Dir, NEW e \in Dir, Waits(ses, Wr[To[d]], e)
    PROVE  e = d /\ ses.pc[e] \in {"dwrite", "flush"}
<1> DEFINE ch == Wr[To[d]]
<1>1. ch \in Chan /\ e \in Coro
  BY Channels
<1>2. Spot(ses.pc[e], e, ses.msg) = ch
  BY <1>1 DEF Free, Steered, Placed
<1>3. ses.pc[e] \in {"idle", "dread", "dwrite", "pread", "pwrite", "notify", "flush"}
  BY <1>1 DEF Free, Steered, Steady, Fit
<1>4. /\ Spot("idle", e, ses.msg) = "none" /\ Spot("pwrite", e, ses.msg) = "processWr"
      /\ Spot("notify", e, ses.msg) = "processWr"
      /\ Spot("dread", e, ses.msg) = Rd[From[e]] /\ Spot("pread", e, ses.msg) = Rd[From[e]]
      /\ Spot("dwrite", e, ses.msg) = Wr[To[e]] /\ Spot("flush", e, ses.msg) = Wr[To[e]]
  BY DEF Spot
<1>5. /\ \A x \in Dir : Wr[To[x]] \notin {"none", "processWr"} /\ Wr[To[x]] # Rd[From[e]]
      /\ Wr[To[e]] = Wr[To[d]] => e = d
  BY DEF Dir, From, To, Rd, Wr
<1>6. ses.pc[e] \in {"dwrite", "flush"}
  BY <1>2, <1>3, <1>4, <1>5
<1> QED
  BY <1>2, <1>4, <1>5, <1>6

LEMMA ReaderAtPeer ==
    ASSUME Inv, Free, NEW d \in Dir, NEW r \in Readers, Waits(ses, Wr[To[d]], r)
    PROVE  Has(ses, r, d) /\ ses.pc[r] \in {"wnew", "wfwd"}
<1> DEFINE ch == Wr[To[d]]
<1>1. ch \in Chan /\ r \in Coro
  BY Channels
<1>2. Spot(ses.pc[r], r, ses.msg) = ch
  BY <1>1 DEF Free, Steered, Placed
<1>3. ses.pc[r] \in {"idle", "head", "body", "wnew", "wfwd"}
  BY <1>1 DEF Free, Steered, Steady, Fit
<1>4. /\ Spot("idle", r, ses.msg) = "none" /\ Spot("head", r, ses.msg) = "processRd"
      /\ Spot("body", r, ses.msg) = "processRd"
      /\ Spot("wnew", r, ses.msg) = Wr[To[ses.msg[r].type]]
      /\ Spot("wfwd", r, ses.msg) = Wr[To[ses.msg[r].type]]
  BY DEF Spot
<1>5. ch \notin {"none", "processRd"} /\ \A x \in Dir : Wr[To[x]] = ch => x = d
  BY DEF Dir, To, Wr
<1>6. ses.pc[r] \in {"wnew", "wfwd"} /\ Wr[To[ses.msg[r].type]] = ch
  BY <1>2, <1>3, <1>4, <1>5
<1>7. ses.msg[r].type \in Dir
  BY <1>6 DEF Inv, Sane, Heads, Headed
<1> QED
  BY <1>5, <1>6, <1>7 DEF Has

\* Never two coroutines write to the client, nor two to the server: a loop that
\* has data under way to the process or back leaves the peer to the one reader
\* of answers (session.hpp 284, 312, 337, 510, 577).
THEOREM WritersAlone ==
    ASSUME MaxFaults = 0
    PROVE  Spec => []OneWriterPerPeer
<1>1. Inv /\ Order /\ Free => OneWriterPerPeer
  <2> SUFFICES ASSUME Inv, Order, Free, NEW p \in Peers, ~(Len(ses.wait[Wr[p]]) <= 1)
               PROVE  FALSE
    BY DEF OneWriterPerPeer
  <2>1. PICK d \in Dir : p = To[d]
    BY DEF Peers, To, Dir
  <2> DEFINE ch == Wr[To[d]]
             w == ses.wait[ch]
  <2>2. /\ ch \in {"clientWr", "serverWr"} /\ ch \in Chan
        /\ Waiters[ch] \subseteq {"setup"} \cup Dir \cup Readers
    BY DEF To, Wr, Dir, Waiters, Chan
  <2>3. w \in Seq(Waiters[ch])
    BY <2>2 DEF Inv, Sane, Formed, Waited
  <2>4. 1 \in 1..Len(w) /\ 2 \in 1..Len(w)
    <3>1. Len(w) \in Nat /\ ~(Len(w) <= 1)
      BY <2>1, <2>3
    <3> HIDE DEF w
    <3> QED
      BY <3>1
  <2>5. w[1] \in Waiters[ch] /\ w[2] \in Waiters[ch]
    BY <2>3, <2>4
  <2>6. PICK c \in {"setup"} \cup Dir \cup Readers, e \in {"setup"} \cup Dir \cup Readers :
            c = w[1] /\ e = w[2]
    BY <2>2, <2>5
  <2>7. Waits(ses, ch, c) /\ Waits(ses, ch, e)
    BY <2>4, <2>6 DEF Waits
  <2>8. /\ \A i, j \in 1..Len(w) : w[i] = w[j] => i = j
        /\ \A i \in 1..Len(w) : ses.pc[w[i]] # "idle"
    BY <2>2 DEF Order, Orderly, Queued
  <2>9. c # e /\ ses.pc[c] # "idle" /\ ses.pc[e] # "idle"
    BY <2>4, <2>6, <2>8
  <2>10. ~ses.closed
    <3>1. ASSUME ses.closed PROVE w = <<>>
      BY <3>1, <2>1 DEF Inv, Sane, Shut, Dead, Peers, Sock
    <3>2. w # <<>>
      BY <2>4
    <3> QED
      BY <3>1, <3>2
  <2>11. c # "setup" /\ e # "setup"
    <3>1. \A x \in Coro \ {"setup"} : ses.pc["setup"] # "idle" => ses.pc[x] = "idle"
      BY DEF Inv, SetupAlone
    <3>2. c \in Coro /\ e \in Coro
      BY Channels
    <3> QED
      BY <2>9, <3>1, <3>2
  <2>12. ~(c \in Dir /\ e \in Dir)
    BY <2>7, <2>9, LoopAtPeer
  <2>13. ~(c \in Readers /\ e \in Readers)
    BY <2>9 DEF Free, Steered, Single
  <2>14. ASSUME NEW x \in Dir, NEW r \in Readers, Waits(ses, ch, x), Waits(ses, ch, r)
         PROVE  FALSE
    <3>1. x = d /\ ses.pc[x] \notin {"pread", "pwrite"}
      BY <2>14, LoopAtPeer
    <3>2. Has(ses, r, d)
      BY <2>14, ReaderAtPeer
    <3> QED
      BY <2>10, <3>1, <3>2 DEF Free, Fed, Diverted, Downstream
  <2> QED
    BY <2>6, <2>7, <2>11, <2>12, <2>13, <2>14
<1> QED
  BY <1>1, AlwaysFree, PTL

\* A write of stored packets points into blocks that are still in the deque:
\* the loops never flush, and the one reader has its packets at the front of
\* the deque, to which only its loop appends meanwhile (session.hpp 281,
\* 284-290, 321-337).
THEOREM BuffersStay ==
    ASSUME MaxFaults = 0
    PROVE  Spec => []BuffersOutliveWrites
<1>1. Inv /\ Order /\ Free => BuffersOutliveWrites
  <2> SUFFICES ASSUME Inv, Free, NEW c \in Dir \cup Readers, ses.res[c] = "none",
                      ses.pc[c] \in {"flush", "flushReq", "flushRes", "wfwd"}
               PROVE  /\ ses.pc[c] = "wfwd"
                      /\ Elements(ses.data[c])
                             \subseteq Elements(Bytes(ses.stored[ses.msg[c].type]))
    BY DEF BuffersOutliveWrites
  <2>1. Fit(ses, c) /\ c \in Coro
    BY Channels DEF Free, Steered, Steady
  <2>2. c \notin Dir
    BY <2>1, Apart DEF Fit
  <2>3. c \in Readers /\ ses.pc[c] = "wfwd"
    BY <2>1, <2>2 DEF Fit
  <2> DEFINE d == ses.msg[c].type
             q == ses.stored[d]
             out == ses.data[c]
  <2>4. d \in Dir
    BY <2>3 DEF Inv, Sane, Heads, Headed
  <2>5. First(q, out, ses.cut[c])
    BY <2>3, <2>4 DEF Free, Steered, Prefix, Takes
  <2>6. q \in Seq(Byte) /\ out \in Seq(Nat)
    <3>1. /\ ses.stored \in [Dir -> Seq(Byte)]
          /\ ses.data \in [Dir \cup Readers -> Seq(Nat)]
      BY DEF Inv, Sane, Formed, SessionState, Byte
    <3> QED
      BY <2>4, <3>1
  <2> HIDE DEF q, out
  <2>7. Len(out) <= Len(q) /\ \A i \in 1..Len(out) : out[i] = q[i].b
    BY <2>5 DEF First
  <2>8. 1..Len(out) \subseteq 1..Len(q) /\ Len(Bytes(q)) = Len(q)
    BY <2>6, <2>7 DEF Bytes
  <2>9. \A i \in 1..Len(q) : Bytes(q)[i] = q[i].b
    BY DEF Bytes
  <2>10. Elements(out) \subseteq Elements(Bytes(q))
    <3> SUFFICES ASSUME NEW i \in 1..Len(out)
                 PROVE  \E j \in 1..Len(Bytes(q)) : out[i] = Bytes(q)[j]
      BY DEF Elements
    <3> QED
      BY <2>7, <2>8, <2>9
  <2> QED
    BY <2>3, <2>10 DEF q, out, d
<1> QED
  BY <1>1, AlwaysFree, PTL
=============================================================================
