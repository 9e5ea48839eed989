------------------------------ MODULE Relay_proof ------------------------------
(***************************************************************************)
(* A session without faults as two ordered relays: what it writes to a     *)
(* peer are the bytes of the other one, in their order, each once.         *)
(* Then, that what it writes after an answer of the process was seen and   *)
(* acknowledged there.                                                     *)
(***************************************************************************)
EXTENDS FaultFree_proof, ProxyRelay

-----------------------------------------------------------------------------
(***************************************************************************)
(* What Relayed keeps of what was delivered.                               *)
(***************************************************************************)
\* A set with zero and the successor of each of its numbers has them all.
LEMMA Succession ==
    ASSUME NEW S, 0 \in S, \A n \in Nat : n \in S => n + 1 \in S
    PROVE  Nat \subseteq S
<1> DEFINE T == Nat \ S
           R == OpToRel(<, Nat)
<1> SUFFICES ASSUME T # {} PROVE FALSE
  OBVIOUS
<1>1. IsWellFoundedOn(R, Nat)
  BY NatLessThanWellFounded
<1>2. \A x, y \in Nat : y < x => <<y, x>> \in R
  BY DEF OpToRel
<1> HIDE DEF R
<1>3. PICK x \in T : \A y \in T : ~(<<y, x>> \in R)
  <2>1. T \subseteq Nat
    OBVIOUS
  <2> HIDE DEF T
  <2> QED
    BY <1>1, <2>1, WFMin
<1>4. x \in Nat /\ x # 0 /\ x - 1 \in Nat /\ x - 1 < x /\ x = (x - 1) + 1
  OBVIOUS
<1>5. x - 1 \in T
  BY <1>4
<1> QED
  BY <1>2, <1>3, <1>4, <1>5

LEMMA Regrouped ==
    ASSUME NEW s \in Seq(Nat), NEW t \in Seq(Nat), NEW u \in Seq(Nat)
    PROVE  (s \o t) \o u = s \o (t \o u)
<1> DEFINE v == (s \o t) \o u
           w == s \o (t \o u)
<1>1. /\ v \in Seq(Nat) /\ Len(v) = Len(s) + Len(t) + Len(u)
      /\ w \in Seq(Nat) /\ Len(w) = Len(s) + Len(t) + Len(u)
  OBVIOUS
<1>2. ASSUME NEW i \in 1..Len(v) PROVE v[i] = w[i]
  BY SMTT(30)
<1> HIDE DEF v, w
<1>3. v = w
  BY <1>1, <1>2, SeqEqual
<1> QED
  BY <1>3 DEF v, w

\* All but the last of a sequence, and the last.
LEMMA LastApart ==
    ASSUME NEW n \in Nat, NEW q \in Seq(Nat), Len(q) = n + 1
    PROVE  \E p \in Seq(Nat), x \in Nat :
               /\ Len(p) = n /\ q = p \o <<x>> /\ x = q[n + 1]
               /\ \A i \in 1..n : p[i] = q[i]
<1>1. PICK p \in Seq(Nat), x \in Nat : q = Append(p, x)
  <2>1. q # <<>>
    OBVIOUS
  <2> QED
    BY <2>1, SequenceEmptyOrAppend
<1>2. Len(p) = n /\ x = q[n + 1] /\ \A i \in 1..n : p[i] = q[i]
  BY <1>1
<1>3. q = p \o <<x>>
  BY <1>1, AppendIsConcat
<1> QED
  BY <1>2, <1>3

\* f holds what is kept of each prefix of q.
Builds(f, q) ==
    f = [i \in 0..Len(q) |-> IF i = 0 THEN <<>>
                             ELSE IF q[i] = 0 THEN f[i - 1] ELSE Append(f[i - 1], q[i])]

LEMMA BuildsNext ==
    ASSUME NEW q \in Seq(Nat), NEW x \in Nat, NEW f, Builds(f, q)
    PROVE  Builds([i \in 0..(Len(q) + 1) |->
                      IF i <= Len(q) THEN f[i]
                      ELSE IF x = 0 THEN f[Len(q)] ELSE Append(f[Len(q)], x)], q \o <<x>>)
<1> DEFINE p == q \o <<x>>
           n == Len(q)
           g == [i \in 0..(n + 1) |->
                    IF i <= n THEN f[i] ELSE IF x = 0 THEN f[n] ELSE Append(f[n], x)]
           F(h, i) == IF i = 0 THEN <<>>
                      ELSE IF p[i] = 0 THEN h[i - 1] ELSE Append(h[i - 1], p[i])
<1>1. n \in Nat /\ Len(p) = n + 1 /\ p[n + 1] = x /\ \A i \in 1..n : p[i] = q[i]
  OBVIOUS
<1> HIDE DEF p, n
<1>2. \A i \in 0..n : f[i] = F(f, i)
  <2>1. f = [i \in 0..n |-> IF i = 0 THEN <<>>
                            ELSE IF q[i] = 0 THEN f[i - 1] ELSE Append(f[i - 1], q[i])]
    BY DEF Builds, n
  <2>2. \A i \in 0..n : i # 0 => i \in 1..n
    BY <1>1
  <2> QED
    BY <1>1, <2>1, <2>2
<1>3. \A i \in 0..n : g[i] = f[i]
  BY <1>1
<1>4. \A i \in 0..n : i # 0 => i - 1 \in 0..n
  BY <1>1
<1>5. g[n + 1] = F(g, n + 1)
  <2>1. n + 1 # 0 /\ (n + 1) - 1 = n /\ n + 1 \in 0..(n + 1) /\ ~(n + 1 <= n) /\ n \in 0..n
    BY <1>1
  <2>2. g[n + 1] = IF x = 0 THEN f[n] ELSE Append(f[n], x)
    BY <2>1
  <2>3. g[n] = f[n]
    BY <1>3, <2>1
  <2> HIDE DEF g
  <2> QED
    BY <1>1, <2>1, <2>2, <2>3
<1>6. \A i \in 0..n : g[i] = F(g, i)
  <2> SUFFICES ASSUME NEW i \in 0..n PROVE g[i] = F(g, i)
    OBVIOUS
  <2>1. g[i] = F(f, i)
    BY <1>2, <1>3
  <2>2. i # 0 => g[i - 1] = f[i - 1]
    BY <1>3, <1>4
  <2> HIDE DEF g
  <2> QED
    BY <2>1, <2>2
<1>7. \A i \in 0..(n + 1) : g[i] = F(g, i)
  <2>1. \A i \in 0..(n + 1) : i = n + 1 \/ i \in 0..n
    BY <1>1
  <2> HIDE DEF g, F
  <2> QED
    BY <1>5, <1>6, <2>1
<1>8. g = [i \in 0..(n + 1) |-> g[i]]
  OBVIOUS
<1> HIDE DEF g
<1>9. g = [i \in 0..(n + 1) |-> F(g, i)]
  BY <1>7, <1>8
<1>10. g = [i \in 0..Len(p) |-> F(g, i)]
  BY <1>1, <1>9
<1> QED
  BY <1>10 DEF Builds, g, p, n

\* There is one such function for each q.
LEMMA BuildsAll == \A q \in Seq(Nat) : \E f : Builds(f, q)
<1> DEFINE S == {n \in Nat : \A q \in Seq(Nat) : Len(q) = n => \E f : Builds(f, q)}
<1>1. 0 \in S
  <2> SUFFICES ASSUME NEW q \in Seq(Nat), Len(q) = 0 PROVE \E f : Builds(f, q)
    OBVIOUS
  <2> DEFINE f == [i \in 0..0 |-> <<>>]
  <2>1. f = [i \in 0..0 |-> IF i = 0 THEN <<>>
                            ELSE IF q[i] = 0 THEN f[i - 1] ELSE Append(f[i - 1], q[i])]
    OBVIOUS
  <2> QED
    BY <2>1 DEF Builds
<1>2. ASSUME NEW n \in Nat, n \in S PROVE n + 1 \in S
  <2> SUFFICES ASSUME NEW q \in Seq(Nat), Len(q) = n + 1
               PROVE  \E f : Builds(f, q)
    OBVIOUS
  <2>1. PICK p \in Seq(Nat), x \in Nat : Len(p) = n /\ q = p \o <<x>>
    BY LastApart
  <2>2. PICK f : Builds(f, p)
    BY <1>2, <2>1
  <2> QED
    BY <2>1, <2>2, BuildsNext
<1> HIDE DEF S
<1>3. Nat \subseteq S
  BY <1>1, <1>2, Succession
<1> QED
  BY <1>3 DEF S

LEMMA BuildsOne ==
    ASSUME NEW q \in Seq(Nat), NEW f, NEW g, Builds(f, q), Builds(g, q)
    PROVE  f[Len(q)] = g[Len(q)]
<1> DEFINE S == {n \in Nat : n <= Len(q) => f[n] = g[n]}
<1>1. /\ \A i \in 0..Len(q) : f[i] = IF i = 0 THEN <<>>
                                     ELSE IF q[i] = 0 THEN f[i - 1] ELSE Append(f[i - 1], q[i])
      /\ \A i \in 0..Len(q) : g[i] = IF i = 0 THEN <<>>
                                     ELSE IF q[i] = 0 THEN g[i - 1] ELSE Append(g[i - 1], q[i])
  <2>1. f = [i \in 0..Len(q) |-> IF i = 0 THEN <<>>
                                 ELSE IF q[i] = 0 THEN f[i - 1] ELSE Append(f[i - 1], q[i])]
    BY DEF Builds
  <2>2. g = [i \in 0..Len(q) |-> IF i = 0 THEN <<>>
                                 ELSE IF q[i] = 0 THEN g[i - 1] ELSE Append(g[i - 1], q[i])]
    BY DEF Builds
  <2> QED
    BY ONLY <2>1, <2>2
<1>2. 0 \in S
  BY <1>1
<1>3. ASSUME NEW n \in Nat, n \in S PROVE n + 1 \in S
  <2> SUFFICES ASSUME n + 1 <= Len(q) PROVE f[n + 1] = g[n + 1]
    OBVIOUS
  <2>1. n <= Len(q) /\ n + 1 \in 0..Len(q) /\ n + 1 # 0 /\ (n + 1) - 1 = n
    OBVIOUS
  <2>2. f[n] = g[n]
    BY <1>3, <2>1
  <2> QED
    BY <1>1, <2>1, <2>2
<1> HIDE DEF S
<1>4. Nat \subseteq S
  BY <1>2, <1>3, Succession
<1>5. Len(q) \in S
  BY <1>4
<1> QED
  BY <1>5 DEF S

LEMMA OfPeersIs ==
    ASSUME NEW q \in Seq(Nat), NEW f, Builds(f, q)
    PROVE  OfPeers(q) = f[Len(q)]
<1>1. OfPeers(q) = (CHOOSE g : Builds(g, q))[Len(q)]
  BY Zenon DEF OfPeers, Builds
<1>2. Builds(CHOOSE g : Builds(g, q), q)
  <2>1. \E g : Builds(g, q)
    OBVIOUS
  <2> QED
    BY <2>1
<1> QED
  BY <1>1, <1>2, BuildsOne

LEMMA OfPeersEmpty == OfPeers(<<>>) = <<>>
<1> DEFINE f == [i \in 0..0 |-> <<>>]
<1>1. f = [i \in 0..0 |-> IF i = 0 THEN <<>>
                          ELSE IF (<<>>)[i] = 0 THEN f[i - 1] ELSE Append(f[i - 1], (<<>>)[i])]
  OBVIOUS
<1>2. Builds(f, <<>>) /\ <<>> \in Seq(Nat) /\ Len(<<>>) = 0
  BY <1>1 DEF Builds
<1>3. f[0] = <<>>
  OBVIOUS
<1> HIDE DEF f
<1> QED
  BY <1>2, <1>3, OfPeersIs

\* One byte more.
LEMMA OfPeersNext ==
    ASSUME NEW q \in Seq(Nat), NEW x \in Nat
    PROVE  OfPeers(q \o <<x>>) = IF x = 0 THEN OfPeers(q) ELSE Append(OfPeers(q), x)
<1>1. PICK f : Builds(f, q)
  BY BuildsAll
<1> DEFINE p == q \o <<x>>
           g == [i \in 0..(Len(q) + 1) |->
                    IF i <= Len(q) THEN f[i]
                    ELSE IF x = 0 THEN f[Len(q)] ELSE Append(f[Len(q)], x)]
<1>2. Builds(g, p)
  BY <1>1, BuildsNext
<1>3. p \in Seq(Nat) /\ Len(p) = Len(q) + 1 /\ Len(q) \in Nat
  OBVIOUS
<1>4. g[Len(q) + 1] = IF x = 0 THEN f[Len(q)] ELSE Append(f[Len(q)], x)
  BY <1>3
<1> HIDE DEF g, p
<1>5. OfPeers(q) = f[Len(q)] /\ OfPeers(p) = g[Len(q) + 1]
  BY <1>1, <1>2, <1>3, OfPeersIs
<1> QED
  BY <1>4, <1>5 DEF p

\* It keeps numbers, and all that are not zero.
LEMMA OfPeersType == \A q \in Seq(Nat) : OfPeers(q) \in Seq(Nat)
<1> DEFINE S == {n \in Nat : \A q \in Seq(Nat) : Len(q) = n => OfPeers(q) \in Seq(Nat)}
<1>1. 0 \in S
  BY OfPeersEmpty
<1>2. ASSUME NEW n \in Nat, n \in S PROVE n + 1 \in S
  <2> SUFFICES ASSUME NEW q \in Seq(Nat), Len(q) = n + 1
               PROVE  OfPeers(q) \in Seq(Nat)
    OBVIOUS
  <2>1. PICK p \in Seq(Nat), x \in Nat : Len(p) = n /\ q = p \o <<x>>
    BY LastApart
  <2>2. OfPeers(p) \in Seq(Nat)
    BY <1>2, <2>1
  <2>3. OfPeers(q) = IF x = 0 THEN OfPeers(p) ELSE Append(OfPeers(p), x)
    BY <2>1, OfPeersNext
  <2>4. Append(OfPeers(p), x) \in Seq(Nat)
    BY <2>1, <2>2
  <2> QED
    BY <2>2, <2>3, <2>4
<1> HIDE DEF S
<1>3. Nat \subseteq S
  BY <1>1, <1>2, Succession
<1> QED
  BY <1>3 DEF S

LEMMA OfPeersMore ==
    ASSUME NEW q \in Seq(Nat)
    PROVE  \A t \in Seq(Nat) : (\A i \in 1..Len(t) : t[i] # 0) => OfPeers(q \o t) = OfPeers(q) \o t
<1> DEFINE S == {n \in Nat : \A t \in Seq(Nat) : Len(t) = n /\ (\A i \in 1..Len(t) : t[i] # 0)
                                 => OfPeers(q \o t) = OfPeers(q) \o t}
<1>1. OfPeers(q) \in Seq(Nat)
  BY OfPeersType
<1>2. 0 \in S
  <2>1. \A t \in Seq(Nat) : Len(t) = 0 => q \o t = q /\ OfPeers(q) \o t = OfPeers(q)
    BY <1>1
  <2> QED
    BY <2>1
<1>3. ASSUME NEW n \in Nat, n \in S PROVE n + 1 \in S
  <2> SUFFICES ASSUME NEW t \in Seq(Nat), Len(t) = n + 1,
                      \A i \in 1..Len(t) : t[i] # 0
               PROVE  OfPeers(q \o t) = OfPeers(q) \o t
    OBVIOUS
  <2>1. PICK p \in Seq(Nat), x \in Nat :
            /\ Len(p) = n /\ t = p \o <<x>> /\ x = t[n + 1]
            /\ \A i \in 1..n : p[i] = t[i]
    BY LastApart
  <2>6. x # 0 /\ \A i \in 1..Len(p) : p[i] # 0
    BY <2>1
  <2>2. OfPeers(q \o p) = OfPeers(q) \o p
    BY <1>3, <2>1, <2>6
  <2>3. q \o p \in Seq(Nat) /\ q \o t = (q \o p) \o <<x>>
    <3>1. q \o p \in Seq(Nat) /\ <<x>> \in Seq(Nat)
      OBVIOUS
    <3>2. (q \o p) \o <<x>> = q \o (p \o <<x>>)
      BY <3>1, Regrouped, ZenonT(40)
    <3> QED
      BY <2>1, <3>1, <3>2
  <2>4. OfPeers(q \o t) = Append(OfPeers(q) \o p, x)
    BY <2>1, <2>2, <2>3, <2>6, OfPeersNext
  <2>5. Append(OfPeers(q) \o p, x) = OfPeers(q) \o (p \o <<x>>)
    <3> DEFINE k == OfPeers(q)
    <3>1. k \in Seq(Nat) /\ k \o p \in Seq(Nat) /\ <<x>> \in Seq(Nat)
      BY <1>1
    <3> HIDE DEF S, k
    <3>4. k \in Seq(Nat)
      BY <3>1
    <3>2. Append(k \o p, x) = (k \o p) \o <<x>>
      BY <3>1, AppendIsConcat
    <3> DEFINE y == <<x>>
    <3> HIDE DEF y
    <3>3. (k \o p) \o y = k \o (p \o y)
      <4>1. y \in Seq(Nat)
        BY <3>1 DEF y
      <4> QED
        BY <3>4, <4>1, Regrouped, ZenonT(40)
    <3> QED
      BY <3>2, <3>3 DEF k, y
  <2> QED
    BY <2>1, <2>4, <2>5
<1> HIDE DEF S
<1>4. Nat \subseteq S
  BY <1>2, <1>3, Succession
<1> QED
  BY <1>4 DEF S

-----------------------------------------------------------------------------
(***************************************************************************)
(* Where the bytes of a direction are.                                     *)
(***************************************************************************)
\* q is what follows byte b of its stream.
Follows(q, b) == \A i \in 1..Len(q) : q[i] = b + i

\* Of g bytes of d that were read, those that are no longer held.
Past(st, g, d) ==
    g - Len(st.stored[d]) - (IF Carries(st, d) THEN Len(st.data[d]) ELSE 0)

\* What is held is the last that was read, without a gap and in its order,
\* and n bytes were delivered: all that is past, and what a reader has just
\* written and is about to drop.
Ordered(st, g, n, d) ==
    LET q == st.stored[d]
        b == Past(st, g, d)
    IN  /\ b \in Nat
        /\ \A i \in 1..Len(q) : q[i].b = b + i
        /\ Carries(st, d) => Follows(st.data[d], b + Len(q))
        /\ n = b \/ \E r \in Readers : Done(st, r, d)
        /\ \A r \in Readers : Done(st, r, d) => n = b + Len(st.data[r])

\* What the process creates is not a byte of a peer.
Creates(st) == \A r \in Readers : st.pc[r] = "wnew" => st.data[r] = <<0>>

Relaying ==
    /\ \A d \in Dir : got[d] <= sent[d] /\ Follows(Relayed(d), 0)
    /\ ~ses.closed => /\ Creates(ses)
                      /\ \A d \in Dir : Ordered(ses, got[d], Len(Relayed(d)), d)

\* The bytes of d stay where they are.
SameBytes(st, u, d) ==
    /\ u.stored[d] = st.stored[d]
    /\ Carries(u, d) <=> Carries(st, d)
    /\ Carries(st, d) => u.data[d] = st.data[d]
    /\ \A r \in Readers : /\ Done(u, r, d) <=> Done(st, r, d)
                          /\ Done(st, r, d) => u.data[r] = st.data[r]

LEMMA OrderedOn ==
    ASSUME NEW st, NEW u, NEW d, NEW g, NEW n, SameBytes(st, u, d), Ordered(st, g, n, d)
    PROVE  Ordered(u, g, n, d) /\ Past(u, g, d) = Past(st, g, d)
BY DEF SameBytes, Ordered, Past

LEMMA QuietBytes ==
    ASSUME NEW st, NEW u, Quiet(st, u)
    PROVE  /\ \A d \in Dir : SameBytes(st, u, d)
           /\ Creates(st) => Creates(u)
<1>1. ASSUME NEW d \in Dir PROVE SameBytes(st, u, d)
  <2>1. \A r \in Readers : Done(st, r, d) => Takes(st, r, d)
    BY DEF Done
  <2> QED
    BY <2>1 DEF Quiet, SameLoop, SameReader, SameBytes
<1>2. Creates(st) => Creates(u)
  BY DEF Quiet, SameReader, Creates
<1> QED
  BY <1>1, <1>2

\* What a handler does to the data.
Moves ==
    \/ ses'.closed
    \/ Unmoved
    \/ /\ link' = link
       /\ \E d \in Dir : \/ Stores(ses, ses', d)
                         \/ \E r \in Readers : Clears(ses, ses', r, d) \/ TakesUp(ses, ses', r, d)

LEMMA HandlerMoves ==
    ASSUME Inv, Order, Free, Handler
    PROVE  UNCHANGED outside /\ Moves
<1>0. Unmoved => UNCHANGED outside /\ Moves
  BY DEF Unmoved, Moves
<1>1. CASE Resolved \/ SetupFails
  BY <1>0, <1>1, SetupFree
<1>2. CASE Dialed
  BY <1>0, <1>2, DialedFree
<1>3. ASSUME NEW d \in Dir,
             \/ ReadDirect(d) \/ ReadForProcess(d) \/ ReadEof(d) \/ Written(d)
             \/ LoopFails(d) \/ Notified(d) \/ ProcessWriteFails(d) \/ StoredWritten(d)
      PROVE  UNCHANGED outside /\ Moves
  <2>1. CASE ReadForProcess(d)
    <3>1. UNCHANGED outside /\ (ses'.closed \/ (link' = link /\ Stores(ses, ses', d)))
      BY <2>1, StoreFree
    <3> QED
      BY <3>1 DEF Moves
  <2>2. CASE ~ReadForProcess(d)
    BY <1>0, <1>3, <2>2, LoopFree, LostFree
  <2> QED
    BY <2>1, <2>2
<1>4. ASSUME NEW k \in Connectors,
             \/ ProcessConnected(k) \/ ConnectFails(k) \/ ConnectAgain(k)
             \/ Introduced(k) \/ NotIntroduced(k)
      PROVE  UNCHANGED outside /\ Moves
  BY <1>0, <1>4, ConnectFree, ConnectedFree, AgainFree
<1>5. ASSUME NEW r \in Readers,
             \/ Heartbeat(r) \/ HeadRead(r) \/ BodyRead(r) \/ NewWritten(r)
             \/ HandledWritten(r) \/ ReaderFails(r) \/ ProcessReadFails(r)
             \/ RequestsFlushed(r) \/ ResponsesFlushed(r)
      PROVE  UNCHANGED outside /\ Moves
  <2>1. CASE HandledWritten(r)
    <3>1. UNCHANGED outside /\ (ses'.closed \/ (link' = link /\ \E d \in Dir : Clears(ses, ses', r, d)))
      BY <2>1, HandledFree
    <3> QED
      BY <3>1 DEF Moves
  <2>2. CASE (HeadRead(r) \/ NewWritten(r)) /\ ~Unmoved
    <3>1. \/ HeadRead(r) /\ ~(ses.msg[r].new \/ ses.msg[r].act = "block")
          \/ NewWritten(r) /\ ~(ses.msg[r].act = "block")
      BY <2>2, ReaderFree
    <3>2. UNCHANGED outside /\ (ses'.closed \/ (link' = link /\ \E d \in Dir : TakesUp(ses, ses', r, d)))
      BY <3>1, TransferFree
    <3> QED
      BY <3>2 DEF Moves
  <2>3. CASE ~HandledWritten(r) /\ ~HeadRead(r) /\ ~NewWritten(r)
    BY <1>0, <1>5, <2>3, ReaderFree
  <2> QED
    BY <1>0, <2>1, <2>2, <2>3
<1>6. ASSUME NEW t \in Detectors, Rearm(t) \/ TimedOut(t) PROVE UNCHANGED outside /\ Moves
  BY <1>0, <1>6, DetectorFree
<1> QED
  BY <1>1, <1>2, <1>3, <1>4, <1>5, <1>6 DEF Handler

\* A deque and the data of its loop are finite sequences.
LEMMA HeldTypes ==
    ASSUME Inv
    PROVE  /\ ses.stored \in [Dir -> Seq(Byte)] /\ ses.data \in [Dir \cup Readers -> Seq(Nat)]
           /\ got \in [Dir -> Nat] /\ sent \in [Dir -> Nat] /\ deliv \in [Dir -> Seq(Nat)]
           /\ ses.handled \in [Dir -> Nat] /\ ses.msg \in [Readers -> ResponseHead]
           /\ \A d \in Dir : Relayed(d) \in Seq(Nat)
<1>1. /\ ses.stored \in [Dir -> Seq(Byte)] /\ ses.data \in [Dir \cup Readers -> Seq(Nat)]
      /\ ses.handled \in [Dir -> Nat] /\ ses.msg \in [Readers -> ResponseHead]
  BY DEF Inv, Sane, Formed, SessionState, Byte
<1>2. got \in [Dir -> Nat] /\ sent \in [Dir -> Nat] /\ deliv \in [Dir -> Seq(Nat)]
  BY DEF Inv, Surroundings
<1>3. \A d \in Dir : Relayed(d) \in Seq(Nat)
  BY <1>2, OfPeersType DEF Relayed
<1> QED
  BY <1>1, <1>2, <1>3

\* The loop of d stores what it holds.
LEMMA StoresOrdered ==
    ASSUME Inv, NEW d \in Dir, Stores(ses, ses', d), NEW e \in Dir, NEW n,
           Ordered(ses, got[e], n, e)
    PROVE  Ordered(ses', got[e], n, e) /\ Past(ses', got[e], e) = Past(ses, got[e], e)
<1> DEFINE u == ses'
<1>1. /\ u.msg = ses.msg
      /\ \A x \in Dir \ {d} : SameLoop(ses, u, x)
      /\ \A r \in Readers : SameReader(ses, u, r)
  BY Apart DEF Stores, Others
<1>2. \A r \in Readers : /\ Done(u, r, e) <=> Done(ses, r, e)
                         /\ Done(ses, r, e) => u.data[r] = ses.data[r]
  BY <1>1 DEF SameReader, Done
<1>3. CASE e # d
  <2>1. SameBytes(ses, u, e)
    BY <1>1, <1>2, <1>3 DEF Stores, SameLoop, SameBytes
  <2> QED
    BY <2>1, OrderedOn
<1>4. CASE e = d
  <2> DEFINE q == ses.stored[d]
             x == ses.data[d]
             p == Packet(x)
             b == Past(ses, got[d], d)
  <2>1. q \in Seq(Byte) /\ x \in Seq(Nat) /\ got[d] \in Nat
    BY HeldTypes
  <2>2. p \in Seq(Byte) /\ Len(p) = Len(x) /\ \A i \in 1..Len(x) : p[i].b = x[i]
    BY <2>1, PacketType DEF Packet
  <2>3. Carries(ses, d) /\ ~Carries(u, d) /\ u.stored[d] = q \o p
    BY DEF Stores, Carries, Sends
  <2>4. /\ b \in Nat /\ b = got[d] - Len(q) - Len(x)
        /\ \A i \in 1..Len(q) : q[i].b = b + i
        /\ \A i \in 1..Len(x) : x[i] = b + Len(q) + i
    BY <1>4, <2>1, <2>3 DEF Ordered, Past, Follows
  <2> HIDE DEF p, q, x, b
  <2>5. /\ Len(q \o p) = Len(q) + Len(x)
        /\ \A i \in 1..Len(q \o p) : (q \o p)[i] = IF i <= Len(q) THEN q[i] ELSE p[i - Len(q)]
    <3>1. q \in Seq(Byte) /\ p \in Seq(Byte)
      BY <2>1, <2>2
    <3>2. /\ Len(q \o p) = Len(q) + Len(p)
          /\ \A i \in 1..(Len(q) + Len(p)) : (q \o p)[i] = IF i <= Len(q) THEN q[i] ELSE p[i - Len(q)]
      BY ONLY <3>1
    <3> QED
      BY <2>2, <3>2
  <2>6. Past(u, got[d], d) = b
    BY <2>1, <2>3, <2>4, <2>5 DEF Past
  <2>7. ASSUME NEW i \in 1..Len(q \o p) PROVE (q \o p)[i].b = b + i
    <3>1. CASE i <= Len(q)
      BY <2>1, <2>4, <2>5, <3>1
    <3>2. CASE ~(i <= Len(q))
      <4>1. i - Len(q) \in 1..Len(x)
        BY <2>1, <2>5, <3>2
      <4>2. (q \o p)[i].b = x[i - Len(q)]
        BY <2>2, <2>5, <3>2, <4>1
      <4>3. x[i - Len(q)] = b + Len(q) + (i - Len(q))
        BY <2>4, <4>1
      <4> QED
        BY <2>1, <2>4, <4>2, <4>3
    <3> QED
      BY <3>1, <3>2
  <2>8. n = b \/ \E r \in Readers : Done(u, r, d)
    BY <1>2, <1>4 DEF Ordered, b
  <2>9. \A r \in Readers : Done(u, r, d) => n = b + Len(u.data[r])
    BY <1>2, <1>4 DEF Ordered, b
  <2>10. Ordered(u, got[d], n, d)
    BY <2>3, <2>4, <2>6, <2>7, <2>8, <2>9 DEF Ordered
  <2>11. Past(ses, got[d], d) = b
    BY DEF b
  <2> QED
    BY <1>4, <2>6, <2>10, <2>11
<1> QED
  BY <1>3, <1>4

\* There is one reader, and what it has taken is the front of the deque.
LEMMA OneTakes ==
    ASSUME Inv, Free, NEW r \in Readers, NEW d \in Dir, Takes(ses, r, d)
    PROVE  /\ \A x \in Readers, e \in Dir : (x # r \/ e # d) => ~Has(ses, x, e) /\ ~Done(ses, x, e)
           /\ Len(ses.data[r]) <= Len(ses.stored[d])
           /\ \A i \in 1..Len(ses.data[r]) : ses.data[r][i] = ses.stored[d][i].b
           /\ Len(ses.data[r]) \in Nat
<1>1. \A x \in Readers : x # r => ses.pc[x] = "idle"
  BY DEF Free, Steered, Single, Takes
<1>2. First(ses.stored[d], ses.data[r], ses.cut[r])
  BY DEF Free, Steered, Prefix
<1>3. Len(ses.data[r]) \in Nat
  BY HeldTypes
<1> QED
  BY <1>1, <1>2, <1>3 DEF First, Takes, Has, Done

\* The reader drops what it has delivered.
LEMMA ClearsOrdered ==
    ASSUME Inv, Free, NEW r \in Readers, NEW d \in Dir, Clears(ses, ses', r, d),
           NEW e \in Dir, NEW n, Ordered(ses, got[e], n, e)
    PROVE  /\ Ordered(ses', got[e], n, e)
           /\ Past(ses', got[e], e) = Past(ses, got[e], e)
                  + (IF e = d THEN Len(ses.data[r]) ELSE 0)
<1> DEFINE u == ses'
<1>1. /\ \A x \in Dir : SameLoop(ses, u, x)
      /\ \A x \in Readers \ {r} : SameReader(ses, u, x)
      /\ Takes(ses, r, d)
  BY Apart DEF Clears, Others, Done
<1>2. \A x \in Readers : ~Done(u, x, e)
  <2> SUFFICES ASSUME NEW x \in Readers, Done(u, x, e) PROVE FALSE
    OBVIOUS
  <2>1. CASE x = r
    BY <2>1, RestsHolds DEF Clears, Done
  <2>2. CASE x # r
    BY <1>1, <2>2, OneTakes DEF SameReader
  <2> QED
    BY <2>1, <2>2
<1> DEFINE q == ses.stored[e]
           b == Past(ses, got[e], e)
<1> DEFINE k == IF Carries(ses, e) THEN Len(ses.data[e]) ELSE 0
<1>3. q \in Seq(Byte) /\ Len(q) \in Nat /\ got[e] \in Nat /\ b \in Nat /\ k \in Nat /\ b = got[e] - Len(q) - k
  <2>1. q \in Seq(Byte) /\ got[e] \in Nat /\ ses.data[e] \in Seq(Nat)
    BY HeldTypes
  <2>2. b \in Nat
    BY DEF Ordered
  <2>3. b = got[e] - Len(q) - k
    BY DEF Past
  <2> HIDE DEF b
  <2> QED
    BY <2>1, <2>2, <2>3
<1>4. CASE e # d
  <2>1. \A x \in Readers : ~Done(ses, x, e)
    BY <1>1, <1>4, OneTakes
  <2>2. SameBytes(ses, u, e)
    BY <1>1, <1>2, <1>4, <2>1 DEF Clears, SameLoop, SameBytes
  <2> QED
    BY <1>3, <1>4, <2>2, OrderedOn
<1>5. CASE e = d
  <2> DEFINE m == Len(ses.data[r])
  <2>1. m \in Nat /\ m <= Len(q)
    BY <1>1, <1>5, OneTakes
  <2>2. u.stored[e] = SubSeq(q, m + 1, Len(q)) /\ n = b + m
    BY <1>5 DEF Clears, Ordered
  <2>3. /\ Carries(u, e) <=> Carries(ses, e)
        /\ Carries(ses, e) => u.data[e] = ses.data[e] /\ Follows(ses.data[e], b + Len(q))
        /\ \A i \in 1..Len(q) : q[i].b = b + i
    BY <1>1 DEF SameLoop, Ordered
  <2> HIDE DEF m, q, k
  <2>4. /\ Len(u.stored[e]) = Len(q) - m
        /\ \A i \in 1..(Len(q) - m) : u.stored[e][i] = q[m + i]
    BY <1>3, <2>1, <2>2, SMTT(30)
  <2>5. Past(u, got[e], e) = b + m
    <3> HIDE DEF b
    <3>1. k = IF Carries(u, e) THEN Len(u.data[e]) ELSE 0
      BY <2>3 DEF k
    <3>2. Past(u, got[e], e) = got[e] - Len(u.stored[e]) - k
      BY <3>1 DEF Past
    <3> QED
      BY <1>3, <2>1, <2>4, <3>2
  <2> HIDE DEF b
  <2>6. \A i \in 1..Len(u.stored[e]) : u.stored[e][i].b = (b + m) + i
    <3> SUFFICES ASSUME NEW i \in 1..(Len(q) - m) PROVE u.stored[e][i].b = (b + m) + i
      BY <2>4
    <3>1. m + i \in 1..Len(q)
      BY <1>3, <2>1
    <3>2. q[m + i].b = b + (m + i)
      BY <2>3, <3>1
    <3>3. u.stored[e][i] = q[m + i]
      BY <2>4
    <3>4. b + (m + i) = (b + m) + i
      BY <1>3, <2>1
    <3> QED
      BY <3>2, <3>3, <3>4
  <2>7. Carries(u, e) => Follows(u.data[e], (b + m) + Len(u.stored[e]))
    <3>1. (b + m) + Len(u.stored[e]) = b + Len(q)
      BY <1>3, <2>1, <2>4
    <3> QED
      BY <2>3, <3>1
  <2>8. Ordered(u, got[e], n, e)
    <3> DEFINE c == b + m
    <3>1. c \in Nat /\ n = c /\ Past(u, got[e], e) = c
      BY <1>3, <2>1, <2>2, <2>5
    <3>2. /\ \A i \in 1..Len(u.stored[e]) : u.stored[e][i].b = c + i
          /\ Carries(u, e) => Follows(u.data[e], c + Len(u.stored[e]))
      BY <2>6, <2>7
    <3> HIDE DEF c
    <3> QED
      BY <1>2, <3>1, <3>2 DEF Ordered
  <2> QED
    BY <1>5, <2>5, <2>8 DEF b, m
<1> QED
  BY <1>4, <1>5

\* The reader has not written anything when it takes more.
LEMMA TakesUpOrdered ==
    ASSUME Inv, Free, NEW r \in Readers, NEW d \in Dir, TakesUp(ses, ses', r, d),
           NEW e \in Dir, NEW n, Ordered(ses, got[e], n, e)
    PROVE  Ordered(ses', got[e], n, e) /\ Past(ses', got[e], e) = Past(ses, got[e], e)
<1> DEFINE u == ses'
           b == Past(ses, got[e], e)
<1>1. /\ \A x \in Dir : SameLoop(ses, u, x)
      /\ \A x \in Readers \ {r} : SameReader(ses, u, x)
      /\ Has(ses, r, d) /\ ~Takes(ses, r, d)
      /\ \A x \in Dir : u.stored[x] = ses.stored[x]
      /\ u.msg = ses.msg /\ Takes(u, r, d) /\ (Done(u, r, d) => u.data[r] = <<>>)
  BY Apart DEF TakesUp, Others
<1>2. \A x \in Readers : ~Done(ses, x, e)
  <2>1. ses.pc[r] # "idle" /\ ~Takes(ses, r, e)
    BY <1>1 DEF Has, Takes
  <2>2. \A x \in Readers : x # r => ses.pc[x] = "idle"
    BY <2>1 DEF Free, Steered, Single
  <2> QED
    BY <2>1, <2>2 DEF Done, Takes
<1>3. \A x \in Readers : Done(u, x, e) => x = r /\ e = d
  <2>1. \A x \in Readers \ {r} : ~Done(u, x, e)
    BY <1>1, <1>2 DEF SameReader
  <2>2. Done(u, r, e) => e = d
    BY <1>1 DEF Done, Takes
  <2> QED
    BY <2>1, <2>2
<1>4. Past(u, got[e], e) = b
  BY <1>1 DEF SameLoop, Past
<1>5. n = b /\ b \in Nat
  BY <1>2 DEF Ordered
<1>6. \A x \in Readers : Done(u, x, e) => n = b + Len(u.data[x])
  BY <1>1, <1>3, <1>5
<1>7. Carries(u, e) => Carries(ses, e) /\ u.data[e] = ses.data[e]
  BY <1>1 DEF SameLoop
<1> QED
  BY <1>1, <1>4, <1>5, <1>6, <1>7 DEF Ordered

\* No handler leaves the order of the bytes.
LEMMA HandlerRelays ==
    ASSUME Inv, Order, Free, StaysClosed, Relaying, Handler
    PROVE  Relaying' /\ UNCHANGED outside
<1>1. UNCHANGED outside /\ Moves
  BY HandlerMoves
<1>2. \A d \in Dir : got'[d] = got[d] /\ sent'[d] = sent[d] /\ Relayed(d)' = Relayed(d)
  BY <1>1 DEF outside, Relayed
<1>3. ASSUME ~ses'.closed PROVE Creates(ses') /\ \A d \in Dir : Ordered(ses', got[d], Len(Relayed(d)), d)
  <2>1. Creates(ses) /\ \A d \in Dir : Ordered(ses, got[d], Len(Relayed(d)), d)
    BY <1>3 DEF StaysClosed, Relaying
  <2>2. CASE Unmoved
    BY <1>3, <2>1, <2>2, QuietBytes, OrderedOn DEF Unmoved
  <2>3. ASSUME NEW d \in Dir, Stores(ses, ses', d) PROVE Creates(ses')
    <3>1. \A r \in Readers : SameReader(ses, ses', r)
      BY <2>3, Apart DEF Stores, Others
    <3> QED
      BY <2>1, <3>1 DEF Creates, SameReader
  <2>4. ASSUME NEW r \in Readers, Others(ses, ses', r), ses'.pc[r] # "wnew" PROVE Creates(ses')
    BY <2>1, <2>4 DEF Creates, Others, SameReader
  <2>5. ASSUME NEW r \in Readers, NEW d \in Dir, Clears(ses, ses', r, d) PROVE Creates(ses')
    BY <2>4, <2>5 DEF Clears, Rests
  <2>6. ASSUME NEW r \in Readers, NEW d \in Dir, TakesUp(ses, ses', r, d) PROVE Creates(ses')
    BY <2>4, <2>6 DEF TakesUp, Takes
  <2>7. CASE \E d \in Dir : Stores(ses, ses', d)
    BY <2>1, <2>3, <2>7, StoresOrdered
  <2>8. CASE \E d \in Dir, r \in Readers : Clears(ses, ses', r, d)
    BY <2>1, <2>5, <2>8, ClearsOrdered
  <2>9. CASE \E d \in Dir, r \in Readers : TakesUp(ses, ses', r, d)
    BY <2>1, <2>6, <2>9, TakesUpOrdered
  <2> QED
    BY <1>1, <1>3, <2>2, <2>7, <2>8, <2>9 DEF Moves
<1> QED
  BY <1>1, <1>2, <1>3 DEF Relaying

-----------------------------------------------------------------------------
(***************************************************************************)
(* What happens outside, and every step.                                   *)
(***************************************************************************)
\* s differs from the session in its data, its heads and its sockets only.
Beside(s) ==
    /\ s = [f \in DOMAIN s |-> s[f]] /\ DOMAIN s = DOMAIN ses
    /\ s.runq = ses.runq /\ s.wait = ses.wait /\ s.pc = ses.pc /\ s.res = ses.res
    /\ s.sock = [k \in Sock |-> s.sock[k]] /\ s.closed = ses.closed
    /\ s.stored = ses.stored /\ s.handled = ses.handled

\* The operation that c waits for at ch ends with the result r.
Settles(ch, c, r) ==
    /\ c \in Coro /\ c \in Waiters[ch] /\ Waits(ses, ch, c) /\ ses.res[c] = "none"
    /\ ses.pc[c] # "idle" /\ Fit(ses, c) /\ Spot(ses.pc[c], c, ses.msg) = ch
    /\ ses.closed => ch \in {"detect", "retry", "resolve"}
    /\ ses'.pc = ses.pc /\ ses'.closed = ses.closed
    /\ ses'.stored = ses.stored /\ ses'.handled = ses.handled
    /\ \A x \in Coro : ses'.res[x] = IF x = c THEN r ELSE ses.res[x]

LEMMA AllBeside ==
    ASSUME Whole(ses)
    PROVE  /\ Beside(ses)
           /\ \A d, x : LET s == [ses EXCEPT !.data[d] = x]
                        IN  Beside(s) /\ s.data = [ses.data EXCEPT ![d] = x] /\ s.msg = ses.msg
           /\ \A k \in Sock : LET s == [ses EXCEPT !.sock[k] = "conn"]
                              IN  Beside(s) /\ s.data = ses.data /\ s.msg = ses.msg
           /\ \A r, m : LET s == [ses EXCEPT !.msg[r] = m]
                        IN  Beside(s) /\ s.data = ses.data /\ s.msg = [ses.msg EXCEPT ![r] = m]
<1>1. ses = [f \in DOMAIN ses |-> ses[f]] /\ DOMAIN ses = Parts /\ ses.sock = [k \in Sock |-> ses.sock[k]]
  BY DEF Whole, Ready
<1>2. Beside(ses)
  BY <1>1 DEF Beside
<1>3. ASSUME NEW d, NEW x
      PROVE  LET s == [ses EXCEPT !.data[d] = x]
             IN  Beside(s) /\ s.data = [ses.data EXCEPT ![d] = x] /\ s.msg = ses.msg
  BY <1>1 DEF Beside, Parts
<1>4. ASSUME NEW k \in Sock
      PROVE  LET s == [ses EXCEPT !.sock[k] = "conn"]
             IN  Beside(s) /\ s.data = ses.data /\ s.msg = ses.msg
  <2> DEFINE z == [ses.sock EXCEPT ![k] = "conn"]
             s == [ses EXCEPT !.sock[k] = "conn"]
  <2>1. z = [j \in Sock |-> z[j]]
    BY <1>1
  <2>2. /\ s = [f \in DOMAIN s |-> s[f]] /\ DOMAIN s = DOMAIN ses /\ s.sock = z
        /\ s.runq = ses.runq /\ s.wait = ses.wait /\ s.pc = ses.pc /\ s.res = ses.res
        /\ s.closed = ses.closed /\ s.stored = ses.stored /\ s.handled = ses.handled
        /\ s.data = ses.data /\ s.msg = ses.msg
    BY <1>1 DEF Parts
  <2> HIDE DEF s, z
  <2>3. Beside(s)
    BY <2>1, <2>2 DEF Beside
  <2> QED
    BY <2>2, <2>3 DEF s
<1>5. ASSUME NEW r, NEW m
      PROVE  LET s == [ses EXCEPT !.msg[r] = m]
             IN  Beside(s) /\ s.data = ses.data /\ s.msg = [ses.msg EXCEPT ![r] = m]
  BY <1>1 DEF Beside, Parts
<1> QED
  BY <1>2, <1>3, <1>4, <1>5

LEMMA HeadSettles ==
    ASSUME Inv, Order, Free, NEW ch \in Chan, ses.wait[ch] # <<>>, NEW s, Beside(s),
           NEW r \in Result, ses' = CompleteHead(s, ch, r)
    PROVE  Settles(ch, Head(ses.wait[ch]), r) /\ ses'.data = s.data /\ ses'.msg = s.msg
<1> DEFINE c == Head(ses.wait[ch])
           u == CompleteHead(s, ch, r)
<1>1. /\ Whole(ses) /\ c \in Coro /\ c \in Waiters[ch] /\ Waits(ses, ch, c)
      /\ ses.pc[c] # "idle" /\ ses.res[c] = "none" /\ Fit(ses, c)
      /\ Spot(ses.pc[c], c, ses.msg) = ch
      /\ ses.closed => ch \in {"detect", "retry", "resolve"}
  BY Waiting
<1>2. Whole(s)
  BY <1>1, WholeAside DEF Beside
<1>3. s.wait[ch] # <<>> /\ Head(s.wait[ch]) = c
  BY DEF Beside
<1>4. Alike(s, u) /\ u.pc = s.pc /\ \A x \in Coro : u.res[x] = IF x = c THEN r ELSE s.res[x]
  BY <1>2, <1>3, CompleteHeadDoes
<1> HIDE DEF u, c
<1>5. ses' = u
  BY DEF u
<1> QED
  BY <1>1, <1>4, <1>5 DEF Settles, Alike, Beside, c

\* Nobody has read or delivered anything.
LEMMA SettlesBytes ==
    ASSUME NEW ch, NEW c, NEW r, Settles(ch, c, r), ses'.data = ses.data,
           c \in Dir \cup Readers /\ r = "ok" => ses.pc[c] \notin {"dread", "pread", "dwrite", "wfwd"},
           \/ ses'.msg = ses.msg
           \/ ses.pc[c] # "wfwd" /\ \A x \in Readers : x # c => ses'.msg[x] = ses.msg[x]
    PROVE  /\ \A d \in Dir : SameBytes(ses, ses', d)
           /\ Creates(ses) => Creates(ses')
<1>1. \A d \in Dir : Carries(ses', d) <=> Carries(ses, d)
  BY Channels DEF Settles, Carries
<1>2. \A x \in Readers, d \in Dir : Done(ses', x, d) <=> Done(ses, x, d)
  <2> SUFFICES ASSUME NEW x \in Readers, NEW d \in Dir PROVE Done(ses', x, d) <=> Done(ses, x, d)
    OBVIOUS
  <2>1. x \in Coro
    BY Channels
  <2>2. CASE x = c
    BY <2>1, <2>2 DEF Settles, Done, Takes
  <2>3. CASE x # c
    BY <2>1, <2>3 DEF Settles, Done, Takes
  <2> QED
    BY <2>2, <2>3
<1>3. ses'.stored = ses.stored /\ ses'.pc = ses.pc
  BY DEF Settles
<1> QED
  BY <1>1, <1>2, <1>3 DEF SameBytes, Creates

\* A step that neither reads nor delivers, and leaves what is held where it is.
Stands ==
    /\ got' = got /\ deliv' = deliv
    /\ \A d \in Dir : sent'[d] \in Nat /\ sent[d] <= sent'[d]
    /\ StaysClosed
    /\ ses'.closed \/ /\ \A d \in Dir : SameBytes(ses, ses', d)
                      /\ Creates(ses) => Creates(ses')

LEMMA StandsRelays ==
    ASSUME Inv, Relaying, Stands
    PROVE  Relaying' /\ \A d \in Dir : Relayed(d)' = Relayed(d)
<1>1. \A d \in Dir : Relayed(d)' = Relayed(d) /\ got'[d] = got[d]
  BY DEF Stands, Relayed
<1>2. \A d \in Dir : got'[d] <= sent'[d] /\ Follows(Relayed(d)', 0)
  BY <1>1, HeldTypes DEF Relaying, Stands
<1>3. ASSUME ~ses'.closed
      PROVE  Creates(ses') /\ \A d \in Dir : Ordered(ses', got'[d], Len(Relayed(d)'), d)
  <2>1. ~ses.closed
    BY <1>3 DEF Stands, StaysClosed
  <2>2. /\ Creates(ses') /\ \A d \in Dir : SameBytes(ses, ses', d)
        /\ \A d \in Dir : Ordered(ses, got[d], Len(Relayed(d)), d)
    BY <1>3, <2>1 DEF Stands, Relaying
  <2>3. \A d \in Dir : Ordered(ses', got[d], Len(Relayed(d)), d)
    BY <2>2, OrderedOn
  <2> QED
    BY <1>1, <2>2, <2>3
<1> QED
  BY <1>1, <1>2, <1>3 DEF Relaying

LEMMA SettlesStands ==
    ASSUME Inv, NEW ch, NEW c, NEW r, Settles(ch, c, r), ses'.data = ses.data,
           c \in Dir \cup Readers /\ r = "ok" => ses.pc[c] \notin {"dread", "pread", "dwrite", "wfwd"},
           \/ ses'.msg = ses.msg
           \/ ses.pc[c] # "wfwd" /\ \A x \in Readers : x # c => ses'.msg[x] = ses.msg[x],
           got' = got, deliv' = deliv, sent' = sent
    PROVE  Stands
<1>1. StaysClosed
  BY DEF Settles, StaysClosed
<1> QED
  BY <1>1, SettlesBytes, HeldTypes DEF Stands

\* The session is left alone.
LEMMA AloneStands ==
    ASSUME Inv, ses' = ses, got' = got, deliv' = deliv,
           \A d \in Dir : sent'[d] \in Nat /\ sent[d] <= sent'[d]
    PROVE  Stands
<1>1. \A d \in Dir : SameBytes(ses, ses', d)
  BY DEF SameBytes
<1> QED
  BY <1>1 DEF Stands, StaysClosed

\* All steps but those of the handlers, and those that read or write data.
LEMMA OutsideStands ==
    ASSUME Inv, Order, Free,
           \/ ResolverDone \/ DialDone \/ LocalStep \/ TimerStep \/ ProcessStep
           \/ \E d \in Dir : PeerSends(d)
           \/ \E p \in Peers : PeerCloses(p)
    PROVE  Stands
<1> USE AllBeside
<1>1. Whole(ses) /\ DOMAIN ses = Parts
  BY SaneWhole DEF Inv, Whole
<1>2. CASE ResolverDone
  <2>1. PICK r \in {"ok", "err"} : ses.wait["resolve"] # <<>> /\ ses' = CompleteHead(ses, "resolve", r)
    BY <1>2 DEF ResolverDone
  <2>2. "resolve" \in Chan /\ r \in Result /\ Waiters["resolve"] = {"setup"}
    BY DEF Chan, Result, Waiters
  <2> DEFINE c == Head(ses.wait["resolve"])
  <2>3. Settles("resolve", c, r) /\ ses'.data = ses.data /\ ses'.msg = ses.msg
    BY <1>1, <2>1, <2>2, HeadSettles
  <2>4. c \notin Dir \cup Readers
    BY <2>2, <2>3, Apart DEF Settles
  <2> QED
    BY <1>2, <2>3, <2>4, SettlesStands DEF ResolverDone
<1>3. CASE DialDone
  <2>1. PICK r \in {"ok", "err"}, s \in {ses, [ses EXCEPT !.sock["server"] = "conn"]} :
            ses.wait["serverWr"] # <<>> /\ ses' = CompleteHead(s, "serverWr", r)
    BY <1>3 DEF DialDone
  <2>2. "serverWr" \in Chan /\ r \in Result /\ "server" \in Sock
    BY DEF Chan, Result, Sock
  <2> DEFINE c == Head(ses.wait["serverWr"])
  <2>3. Beside(s) /\ s.data = ses.data /\ s.msg = ses.msg
    BY <1>1, <2>2
  <2>4. Settles("serverWr", c, r) /\ ses'.data = ses.data /\ ses'.msg = ses.msg
    BY <2>1, <2>2, <2>3, HeadSettles
  <2>5. c \notin Dir \cup Readers
    BY <1>3, Apart DEF DialDone
  <2> QED
    BY <1>3, <2>4, <2>5, SettlesStands DEF DialDone
<1>4. CASE ProcessAccepts
  <2>1. PICK r \in {"ok", "err"}, s \in {ses, [ses EXCEPT !.sock["process"] = "conn"]} :
            ses.wait["processWr"] # <<>> /\ ses' = CompleteHead(s, "processWr", r)
    BY <1>4 DEF ProcessAccepts
  <2>2. "processWr" \in Chan /\ r \in Result /\ "process" \in Sock
    BY DEF Chan, Result, Sock
  <2> DEFINE c == Head(ses.wait["processWr"])
  <2>3. Beside(s) /\ s.data = ses.data /\ s.msg = ses.msg
    BY <1>1, <2>2
  <2>4. Settles("processWr", c, r) /\ ses'.data = ses.data /\ ses'.msg = ses.msg
    BY <2>1, <2>2, <2>3, HeadSettles
  <2>5. ses.pc[c] = "connect"
    BY <1>4 DEF ProcessAccepts
  <2> QED
    BY <1>4, <2>4, <2>5, SettlesStands DEF ProcessAccepts
<1>5. CASE ProcessWritten
  <2>1. PICK r \in {"ok", "err"} : ses.wait["processWr"] # <<>> /\ ses' = CompleteHead(ses, "processWr", r)
    BY <1>5 DEF ProcessWritten
  <2>2. "processWr" \in Chan /\ r \in Result /\ Waiters["processWr"] = Connectors \cup Dir
    BY DEF Chan, Result, Waiters
  <2> DEFINE c == Head(ses.wait["processWr"])
  <2>3. Settles("processWr", c, r) /\ ses'.data = ses.data /\ ses'.msg = ses.msg
    BY <1>1, <2>1, <2>2, HeadSettles
  <2>4. c \in Dir \cup Readers => ses.pc[c] \notin {"dread", "pread", "dwrite", "wfwd"}
    BY <2>2, <2>3, FilledSpot, Apart DEF Settles, Fit
  <2> QED
    BY <1>5, <2>3, <2>4, SettlesStands DEF ProcessWritten
<1>6. CASE ProcessRead
  <2> DEFINE r == Head(ses.wait["processRd"])
             m == Head(link.fromProc)
             s == IF m = NewData THEN ses ELSE [ses EXCEPT !.msg[r] = m]
  <2>1. \/ ses' = Undefined(ses)
        \/ ses' = CompleteHead(s, "processRd", "ok") /\ ses.pc[r] \in {"head", "body"}
        \/ ses' = CompleteHead(ses, "processRd", "err")
    BY <1>6 DEF ProcessRead
  <2>2. "processRd" \in Chan /\ "ok" \in Result /\ "err" \in Result /\ ses.wait["processRd"] # <<>>
        /\ got' = got /\ deliv' = deliv /\ sent' = sent
    BY <1>6 DEF ProcessRead, Chan, Result
  <2>3. CASE ses' = Undefined(ses)
    <3>1. ses'.closed
      BY <1>1, <2>3 DEF Undefined, Parts
    <3> QED
      BY <2>2, <3>1, HeldTypes DEF Stands, StaysClosed
  <2>4. CASE ses' = CompleteHead(s, "processRd", "ok") /\ ses.pc[r] \in {"head", "body"}
    <3>1. Beside(s) /\ s.data = ses.data /\ \A x \in Readers : x # r => s.msg[x] = ses.msg[x]
      <4>1. s = ses \/ s = [ses EXCEPT !.msg[r] = m]
        OBVIOUS
      <4>2. ses.msg \in [Readers -> ResponseHead]
        BY HeldTypes
      <4> HIDE DEF r, m, s
      <4>3. CASE s = ses
        BY <1>1, <4>3
      <4>4. CASE s = [ses EXCEPT !.msg[r] = m]
        <5>1. Beside(s) /\ s.data = ses.data /\ s.msg = [ses.msg EXCEPT ![r] = m]
          BY <1>1, <4>4
        <5> QED
          BY <4>2, <5>1
      <4> QED
        BY <4>1, <4>3, <4>4
    <3> HIDE DEF s
    <3>2. Settles("processRd", r, "ok") /\ ses'.data = s.data /\ ses'.msg = s.msg
      BY <2>2, <2>4, <3>1, HeadSettles
    <3> QED
      BY <2>2, <2>4, <3>1, <3>2, SettlesStands
  <2>5. CASE ses' = CompleteHead(ses, "processRd", "err")
    <3>1. Settles("processRd", r, "err") /\ ses'.data = ses.data /\ ses'.msg = ses.msg
      BY <1>1, <2>2, <2>5, HeadSettles
    <3> QED
      BY <2>2, <3>1, SettlesStands
  <2> QED
    BY <2>1, <2>3, <2>4, <2>5
<1>7. CASE TimerStep
  <2>1. PICK ch \in {"retry", "detect"} :
            /\ ses.wait[ch] # <<>> /\ ses' = CompleteHead(ses, ch, "ok")
            /\ got' = got /\ deliv' = deliv /\ sent' = sent
    BY <1>7 DEF TimerStep, RetryTimer, DetectTimer, FalseTimeout
  <2>2. ch \in Chan /\ "ok" \in Result /\ Waiters[ch] \subseteq Connectors \cup Detectors
    BY DEF Chan, Result, Waiters
  <2> DEFINE c == Head(ses.wait[ch])
  <2>3. Settles(ch, c, "ok") /\ ses'.data = ses.data /\ ses'.msg = ses.msg
    BY <1>1, <2>1, <2>2, HeadSettles
  <2>4. c \notin Dir \cup Readers
    BY <2>2, <2>3, Apart DEF Settles
  <2> QED
    BY <2>1, <2>3, <2>4, SettlesStands
<1>8. CASE ProcessStep
  <2>1. ses' = ses /\ got' = got /\ deliv' = deliv /\ sent' = sent
    BY <1>8 DEF ProcessStep, ProcessTakes, ProcessGoesOn, ProcessBeats, ProcessDies, ProcessHangs,
                ProcessStarts
  <2> QED
    BY <2>1, HeldTypes, AloneStands
<1>9. ASSUME NEW d \in Dir, PeerSends(d) PROVE Stands
  <2>1. /\ ses' = ses /\ got' = got /\ deliv' = deliv
        /\ sent' = [sent EXCEPT ![d] = @ + 1] /\ sent \in [Dir -> Nat]
    BY <1>9, HeldTypes DEF PeerSends
  <2>2. \A e \in Dir : sent'[e] \in Nat /\ sent[e] <= sent'[e]
    BY <2>1
  <2> QED
    BY <2>1, <2>2, AloneStands
<1>10. ASSUME NEW p \in Peers, PeerCloses(p) PROVE Stands
  <2>1. ses' = ses /\ got' = got /\ deliv' = deliv /\ sent' = sent
    BY <1>10 DEF PeerCloses
  <2> QED
    BY <2>1, HeldTypes, AloneStands
<1> QED
  BY <1>2, <1>3, <1>4, <1>5, <1>6, <1>7, <1>8, <1>9, <1>10 DEF LocalStep

\* A loop reads what has arrived.
LEMMA ReadRelays ==
    ASSUME Inv, Order, Free, Relaying, NEW d \in Dir, PeerRead(d)
    PROVE  Relaying' /\ deliv' = deliv /\ sent' = sent /\ ses'.closed = ses.closed
<1> DEFINE ch == Rd[From[d]]
           k == sent[d] - got[d]
           x == [i \in 1..k |-> got[d] + i]
           z == [ses EXCEPT !.data[d] = x]
<1>1. /\ ses.wait[ch] # <<>> /\ ch \in Chan /\ Waiters[ch] = {d}
      /\ ch \notin {"detect", "retry", "resolve", "processRd", "processWr"}
  BY DEF PeerRead, Dir, From, Rd, Chan, Waiters
<1>2. Whole(ses) /\ deliv' = deliv /\ sent' = sent
  BY SaneWhole DEF Inv, PeerRead
<1>3. {"ok", "eof", "err"} \subseteq Result
  BY DEF Result
<1>4. ASSUME NEW s, Beside(s), NEW r \in {"ok", "eof", "err"}, ses' = CompleteHead(s, ch, r)
      PROVE  Settles(ch, d, r) /\ ses'.data = s.data /\ ses'.msg = s.msg
  <2> HIDE DEF ch
  <2>1. Settles(ch, Head(ses.wait[ch]), r) /\ ses'.data = s.data /\ ses'.msg = s.msg
    BY <1>1, <1>3, <1>4, HeadSettles
  <2> QED
    BY <1>1, <2>1 DEF Settles
<1>5. CASE got' = got /\ \E r \in {"eof", "err"} : ses' = CompleteHead(ses, ch, r)
  <2>1. PICK r \in {"eof", "err"} : ses' = CompleteHead(ses, ch, r)
    BY <1>5
  <2>2. Beside(ses)
    BY <1>2, AllBeside
  <2>3. Settles(ch, d, r) /\ ses'.data = ses.data /\ ses'.msg = ses.msg
    BY <1>4, <2>1, <2>2
  <2>4. Stands
    BY <1>2, <1>5, <2>3, SettlesStands
  <2> QED
    BY <1>2, <2>3, <2>4, StandsRelays DEF Settles
<1>6. CASE got' = [got EXCEPT ![d] = sent[d]] /\ got[d] < sent[d] /\ ses' = CompleteHead(z, ch, "ok")
  <2>1. Beside(z) /\ z.data = [ses.data EXCEPT ![d] = x] /\ z.msg = ses.msg
    BY <1>2, AllBeside
  <2> HIDE DEF z
  <2>2. Settles(ch, d, "ok") /\ ses'.data = [ses.data EXCEPT ![d] = x] /\ ses'.msg = ses.msg
    BY <1>4, <1>6, <2>1
  <2>3. ~ses.closed /\ ses'.closed = ses.closed /\ ses'.pc = ses.pc /\ ses'.stored = ses.stored
        /\ ses.res[d] = "none" /\ \A c \in Coro : ses'.res[c] = IF c = d THEN "ok" ELSE ses.res[c]
    BY <1>1, <2>2 DEF Settles
  <2>4. ses.pc[d] \in {"dread", "pread"}
    <3>1. /\ Spot("dwrite", d, ses.msg) # ch /\ Spot("flush", d, ses.msg) # ch
          /\ Spot("pwrite", d, ses.msg) # ch /\ Spot("notify", d, ses.msg) # ch
      BY Spots, <1>1 DEF Dir, From, To, Rd, Wr
    <3>2. ses.pc[d] \in {"idle", "dread", "dwrite", "pread", "pwrite", "notify", "flush"}
      BY <2>2 DEF Settles, Fit
    <3> QED
      BY <2>2, <3>1, <3>2 DEF Settles
  <2>5. /\ got \in [Dir -> Nat] /\ sent \in [Dir -> Nat] /\ ses.data \in [Dir \cup Readers -> Seq(Nat)]
        /\ ses.stored \in [Dir -> Seq(Byte)]
    BY HeldTypes
  <2>6. k \in Nat /\ x \in Seq(Nat) /\ Len(x) = k /\ \A i \in 1..k : x[i] = got[d] + i
    <3>1. got[d] \in Nat /\ sent[d] \in Nat
      BY <2>5
    <3>2. k \in Nat
      BY <1>6, <3>1
    <3>3. \A i \in 1..k : got[d] + i \in Nat
      BY <3>1
    <3> HIDE DEF k
    <3> QED
      BY <3>2, <3>3
  <2>7. /\ ses'.data[d] = x /\ \A c \in Dir \cup Readers : c # d => ses'.data[c] = ses.data[c]
        /\ got'[d] = sent[d] /\ \A e \in Dir : e # d => got'[e] = got[e]
    BY <1>6, <2>2, <2>5
  <2>8. \A r \in Readers : r # d /\ r \in Coro
    BY Apart, Channels
  <2>9. \A r \in Readers, e \in Dir : Done(ses', r, e) <=> Done(ses, r, e)
    BY <2>2, <2>3, <2>8 DEF Done, Takes
  <2>10. Creates(ses') /\ \A r \in Readers : ses'.data[r] = ses.data[r]
    <3>1. Creates(ses)
      BY <2>3 DEF Relaying
    <3> QED
      BY <2>3, <2>7, <2>8, <3>1 DEF Creates
  <2>11. \A e \in Dir : Relayed(e)' = Relayed(e)
    BY <1>2 DEF Relayed
  <2>12. ASSUME NEW e \in Dir PROVE Ordered(ses', got'[e], Len(Relayed(e)), e)
    <3>1. Ordered(ses, got[e], Len(Relayed(e)), e)
      BY <2>3 DEF Relaying
    <3>2. CASE e # d
      <4>1. Carries(ses', e) <=> Carries(ses, e)
        BY <2>3, <3>2, Channels DEF Carries
      <4>2. SameBytes(ses, ses', e)
        BY <2>3, <2>7, <2>9, <2>10, <3>2, <4>1 DEF SameBytes
      <4> QED
        BY <2>7, <3>1, <3>2, <4>2, OrderedOn
    <3>3. CASE e = d
      <4> DEFINE q == ses.stored[d]
                 b == Past(ses, got[d], d)
                 n == Len(Relayed(d))
      <4>1. ~Carries(ses, d) /\ Carries(ses', d)
        BY <2>3, <2>4, Channels DEF Carries
      <4>2. Len(q) \in Nat /\ got[d] \in Nat /\ sent[d] \in Nat
        BY <2>5
      <4>3. b = got[d] - Len(q) /\ Past(ses', got'[d], d) = sent[d] - Len(q) - Len(x)
        <5> HIDE DEF x
        <5>1. Past(ses', got'[d], d) = got'[d] - Len(ses'.stored[d]) - Len(ses'.data[d])
          BY <4>1 DEF Past
        <5>2. b = got[d] - Len(q) - 0
          BY <4>1 DEF Past
        <5> HIDE DEF b
        <5>3. b = got[d] - Len(q)
          BY <4>2, <5>2
        <5> QED
          BY <2>3, <2>7, <5>1, <5>3
      <4> HIDE DEF x
      <4>4. Past(ses', got'[d], d) = b /\ b + Len(q) = got[d]
        BY <2>6, <4>2, <4>3
      <4>5. Follows(ses'.data[d], b + Len(q))
        BY <2>6, <2>7, <4>4 DEF Follows
      <4> HIDE DEF n, q, b
      <4>6. Ordered(ses, got[d], n, d) /\ ses'.stored[d] = q /\ b = Past(ses, got[d], d) /\ ses.stored[d] = q
        BY <2>3, <3>1, <3>3 DEF n, q, b
      <4>7. Ordered(ses', got'[d], n, d)
        BY <2>9, <2>10, <4>4, <4>5, <4>6 DEF Ordered
      <4> QED
        BY <3>3, <4>7 DEF n
    <3> QED
      BY <3>2, <3>3
  <2>13. \A e \in Dir : got'[e] <= sent'[e]
    <3> HIDE DEF x
    <3>1. \A e \in Dir : sent'[e] = sent[e] /\ sent[e] \in Nat /\ got[e] <= sent[e]
      BY <1>2, <2>5 DEF Relaying
    <3> QED
      BY <2>7, <3>1
  <2> QED
    BY <1>2, <2>3, <2>10, <2>11, <2>12, <2>13 DEF Relaying
<1>7. \/ got' = got /\ \E r \in {"eof", "err"} : ses' = CompleteHead(ses, ch, r)
      \/ got' = [got EXCEPT ![d] = sent[d]] /\ got[d] < sent[d] /\ ses' = CompleteHead(z, ch, "ok")
  BY DEF PeerRead
<1> QED
  BY <1>5, <1>6, <1>7

\* The next bytes of d come out.
Delivers(d) ==
    /\ ~ses.closed /\ sent' = sent /\ ses'.closed = ses.closed
    /\ \E m \in 1..(sent[d] - Len(Relayed(d))) :
           Relayed(d)' = Relayed(d) \o [i \in 1..m |-> Len(Relayed(d)) + i]

\* What is written follows what was written before.
LEMMA WritesOn ==
    ASSUME Inv, NEW d \in Dir, NEW x \in Seq(Nat), NEW n, n = Len(Relayed(d)),
           Follows(Relayed(d), 0), Follows(x, n), n + Len(x) <= sent[d],
           deliv' = [deliv EXCEPT ![d] = @ \o x]
    PROVE  /\ Relayed(d)' = Relayed(d) \o x /\ Len(Relayed(d)') = n + Len(x)
           /\ Follows(Relayed(d)', 0)
           /\ Relayed(d)' = Relayed(d) \/ \E m \in 1..(sent[d] - n) :
                  Relayed(d)' = Relayed(d) \o [i \in 1..m |-> n + i]
           /\ \A e \in Dir : e # d => Relayed(e)' = Relayed(e)
<1>1. deliv \in [Dir -> Seq(Nat)] /\ sent[d] \in Nat
  BY HeldTypes
<1>2. deliv'[d] = deliv[d] \o x /\ \A e \in Dir : e # d => deliv'[e] = deliv[e]
  BY <1>1
<1>3. \A e \in Dir : e # d => Relayed(e)' = Relayed(e)
  BY <1>2 DEF Relayed
<1> DEFINE q == Relayed(d)
           p == Relayed(d)'
<1>4. q \in Seq(Nat) /\ n \in Nat /\ n = Len(q) /\ Len(x) \in Nat
  BY HeldTypes
<1>5. p = q \o x
  <2>1. \A i \in 1..Len(x) : x[i] # 0
    BY <1>4 DEF Follows
  <2>2. OfPeers(deliv[d] \o x) = OfPeers(deliv[d]) \o x
    BY <1>1, <2>1, OfPeersMore
  <2> QED
    BY <1>2, <2>2 DEF Relayed
<1> HIDE DEF p, q
<1>6. Len(p) = n + Len(x) /\ \A i \in 1..Len(p) : p[i] = IF i <= n THEN q[i] ELSE x[i - n]
  <2>1. /\ Len(q \o x) = Len(q) + Len(x)
        /\ \A i \in 1..(Len(q) + Len(x)) : (q \o x)[i] = IF i <= Len(q) THEN q[i] ELSE x[i - Len(q)]
    BY <1>4
  <2> QED
    BY <1>4, <1>5, <2>1
<1>7. Follows(p, 0)
  <2> SUFFICES ASSUME NEW i \in 1..Len(p) PROVE p[i] = i
    BY DEF Follows
  <2>1. CASE i <= n
    <3>1. i \in 1..Len(q) /\ p[i] = q[i]
      BY <1>4, <1>6, <2>1
    <3>2. Follows(q, 0)
      BY DEF q
    <3> QED
      BY <3>1, <3>2 DEF Follows
  <2>2. CASE ~(i <= n)
    <3>1. i - n \in 1..Len(x) /\ p[i] = x[i - n]
      BY <1>4, <1>6, <2>2
    <3>2. x[i - n] = n + (i - n)
      BY <3>1 DEF Follows
    <3> QED
      BY <1>4, <3>1, <3>2
  <2> QED
    BY <2>1, <2>2
<1>8. p = q \/ \E m \in 1..(sent[d] - n) : p = q \o [i \in 1..m |-> n + i]
  <2>1. CASE Len(x) = 0
    <3>1. x = <<>>
      BY <2>1
    <3> QED
      BY <1>4, <1>5, <3>1
  <2>2. CASE Len(x) # 0
    <3> DEFINE m == Len(x)
               y == [i \in 1..m |-> n + i]
    <3>1. m \in 1..(sent[d] - n)
      BY <1>1, <1>4, <2>2
    <3>2. x = y
      <4>1. y \in Seq(Nat) /\ Len(y) = m /\ \A i \in 1..m : y[i] = n + i
        BY <1>4
      <4>2. \A i \in 1..m : x[i] = n + i
        BY DEF Follows
      <4> HIDE DEF y
      <4> QED
        BY <4>1, <4>2, SeqEqual
    <3> QED
      BY <1>5, <3>1, <3>2
  <2> QED
    BY <2>1, <2>2
<1> QED
  BY <1>3, <1>5, <1>6, <1>7, <1>8 DEF p, q

\* A write to a peer is done.
LEMMA WrittenRelays ==
    ASSUME Inv, Order, Free, Relaying, NEW d \in Dir, PeerWritten(d)
    PROVE  /\ Relaying' /\ sent' = sent /\ ses'.closed = ses.closed
           /\ Relayed(d)' = Relayed(d) \/ Delivers(d)
           /\ \A e \in Dir : e # d => Relayed(e)' = Relayed(e)
<1> DEFINE ch == Wr[To[d]]
           c == Head(ses.wait[ch])
           x == ses.data[c]
           n == Len(Relayed(d))
           b == Past(ses, got[d], d)
<1>1. /\ ses.wait[ch] # <<>> /\ ch \in Chan /\ Waiters[ch] \subseteq {"setup"} \cup Dir \cup Readers
      /\ ch \notin {"detect", "retry", "resolve", "processRd", "processWr"} /\ c # "setup"
      /\ "ok" \in Result /\ "err" \in Result
  <2>1. ses.wait[ch] # <<>> /\ c # "setup"
    BY DEF PeerWritten
  <2> HIDE DEF c
  <2>2. ch \in {"clientWr", "serverWr"}
    BY DEF Dir, To, Wr
  <2> HIDE DEF ch
  <2>3. Waiters[ch] \subseteq {"setup"} \cup Dir \cup Readers
    BY <2>2 DEF Waiters
  <2> QED
    BY <2>1, <2>2, <2>3 DEF Chan, Result
<1>2. Whole(ses) /\ got' = got /\ sent' = sent /\ Beside(ses)
  BY SaneWhole, AllBeside DEF Inv, PeerWritten
<1> HIDE DEF ch
<1>3. \/ deliv' = deliv /\ ses' = CompleteHead(ses, ch, "err")
      \/ deliv' = [deliv EXCEPT ![d] = @ \o x] /\ ses' = CompleteHead(ses, ch, "ok")
  BY DEF PeerWritten, ch
<1>4. ASSUME NEW r \in {"ok", "err"}, ses' = CompleteHead(ses, ch, r)
      PROVE  /\ Settles(ch, c, r) /\ ses'.data = ses.data /\ ses'.msg = ses.msg
             /\ ~ses.closed /\ ses'.closed = ses.closed /\ (c \in Dir \/ c \in Readers) /\ c \in Coro
             /\ Waits(ses, ch, c) /\ ses.res[c] = "none"
             /\ ses'.pc = ses.pc /\ ses'.stored = ses.stored
             /\ \A y \in Coro : ses'.res[y] = IF y = c THEN r ELSE ses.res[y]
  <2>1. Settles(ch, Head(ses.wait[ch]), r) /\ ses'.data = ses.data /\ ses'.msg = ses.msg
    BY <1>1, <1>2, <1>4, HeadSettles
  <2> QED
    BY <1>1, <2>1 DEF Settles
<1> HIDE DEF c
<1>5. CASE deliv' = deliv /\ ses' = CompleteHead(ses, ch, "err")
  <2>1. Stands
    BY <1>2, <1>4, <1>5, SettlesStands
  <2> QED
    BY <1>2, <1>4, <1>5, <2>1, StandsRelays
<1>6. CASE deliv' = [deliv EXCEPT ![d] = @ \o x] /\ ses' = CompleteHead(ses, ch, "ok")
  <2>1. /\ Creates(ses) /\ \A e \in Dir : Ordered(ses, got[e], Len(Relayed(e)), e)
        /\ \A e \in Dir : got[e] <= sent[e] /\ Follows(Relayed(e), 0)
    BY <1>4, <1>6 DEF Relaying
  <2>2. /\ got[d] \in Nat /\ sent[d] \in Nat /\ deliv \in [Dir -> Seq(Nat)]
        /\ ses.data \in [Dir \cup Readers -> Seq(Nat)] /\ Len(ses.stored[d]) \in Nat
        /\ n \in Nat /\ Len(ses.data[d]) \in Nat
    BY HeldTypes
  <2>3. x \in Seq(Nat) /\ Len(x) \in Nat
    BY <1>4, <1>6, <2>2
  <2>4. b \in Nat /\ b = got[d] - Len(ses.stored[d]) - (IF Carries(ses, d) THEN Len(ses.data[d]) ELSE 0)
    BY <2>1 DEF Ordered, Past
  <2>5. Creates(ses')
    BY <1>4, <1>6, <2>1 DEF Creates
  <2>6. \A y \in Coro : y # c => ses'.res[y] = ses.res[y]
    BY <1>4, <1>6
  \* The step takes the bytes that follow, unless the process created them.
  <2>7. ASSUME n = b, Follows(x, n), n + Len(x) <= got[d],
               Ordered(ses', got[d], n + Len(x), d),
               \A e \in Dir : e # d => SameBytes(ses, ses', e)
        PROVE  /\ Relaying' /\ sent' = sent /\ ses'.closed = ses.closed
               /\ Relayed(d)' = Relayed(d) \/ Delivers(d)
               /\ \A e \in Dir : e # d => Relayed(e)' = Relayed(e)
    <3>1. Follows(Relayed(d), 0) /\ n + Len(x) <= sent[d]
      BY <2>1, <2>2, <2>3, <2>7
    <3> HIDE DEF x, n, b
    <3>2. /\ Len(Relayed(d)') = n + Len(x) /\ Follows(Relayed(d)', 0)
          /\ Relayed(d)' = Relayed(d) \/ \E m \in 1..(sent[d] - n) :
                 Relayed(d)' = Relayed(d) \o [i \in 1..m |-> n + i]
          /\ \A e \in Dir : e # d => Relayed(e)' = Relayed(e)
      <4>1. n = Len(Relayed(d))
        BY DEF n
      <4> QED
        BY <1>6, <2>3, <2>7, <3>1, <4>1, WritesOn
    <3>3. Relayed(d)' = Relayed(d) \/ Delivers(d)
      BY <1>2, <1>4, <1>6, <3>2 DEF Delivers, n
    <3>4. \A e \in Dir : Follows(Relayed(e)', 0) /\ Ordered(ses', got[e], Len(Relayed(e)'), e)
      <4> SUFFICES ASSUME NEW e \in Dir
                   PROVE  Follows(Relayed(e)', 0) /\ Ordered(ses', got[e], Len(Relayed(e)'), e)
        OBVIOUS
      <4>1. CASE e = d
        BY <2>7, <3>2, <4>1
      <4>2. CASE e # d
        <5>1. Ordered(ses, got[e], Len(Relayed(e)), e) /\ SameBytes(ses, ses', e)
          BY <2>1, <2>7, <4>2
        <5>2. Ordered(ses', got[e], Len(Relayed(e)), e)
          BY <5>1, OrderedOn
        <5> QED
          BY <2>1, <3>2, <4>2, <5>2
      <4> QED
        BY <4>1, <4>2
    <3>5. Relaying'
      BY <1>2, <2>1, <2>5, <3>4 DEF Relaying
    <3> QED
      BY <1>2, <1>4, <1>6, <3>2, <3>3, <3>5
  <2> HIDE DEF n
  <2>8. CASE c \in Dir
    <3>1. c = d /\ ses.pc[d] = "dwrite"
      <4>1. c = d /\ ses.pc[d] \in {"dwrite", "flush"}
        BY <1>4, <1>6, <2>8, LoopAtPeer DEF ch
      <4>2. ses.pc[d] # "flush"
        BY <1>4, <1>6, <4>1 DEF Settles, Fit
      <4> QED
        BY <4>1, <4>2
    <3>2. ~Downstream(ses, link, d)
      BY <1>4, <1>6, <3>1 DEF Free, Fed, Diverted
    <3>3. ses.stored[d] = <<>> /\ \A r \in Readers : ~Has(ses, r, d)
      BY <3>2 DEF Downstream
    <3>4. \A r \in Readers : r # c /\ r \in Coro
      BY <2>8, Apart, Channels
    <3>5. \A r \in Readers, e \in Dir : Done(ses', r, e) <=> Done(ses, r, e)
      BY <1>4, <1>6, <2>6, <3>4 DEF Done, Takes
    <3>6. \A r \in Readers : ~Done(ses, r, d)
      BY <3>3 DEF Done, Takes, Has
    <3>7. Carries(ses, d) /\ ~Carries(ses', d)
      BY <1>4, <1>6, <3>1 DEF Carries
    <3>8. Len(ses.stored[d]) = 0
      BY <3>3
    <3>9. n = b /\ b = got[d] - Len(x) /\ Follows(x, b)
      <4>1. n = b /\ Follows(x, b + Len(ses.stored[d]))
        BY <2>1, <3>1, <3>6, <3>7 DEF Ordered, n
      <4>2. b = got[d] - Len(ses.stored[d]) - Len(x)
        BY <2>4, <3>1, <3>7
      <4> HIDE DEF b, x
      <4> QED
        BY <2>2, <2>3, <2>4, <3>8, <4>1, <4>2
    <3>10. Ordered(ses', got[d], n + Len(x), d)
      <4>1. Past(ses', got[d], d) = got[d] - 0 - 0
        BY <1>4, <1>6, <3>7, <3>8 DEF Past
      <4>2. Past(ses', got[d], d) = n + Len(x) /\ n + Len(x) \in Nat
        <5> HIDE DEF b, x
        <5> QED
          BY <2>2, <2>3, <3>9, <4>1
      <4>3. ses'.stored[d] = <<>>
        BY <1>4, <1>6, <3>3
      <4> DEFINE v == n + Len(x)
      <4>4. v \in Nat /\ Past(ses', got[d], d) = v
        BY <4>2
      <4> HIDE DEF v
      <4>5. Ordered(ses', got[d], v, d)
        BY <3>5, <3>6, <3>7, <3>8, <4>3, <4>4 DEF Ordered
      <4> QED
        BY <4>5 DEF v
    <3>11. \A e \in Dir : e # d => SameBytes(ses, ses', e)
      <4>1. \A e \in Dir : e # d => (Carries(ses', e) <=> Carries(ses, e))
        BY <1>4, <1>6, <2>6, <3>1, Channels DEF Carries
      <4> QED
        BY <1>4, <1>6, <3>5, <4>1 DEF SameBytes
    <3>12. n + Len(x) <= got[d]
      <4> HIDE DEF b, x
      <4> QED
        BY <2>2, <2>3, <3>9
    <3> QED
      BY <2>7, <3>9, <3>10, <3>11, <3>12
  <2>9. CASE c \in Readers
    <3>1. Has(ses, c, d) /\ ses.pc[c] \in {"wnew", "wfwd"}
      BY <1>4, <1>6, <2>9, ReaderAtPeer DEF ch
    <3>2. CASE ses.pc[c] = "wnew"
      <4>1. x = <<0>>
        BY <2>1, <2>9, <3>2 DEF Creates
      <4>2. \A e \in Dir : SameBytes(ses, ses', e)
        BY <1>4, <1>6, <3>2, SettlesBytes
      <4>3. \A e \in Dir : Relayed(e)' = Relayed(e)
        <5>1. deliv'[d] = deliv[d] \o <<0>> /\ \A e \in Dir : e # d => deliv'[e] = deliv[e]
          BY <1>6, <2>2, <4>1
        <5>2. OfPeers(deliv[d] \o <<0>>) = OfPeers(deliv[d])
          BY <2>2, OfPeersNext
        <5> QED
          BY <5>1, <5>2 DEF Relayed
      <4>4. \A e \in Dir : Ordered(ses', got[e], Len(Relayed(e)), e)
        BY <2>1, <4>2, OrderedOn
      <4>5. Relaying'
        BY <1>2, <2>1, <2>5, <4>3, <4>4 DEF Relaying
      <4> QED
        BY <1>2, <1>4, <1>6, <4>3, <4>5
    <3>3. CASE ses.pc[c] = "wfwd"
      <4>1. Takes(ses, c, d)
        BY <3>1, <3>3 DEF Has, Takes
      <4>2. /\ \A r \in Readers, e \in Dir : (r # c \/ e # d) => ~Done(ses, r, e)
            /\ Len(x) <= Len(ses.stored[d]) /\ \A i \in 1..Len(x) : x[i] = ses.stored[d][i].b
        BY <2>9, <4>1, OneTakes
      <4>3. ~Done(ses, c, d)
        BY <1>4, <1>6 DEF Done
      <4>4. \A r \in Readers : ~Done(ses, r, d)
        BY <4>2, <4>3
      <4>5. n = b
        BY <2>1, <4>4 DEF Ordered, n
      <4>6. Follows(x, b)
        <5>1. \A i \in 1..Len(ses.stored[d]) : ses.stored[d][i].b = b + i
          BY <2>1 DEF Ordered
        <5> HIDE DEF x, b
        <5>2. \A i \in 1..Len(x) : i \in 1..Len(ses.stored[d])
          BY <2>2, <2>3, <4>2
        <5> QED
          BY <4>2, <5>1, <5>2 DEF Follows
      <4>7. n + Len(x) <= got[d]
        <5> DEFINE k == IF Carries(ses, d) THEN Len(ses.data[d]) ELSE 0
                   g == got[d]
                   s == Len(ses.stored[d])
                   y == Len(x)
        <5>1. b \in Nat /\ k \in Nat /\ g \in Nat /\ s \in Nat /\ b = g - s - k
          BY <2>2, <2>4
        <5>2. y \in Nat /\ y <= s
          BY <2>3, <4>2
        <5> HIDE DEF x, b, k, g, s, y
        <5>3. n + y <= g
          BY <4>5, <5>1, <5>2
        <5> QED
          BY <5>3 DEF g, y
      <4>8. \A r \in Readers, e \in Dir : Done(ses', r, e) => r = c /\ e = d
        <5> SUFFICES ASSUME NEW r \in Readers, NEW e \in Dir, Done(ses', r, e) PROVE r = c /\ e = d
          OBVIOUS
        <5>1. r \in Coro /\ Takes(ses, r, e)
          BY <1>4, <1>6, Channels DEF Done, Takes
        <5>2. r # c => Done(ses, r, e)
          BY <2>6, <5>1 DEF Done
        <5>3. r = c
          BY <4>2, <5>2
        <5> QED
          BY <4>1, <5>1, <5>3 DEF Takes
      <4>9. Done(ses', c, d)
        BY <1>4, <1>6, <4>1 DEF Done, Takes
      <4>10. \A e \in Dir : Carries(ses', e) <=> Carries(ses, e)
        <5>1. \A e \in Dir : e # c /\ e \in Coro
          BY <2>9, Apart, Channels
        <5> QED
          BY <1>4, <1>6, <2>6, <5>1 DEF Carries
      <4>11. Past(ses', got[d], d) = b
        BY <1>4, <1>6, <4>10 DEF Past
      <4>12. Ordered(ses', got[d], n + Len(x), d)
        <5> DEFINE v == n + Len(x)
        <5>1. v = b + Len(ses'.data[c])
          BY <1>4, <1>6, <4>5
        <5>2. /\ \A i \in 1..Len(ses'.stored[d]) : ses'.stored[d][i].b = b + i
              /\ Carries(ses', d) => Follows(ses'.data[d], b + Len(ses'.stored[d]))
          BY <1>4, <1>6, <2>1, <4>10 DEF Ordered
        <5> HIDE DEF v, b, x
        <5>3. Ordered(ses', got[d], v, d)
          BY <2>4, <2>9, <4>8, <4>9, <4>11, <5>1, <5>2 DEF Ordered
        <5> QED
          BY <5>3 DEF v
      <4>13. \A e \in Dir : e # d => SameBytes(ses, ses', e)
        BY <1>4, <1>6, <4>2, <4>8, <4>10 DEF SameBytes
      <4> QED
        BY <2>7, <4>5, <4>6, <4>7, <4>12, <4>13
    <3> QED
      BY <3>1, <3>2, <3>3
  <2> QED
    BY <1>4, <1>6, <2>8, <2>9
<1> QED
  BY <1>3, <1>5, <1>6

-----------------------------------------------------------------------------
(***************************************************************************)
(* The two relays.                                                         *)
(***************************************************************************)
\* One step of the relay of direction d.
RelaysOn(d) ==
    \/ sent'[d] = sent[d] + 1 /\ Relayed(d)' = Relayed(d) /\ ses'.closed = ses.closed
    \/ Delivers(d)
    \/ sent'[d] = sent[d] /\ Relayed(d)' = Relayed(d) /\ StaysClosed

LEMMA InitRelaying == Init => Relaying
<1> SUFFICES ASSUME Init PROVE Relaying
  OBVIOUS
<1>1. /\ ses.stored = [d \in Dir |-> <<>>] /\ ses.res = [c \in Coro |-> "none"]
      /\ ses.pc = [c \in Coro |-> IF c = "setup" THEN "resolve" ELSE "idle"]
      /\ got = [d \in Dir |-> 0] /\ sent = [d \in Dir |-> 0] /\ deliv = [d \in Dir |-> <<>>]
  BY DEF Init, NewSession
<1>2. \A c \in Dir \cup Readers : c \in Coro /\ ses.pc[c] = "idle"
  BY <1>1, Apart, Channels
<1>3. \A d \in Dir : ~Carries(ses, d) /\ \A r \in Readers : ~Done(ses, r, d)
  BY <1>2 DEF Carries, Done, Takes
<1>4. \A d \in Dir : Relayed(d) = <<>> /\ got[d] = 0 /\ sent[d] = 0 /\ ses.stored[d] = <<>>
  BY <1>1, OfPeersEmpty DEF Relayed
<1>5. \A d \in Dir : Ordered(ses, got[d], Len(Relayed(d)), d)
  BY <1>3, <1>4 DEF Ordered, Past
<1>6. Creates(ses)
  BY <1>2 DEF Creates
<1>7. \A d \in Dir : got[d] <= sent[d] /\ Follows(Relayed(d), 0)
  BY <1>4 DEF Follows
<1> QED
  BY <1>5, <1>6, <1>7 DEF Relaying

LEMMA NextRelaying ==
    ASSUME Inv, Order, Free, Relaying, [Next]_vars
    PROVE  Relaying' /\ \A d \in Dir : RelaysOn(d)
<1>1. StaysClosed /\ ses.closed \in BOOLEAN /\ sent \in [Dir -> Nat]
  BY NextKeepsInv, HeldTypes DEF Inv, Sane, Formed, SessionState
<1>2. CASE Handler
  <2>1. Relaying' /\ UNCHANGED outside
    BY <1>1, <1>2, HandlerRelays
  <2> QED
    BY <1>1, <2>1 DEF outside, RelaysOn, Relayed
<1>3. ASSUME NEW d \in Dir, PeerRead(d) PROVE Relaying' /\ \A e \in Dir : RelaysOn(e)
  <2>1. Relaying' /\ deliv' = deliv /\ sent' = sent
    BY <1>3, ReadRelays
  <2> QED
    BY <1>1, <2>1 DEF RelaysOn, Relayed
<1>4. ASSUME NEW d \in Dir, PeerWritten(d) PROVE Relaying' /\ \A e \in Dir : RelaysOn(e)
  <2>1. /\ Relaying' /\ sent' = sent
        /\ Relayed(d)' = Relayed(d) \/ Delivers(d)
        /\ \A e \in Dir : e # d => Relayed(e)' = Relayed(e)
    BY <1>4, WrittenRelays
  <2> QED
    BY <1>1, <2>1 DEF RelaysOn
<1>5. ASSUME Stands, \A d \in Dir : sent'[d] = sent[d] + 1 => ses'.closed = ses.closed,
             \A d \in Dir : sent'[d] = sent[d] \/ sent'[d] = sent[d] + 1
      PROVE  Relaying' /\ \A d \in Dir : RelaysOn(d)
  <2>1. Relaying' /\ \A d \in Dir : Relayed(d)' = Relayed(d)
    BY <1>5, StandsRelays
  <2> QED
    BY <1>1, <1>5, <2>1 DEF RelaysOn
<1>6. CASE ResolverDone \/ DialDone \/ LocalStep \/ TimerStep \/ ProcessStep \/ \E p \in Peers : PeerCloses(p)
  <2>1. Stands
    BY <1>6, OutsideStands
  <2>2. sent' = sent
    BY <1>6 DEF ResolverDone, DialDone, LocalStep, ProcessAccepts, ProcessWritten, ProcessRead,
                TimerStep, RetryTimer, DetectTimer, FalseTimeout, ProcessStep, ProcessTakes,
                ProcessGoesOn, ProcessBeats, ProcessDies, ProcessHangs, ProcessStarts, PeerCloses
  <2>3. \A d \in Dir : sent'[d] = sent[d] /\ sent[d] # sent[d] + 1
    BY <1>1, <2>2
  <2> QED
    BY <1>5, <2>1, <2>3
<1>7. ASSUME NEW d \in Dir, PeerSends(d) PROVE Relaying' /\ \A e \in Dir : RelaysOn(e)
  <2>1. Stands
    BY <1>7, OutsideStands
  <2>2. sent' = [sent EXCEPT ![d] = @ + 1] /\ ses' = ses
    BY <1>7 DEF PeerSends
  <2>3. \A e \in Dir : sent'[e] = sent[e] \/ sent'[e] = sent[e] + 1
    BY <1>1, <2>2
  <2> QED
    BY <1>5, <2>1, <2>2, <2>3
<1>8. CASE UNCHANGED vars
  <2>1. ses' = ses /\ got' = got /\ deliv' = deliv /\ sent' = sent
    BY <1>8 DEF vars
  <2>2. \A d \in Dir : sent[d] \in Nat /\ sent'[d] \in Nat /\ sent[d] <= sent'[d]
    BY <1>1, <2>1
  <2>3. Stands
    BY <2>1, <2>2, AloneStands
  <2> QED
    BY <1>5, <2>1, <2>3
<1> QED
  BY <1>2, <1>3, <1>4, <1>6, <1>7, <1>8 DEF Next, Terminated, PeerStep

\* The relay of a direction keeps to its order for good.
LEMMA AlwaysRelaying ==
    ASSUME MaxFaults = 0
    PROVE  Spec => [](Inv /\ Order /\ Free /\ Relaying)
<1>1. Init => Relaying
  BY InitRelaying
<1>2. Inv /\ Order /\ Free /\ Relaying /\ [Next]_vars => Relaying'
  BY NextRelaying
<1> QED
  BY <1>1, <1>2, AlwaysFree, PTL DEF Spec

\* What a session without faults writes to the server are the bytes that the
\* client has sent, in their order, none twice and none left out, whether they
\* pass by the process or through it (session.hpp 304-347, 490-517, 559-584).
THEOREM RequestsInOrder ==
    ASSUME MaxFaults = 0
    PROVE  Spec => Requests!Safe
<1>1. Init => Requests!Init
  BY OfPeersEmpty DEF Init, NewSession, Requests!Init, Relayed, Dir
<1>2. ASSUME Inv, Inv', Order, Free, Relaying, [Next]_vars
      PROVE  [Requests!Next]_(Requests!vars)
  <2>1. RelaysOn("req")
    BY <1>2, NextRelaying DEF Dir
  <2>2. ses.closed \in BOOLEAN /\ ses'.closed \in BOOLEAN
    BY <1>2 DEF Inv, Sane, Formed, SessionState
  <2> QED
    BY <2>1, <2>2 DEF RelaysOn, Delivers, StaysClosed, Requests!Next, Requests!Send,
                      Requests!Deliver, Requests!Close, Requests!vars
<1> QED
  BY <1>1, <1>2, AlwaysRelaying, PTL DEF Spec, Requests!Safe

\* And what it writes to the client are the bytes that the server has sent.
THEOREM ResponsesInOrder ==
    ASSUME MaxFaults = 0
    PROVE  Spec => Responses!Safe
<1>1. Init => Responses!Init
  BY OfPeersEmpty DEF Init, NewSession, Responses!Init, Relayed, Dir
<1>2. ASSUME Inv, Inv', Order, Free, Relaying, [Next]_vars
      PROVE  [Responses!Next]_(Responses!vars)
  <2>1. RelaysOn("res")
    BY <1>2, NextRelaying DEF Dir
  <2>2. ses.closed \in BOOLEAN /\ ses'.closed \in BOOLEAN
    BY <1>2 DEF Inv, Sane, Formed, SessionState
  <2> QED
    BY <2>1, <2>2 DEF RelaysOn, Delivers, StaysClosed, Responses!Next, Responses!Send,
                      Responses!Deliver, Responses!Close, Responses!vars
<1> QED
  BY <1>1, <1>2, AlwaysRelaying, PTL DEF Spec, Responses!Safe
-----------------------------------------------------------------------------
(***************************************************************************)
(* What the process has seen of a direction, and what it has acknowledged. *)
(***************************************************************************)
\* What the loop of d is writing to the process, and what it has written there
\* with the message m.
Sending(st, d) == IF Sends(st, d) THEN st.data[d] ELSE <<>>

Part(m, d) == IF m.kind = d THEN m.bytes ELSE <<>>

\* Byte p of the stream is the last of a packet, or is no longer in the deque
\* q, which follows byte b.
Bound(b, q, p) == p <= b + Len(q) /\ (p > b => q[p - b].end)

\* The connection has begun after byte s of the stream, so s and what was
\* handled since are the bytes that are past, but for those that a reader has
\* taken for an answer.
Based(st, b, d, s) ==
    /\ s <= b
    /\ s + st.handled[d] = b \/ \E r \in Readers : Takes(st, r, d)
    /\ \A r \in Readers : Takes(st, r, d) =>
           s + st.handled[d] = b + Len(st.data[r]) /\ st.msg[r].act = "pass"

\* What the process has seen, and what is on its way there, is the stream from
\* s on, cut between packets: message i follows byte at[i].
OnTheWay(st, l, b, d, s, at) ==
    LET n == Len(l.toProc)
        q == st.stored[d]
        w == Sending(st, d)
    IN  /\ Follows(l.seen[d], s) /\ l.acked[d] = Len(l.seen[d])
        /\ at[1] = s + Len(l.seen[d])
        /\ at[n + 1] + Len(w) = b + Len(q) /\ Follows(w, at[n + 1])
        /\ \A i \in 1..(n + 1) : Bound(b, q, at[i])
        /\ \A i \in 1..n : /\ at[i + 1] = at[i] + Len(Part(l.toProc[i], d))
                           /\ Follows(Part(l.toProc[i], d), at[i])

\* An answer that blocks is among the first answers on their way back.
Blocked(st, f, d, i) ==
    \/ \E j \in 1..(i - 1) : f[j].type = d /\ f[j].act = "block"
    \/ \E r \in Readers : Has(st, r, d) /\ st.msg[r].act = "block"

\* The process has acknowledged t bytes after s.
Covers(v, s, t) == \A i \in 1..t : s + i \in v

\* Up to an answer that blocks, what the answers say is handled was vetted,
\* and ends with a packet.
Answers(st, l, b, v, d, s) ==
    LET f == l.fromProc
        q == st.stored[d]
    IN  /\ \A i \in 1..Len(f) : f[i].type = d =>
               /\ Bound(b, q, s + f[i].total)
               /\ f[i].act = "pass" /\ ~Blocked(st, f, d, i) => Covers(v, s, f[i].total)
        /\ \A r \in Readers : Has(st, r, d) =>
               /\ Bound(b, q, s + st.msg[r].total)
               /\ st.msg[r].act = "pass" => Covers(v, s, st.msg[r].total)
        /\ ~Blocked(st, f, d, Len(f) + 1) => Covers(v, s, l.acked[d])

Journey(st, l, b, v, d, s, at) ==
    Based(st, b, d, s) /\ OnTheWay(st, l, b, d, s, at) /\ Answers(st, l, b, v, d, s)

Travels(st, l, b, v, d) ==
    \E s \in Nat, at \in [Nat -> Nat] : Journey(st, l, b, v, d, s, at)

\* In the process mode, until an answer ends inside a packet.
Vetting ==
    \A d \in Dir : ~ses.closed /\ ~link.split[d] /\ ses.pc[d] \in {"pread", "pwrite"} =>
        Travels(ses, link, Past(ses, got[d], d), vetted[d], d)

LinkTyped(l) ==
    /\ l.toProc \in Seq(Message) /\ l.fromProc \in Seq(ResponseHead \cup {NewData})
    /\ l.seen \in [Dir -> Seq(Nat)] /\ l.acked \in [Dir -> Nat] /\ l.split \in [Dir -> BOOLEAN]

LEMMA LinkTypes == ASSUME Inv PROVE LinkTyped(link) /\ vetted \in [Dir -> SUBSET Nat]
<1>1. link \in LinkState /\ vetted \in [Dir -> SUBSET Nat]
  BY DEF Inv, Surroundings
<1> QED
  BY <1>1 DEF LinkState, LinkTyped

\* A loop that is not in the process mode has nothing under way.
LEMMA FreshTravels ==
    ASSUME NEW st, NEW l, NEW d \in Dir, NEW b \in Nat, NEW v, Diverted(st, l), Totals(st, l),
           ~st.closed, st.pc[d] \notin {"pread", "pwrite"},
           LinkTyped(l), st.stored[d] \in Seq(Byte), st.handled[d] \in Nat
    PROVE  Travels(st, l, b, v, d)
<1>1. ~Downstream(st, l, d)
  BY DEF Diverted
<1>2. /\ st.stored[d] = <<>> /\ l.seen[d] = <<>>
      /\ \A i \in 1..Len(l.toProc) : Part(l.toProc[i], d) = <<>>
      /\ \A i \in 1..Len(l.fromProc) : l.fromProc[i].type # d
      /\ \A r \in Readers : ~Has(st, r, d) /\ ~Takes(st, r, d)
  BY <1>1 DEF Downstream, Part, Has, Takes
<1>3. l.acked[d] = 0 /\ st.handled[d] = 0
  BY <1>2 DEF Totals, LinkTyped
<1>4. Sending(st, d) = <<>>
  BY DEF Sending, Sends
<1> DEFINE at == [i \in Nat |-> b]
<1>5. Based(st, b, d, b)
  BY <1>2, <1>3 DEF Based
<1>6. Len(l.toProc) \in Nat
  BY DEF LinkTyped
<1>7. at[1] = b /\ \A i \in 1..(Len(l.toProc) + 1) : at[i] = b /\ at[i + 1] = b
  BY <1>6
<1>8. OnTheWay(st, l, b, d, b, at)
  <2> HIDE DEF at
  <2>1. /\ Follows(l.seen[d], b) /\ l.acked[d] = Len(l.seen[d]) /\ at[1] = b + Len(l.seen[d])
        /\ at[Len(l.toProc) + 1] = b
    BY <1>2, <1>3, <1>6, <1>7 DEF Follows
  <2>2. Bound(b, st.stored[d], b)
    BY <1>2 DEF Bound
  <2>3. b + Len(Sending(st, d)) = b + Len(st.stored[d]) /\ Follows(Sending(st, d), b)
    BY <1>2, <1>4 DEF Follows
  <2>4. \A i \in 1..Len(l.toProc) : /\ at[i + 1] = at[i] + Len(Part(l.toProc[i], d))
                                    /\ Follows(Part(l.toProc[i], d), at[i])
    BY <1>2, <1>6, <1>7 DEF Follows
  <2> QED
    BY <1>7, <2>1, <2>2, <2>3, <2>4 DEF OnTheWay
<1>9. Answers(st, l, b, v, d, b)
  BY <1>2, <1>3 DEF Answers, Covers
<1>10. at \in [Nat -> Nat]
  OBVIOUS
<1> HIDE DEF at
<1> QED
  BY <1>5, <1>8, <1>9, <1>10 DEF Travels, Journey

\* The session holds the same of d, and reads and writes the same of it.
Level(st, u, d) ==
    /\ u.stored[d] = st.stored[d] /\ u.handled[d] = st.handled[d]
    /\ Sending(u, d) = Sending(st, d)
    /\ \A r \in Readers : /\ Has(u, r, d) <=> Has(st, r, d)
                          /\ Has(st, r, d) => u.msg[r] = st.msg[r]
                          /\ Takes(u, r, d) <=> Takes(st, r, d)
                          /\ Takes(st, r, d) => u.data[r] = st.data[r]

LEMMA LevelTravels ==
    ASSUME NEW st, NEW u, NEW l, NEW b, NEW v, NEW d, Level(st, u, d), Travels(st, l, b, v, d)
    PROVE  Travels(u, l, b, v, d)
<1>1. PICK s \in Nat, at \in [Nat -> Nat] : Journey(st, l, b, v, d, s, at)
  BY DEF Travels
<1>2. \A r \in Readers : Takes(st, r, d) => Has(st, r, d)
  BY DEF Takes, Has
<1>3. Based(u, b, d, s)
  BY <1>1, <1>2 DEF Journey, Based, Level
<1>4. OnTheWay(u, l, b, d, s, at)
  BY <1>1 DEF Journey, OnTheWay, Level
<1>5. \A f, i : Blocked(u, f, d, i) <=> Blocked(st, f, d, i)
  BY DEF Level, Blocked
<1>6. Answers(u, l, b, v, d, s)
  BY <1>1, <1>5 DEF Journey, Answers, Level
<1> QED
  BY <1>3, <1>4, <1>6 DEF Travels, Journey

\* Only c gets hold of data or lets go of it, and none of it is of d.
LEMMA OthersLevel ==
    ASSUME NEW st, NEW u, NEW c, NEW d \in Dir, Others(st, u, c), c # d,
           u.stored[d] = st.stored[d], u.handled[d] = st.handled[d],
           c \in Readers => ~Has(st, c, d) /\ ~Has(u, c, d)
    PROVE  Level(st, u, d)
<1>1. SameLoop(st, u, d) /\ \A r \in Readers : r # c => SameReader(st, u, r)
  BY DEF Others
<1>2. Sending(u, d) = Sending(st, d)
  BY <1>1 DEF SameLoop, Sending
<1>3. u.msg = st.msg
  BY DEF Others
<1>4. ASSUME NEW r \in Readers
      PROVE  /\ Has(u, r, d) <=> Has(st, r, d)
             /\ Takes(u, r, d) <=> Takes(st, r, d)
             /\ Takes(st, r, d) => u.data[r] = st.data[r]
  <2>1. CASE r # c
    BY <1>1, <2>1 DEF SameReader
  <2>2. CASE r = c
    BY <2>2 DEF Has, Takes
  <2> QED
    BY <2>1, <2>2
<1> QED
  BY <1>2, <1>3, <1>4 DEF Level

LEMMA QuietLevel ==
    ASSUME NEW st, NEW u, Quiet(st, u), NEW d \in Dir
    PROVE  Level(st, u, d)
<1>1. Sending(u, d) = Sending(st, d)
  BY DEF Quiet, SameLoop, Sending
<1> QED
  BY <1>1 DEF Quiet, SameReader, Level

\* The ends of packets stay where they are while packets are added, and while
\* others are dropped.
LEMMA BoundLonger ==
    ASSUME NEW q \in Seq(Byte), NEW p \in Seq(Byte), NEW b \in Nat, NEW x \in Nat, Bound(b, q, x)
    PROVE  Bound(b, q \o p, x)
<1>1. Len(q \o p) = Len(q) + Len(p) /\ Len(q) \in Nat /\ Len(p) \in Nat
  OBVIOUS
<1>2. ASSUME x > b PROVE (q \o p)[x - b] = q[x - b]
  <2>1. x - b \in 1..Len(q)
    BY <1>1, <1>2 DEF Bound
  <2> QED
    BY <2>1
<1> QED
  BY <1>1, <1>2 DEF Bound

LEMMA BoundShorter ==
    ASSUME NEW q \in Seq(Byte), NEW m \in Nat, m <= Len(q), NEW b \in Nat, NEW x \in Nat, Bound(b, q, x)
    PROVE  Bound(b + m, SubSeq(q, m + 1, Len(q)), x)
<1> DEFINE p == SubSeq(q, m + 1, Len(q))
           n == Len(q)
<1>1. n \in Nat /\ Len(p) = n - m /\ \A i \in 1..(n - m) : p[i] = q[m + i]
  OBVIOUS
<1>2. x <= b + n /\ (x > b => q[x - b].end)
  BY DEF Bound
<1> HIDE DEF p, n
<1>3. x <= (b + m) + Len(p)
  BY <1>1, <1>2
<1>4. ASSUME x > b + m PROVE p[x - (b + m)].end
  <2> DEFINE i == x - (b + m)
  <2>1. i \in 1..(n - m) /\ m + i = x - b /\ x > b
    BY <1>1, <1>2, <1>4
  <2> HIDE DEF i
  <2>2. p[i] = q[x - b]
    BY <1>1, <2>1
  <2> QED
    BY <1>2, <2>1, <2>2 DEF i
<1> QED
  BY <1>3, <1>4 DEF Bound, p, n

LEMMA TotalTypes ==
    ASSUME Inv, NEW l, LinkTyped(l), NEW d \in Dir, NEW s \in Nat
    PROVE  /\ \A r \in Readers : s + ses.msg[r].total \in Nat
           /\ \A i \in 1..Len(l.fromProc) : l.fromProc[i].type = d => s + l.fromProc[i].total \in Nat
<1>1. ASSUME NEW r \in Readers PROVE s + ses.msg[r].total \in Nat
  <2>1. ses.msg[r] \in ResponseHead
    BY HeldTypes
  <2>2. ses.msg[r].total \in Nat
    BY <2>1 DEF ResponseHead
  <2> QED
    BY <2>2
<1>2. ASSUME NEW i \in 1..Len(l.fromProc), l.fromProc[i].type = d
      PROVE  s + l.fromProc[i].total \in Nat
  <2>1. l.fromProc[i] \in ResponseHead \cup {NewData}
    BY DEF LinkTyped
  <2>2. l.fromProc[i] # NewData
    BY <1>2 DEF NewData, Dir
  <2>3. l.fromProc[i].total \in Nat
    BY <2>1, <2>2 DEF ResponseHead
  <2> QED
    BY <2>3
<1> QED
  BY <1>1, <1>2

\* The loop of d stores what it holds, and sends it.
LEMMA StoresTravels ==
    ASSUME Inv, NEW d \in Dir, Stores(ses, ses', d), NEW n, Ordered(ses, got[d], n, d),
           NEW l, LinkTyped(l), NEW v, NEW b, b = Past(ses, got[d], d), Travels(ses, l, b, v, d)
    PROVE  Travels(ses', l, b, v, d)
<1> DEFINE q == ses.stored[d]
           x == ses.data[d]
           m == Len(l.toProc)
<1>1. PICK s \in Nat, at \in [Nat -> Nat] : Journey(ses, l, b, v, d, s, at)
  BY DEF Travels
<1>2. /\ q \in Seq(Byte) /\ x \in Seq(Nat) /\ Packet(x) \in Seq(Byte) /\ Len(Packet(x)) = Len(x)
      /\ ses'.stored[d] = q \o Packet(x) /\ ses'.handled[d] = ses.handled[d]
  <2>1. q \in Seq(Byte) /\ x \in Seq(Nat)
    BY HeldTypes
  <2>2. Packet(x) \in Seq(Byte) /\ Len(Packet(x)) = Len(x)
    BY <2>1, PacketType DEF Packet
  <2> QED
    BY <2>1, <2>2 DEF Stores
<1>3. b \in Nat /\ Follows(x, b + Len(q)) /\ m \in Nat
  <2>1. b \in Nat /\ Follows(x, b + Len(q))
    <3>1. Carries(ses, d)
      BY DEF Stores
    <3> QED
      BY <3>1 DEF Ordered
  <2>2. l.toProc \in Seq(Message)
    BY DEF LinkTyped
  <2> QED
    BY <2>1, <2>2
<1>4. Sending(ses, d) = <<>> /\ Sending(ses', d) = x
  BY DEF Stores, Carries, Sends, Sending
<1>5. /\ ses'.msg = ses.msg
      /\ \A r \in Readers : /\ Has(ses', r, d) <=> Has(ses, r, d)
                            /\ Takes(ses', r, d) <=> Takes(ses, r, d)
                            /\ Takes(ses, r, d) => ses'.data[r] = ses.data[r]
  BY Apart DEF Stores, Others, SameReader
<1>6. \A y \in Nat : Bound(b, q, y) => Bound(b, ses'.stored[d], y)
  BY <1>2, <1>3, BoundLonger
<1>7. Based(ses', b, d, s)
  BY <1>1, <1>2, <1>5 DEF Journey, Based
<1>8. OnTheWay(ses', l, b, d, s, at)
  <2>1. OnTheWay(ses, l, b, d, s, at)
    BY <1>1 DEF Journey
  <2>2. at[m + 1] + Len(<<>>) = b + Len(q) /\ \A i \in 1..(m + 1) : Bound(b, q, at[i])
    BY <1>4, <2>1 DEF OnTheWay
  <2>5. Len(ses'.stored[d]) = Len(q) + Len(x) /\ Len(q) \in Nat /\ Len(x) \in Nat
    <3> DEFINE p == Packet(x)
    <3>1. q \in Seq(Byte) /\ p \in Seq(Byte)
      BY <1>2
    <3> HIDE DEF q, p
    <3>2. Len(q \o p) = Len(q) + Len(p) /\ Len(q) \in Nat
      BY ONLY <3>1
    <3>3. Len(x) \in Nat
      BY <1>2
    <3> QED
      BY <1>2, <3>2, <3>3 DEF p
  <2>6. at[m + 1] = b + Len(q)
    <3>1. at[m + 1] \in Nat
      BY <1>3
    <3> HIDE DEF q, x, m
    <3> QED
      BY <1>3, <2>2, <2>5, <3>1
  <2>3. at[m + 1] + Len(x) = b + Len(ses'.stored[d])
    <3> HIDE DEF q, x, m
    <3> QED
      BY <1>3, <2>5, <2>6
  <2>4. \A i \in 1..(m + 1) : Bound(b, ses'.stored[d], at[i])
    <3>1. \A i \in 1..(m + 1) : at[i] \in Nat
      BY <1>3
    <3> QED
      BY <1>6, <2>2, <3>1
  <2> QED
    BY <1>3, <1>4, <2>1, <2>6, <2>3, <2>4 DEF OnTheWay
<1>9. Answers(ses', l, b, v, d, s)
  <2>1. Answers(ses, l, b, v, d, s)
    BY <1>1 DEF Journey
  <2>2. \A f, i : Blocked(ses', f, d, i) <=> Blocked(ses, f, d, i)
    BY <1>5 DEF Blocked
  <2>3. /\ \A r \in Readers : s + ses.msg[r].total \in Nat
        /\ \A i \in 1..Len(l.fromProc) : l.fromProc[i].type = d => s + l.fromProc[i].total \in Nat
    BY TotalTypes
  <2> QED
    BY <1>5, <1>6, <2>1, <2>2, <2>3 DEF Answers
<1> QED
  BY <1>7, <1>8, <1>9 DEF Travels, Journey

\* The reader drops what it has written for d.
LEMMA ClearsTravels ==
    ASSUME Inv, Free, NEW r \in Readers, NEW d \in Dir, Clears(ses, ses', r, d),
           NEW l, LinkTyped(l), NEW v, NEW b \in Nat, Travels(ses, l, b, v, d)
    PROVE  Travels(ses', l, b + Len(ses.data[r]), v, d)
<1> DEFINE q == ses.stored[d]
           k == Len(ses.data[r])
           m == Len(l.toProc)
           w == Sending(ses, d)
<1>1. PICK s \in Nat, at \in [Nat -> Nat] : Journey(ses, l, b, v, d, s, at)
  BY DEF Travels
<1>2. Takes(ses, r, d)
  BY DEF Clears, Done
<1>3. /\ \A x \in Readers : x # r => ~Has(ses, x, d)
      /\ k \in Nat /\ k <= Len(q) /\ q \in Seq(Byte)
  BY <1>2, OneTakes, HeldTypes
<1>4. /\ ses'.stored[d] = SubSeq(q, k + 1, Len(q)) /\ ses'.handled[d] = ses.handled[d]
      /\ ses'.msg = ses.msg /\ Sending(ses', d) = w
  <2>1. SameLoop(ses, ses', d)
    BY Apart DEF Clears, Others
  <2>2. Sending(ses', d) = w
    BY <2>1 DEF SameLoop, Sending
  <2> QED
    BY <2>2 DEF Clears, Others
<1>5. \A x \in Readers : ~Has(ses', x, d) /\ ~Takes(ses', x, d)
  <2> SUFFICES ASSUME NEW x \in Readers PROVE ~Has(ses', x, d) /\ ~Takes(ses', x, d)
    OBVIOUS
  <2>1. CASE x = r
    BY <2>1, RestsHolds DEF Clears
  <2>2. CASE x # r
    <3>1. SameReader(ses, ses', x)
      BY <2>2 DEF Clears, Others
    <3>2. ~Has(ses, x, d) /\ ~Takes(ses, x, d)
      BY <1>3, <2>2 DEF Has, Takes
    <3> QED
      BY <3>1, <3>2 DEF SameReader
  <2> QED
    BY <2>1, <2>2
<1>6. s <= b /\ s + ses.handled[d] = b + k /\ ses.msg[r].act = "pass"
  BY <1>1, <1>2 DEF Journey, Based
<1>7. \A y \in Nat : Bound(b, q, y) => Bound(b + k, ses'.stored[d], y)
  BY <1>3, <1>4, BoundShorter
<1>8. Based(ses', b + k, d, s)
  <2> HIDE DEF k
  <2>1. s <= b + k
    BY <1>3, <1>6
  <2> QED
    BY <1>4, <1>5, <1>6, <2>1 DEF Based
<1>9. m \in Nat
  <2>1. l.toProc \in Seq(Message)
    BY DEF LinkTyped
  <2> QED
    BY <2>1
<1>10. OnTheWay(ses', l, b + k, d, s, at)
  <2>1. OnTheWay(ses, l, b, d, s, at)
    BY <1>1 DEF Journey
  <2>2. at[m + 1] + Len(w) = b + Len(q) /\ \A i \in 1..(m + 1) : Bound(b, q, at[i])
    BY <2>1 DEF OnTheWay
  <2>3. \A i \in 1..(m + 1) : Bound(b + k, ses'.stored[d], at[i])
    <3>1. \A i \in 1..(m + 1) : at[i] \in Nat
      BY <1>9
    <3> QED
      BY <1>7, <2>2, <3>1
  <2>4. at[m + 1] + Len(w) = (b + k) + Len(ses'.stored[d])
    <3>1. Len(ses'.stored[d]) = Len(q) - k /\ Len(q) \in Nat
      <4>1. q \in Seq(Byte) /\ k \in Nat /\ k <= Len(q)
        BY <1>3
      <4> HIDE DEF q, k
      <4>2. Len(SubSeq(q, k + 1, Len(q))) = Len(q) - k /\ Len(q) \in Nat
        BY ONLY <4>1, SMTT(30)
      <4> QED
        BY <1>4, <4>2
    <3> HIDE DEF q, k, w, m
    <3> QED
      BY <1>3, <2>2, <3>1
  <2> HIDE DEF k
  <2> QED
    BY <1>4, <2>1, <2>3, <2>4 DEF OnTheWay
<1>11. Answers(ses', l, b + k, v, d, s)
  <2>1. Answers(ses, l, b, v, d, s)
    BY <1>1 DEF Journey
  <2>2. \A f, i : Blocked(ses', f, d, i) <=> Blocked(ses, f, d, i)
    <3>1. \A x \in Readers : ~(Has(ses, x, d) /\ ses.msg[x].act = "block")
      BY <1>3, <1>6
    <3> QED
      BY <1>5, <3>1 DEF Blocked
  <2>3. \A i \in 1..Len(l.fromProc) : l.fromProc[i].type = d => s + l.fromProc[i].total \in Nat
    BY TotalTypes
  <2> HIDE DEF k
  <2> QED
    BY <1>5, <1>7, <2>1, <2>2, <2>3 DEF Answers
<1> QED
  BY <1>8, <1>10, <1>11 DEF Travels, Journey

\* An answer that ends with a packet covers whole packets.
LEMMA TakesWhole ==
    ASSUME NEW q \in Seq(Byte), NEW h \in Nat, NEW t \in Nat, h <= t, t - h <= Len(q),
           t > h => q[t - h].end
    PROVE  Upto(q, Covered(q, h, t)) = t - h
<1> DEFINE C == Covered(q, h, t)
           m == Upto(q, C)
<1>1. C \in SUBSET (1..Len(q)) /\ \A e \in C : h + e <= t
  BY DEF Covered, Ends
<1>2. m \in Nat /\ (m = 0 \/ m \in C) /\ \A e \in C : e <= m
  <2> HIDE DEF C
  <2> QED
    BY <1>1, UptoLast
<1>3. t > h => t - h \in C
  <2> SUFFICES ASSUME t > h PROVE t - h \in C
    OBVIOUS
  <2>1. t - h \in 1..Len(q) /\ q[t - h].end /\ h + (t - h) <= t
    OBVIOUS
  <2> QED
    BY <2>1 DEF Covered, Ends
<1> HIDE DEF C, m
<1>4. m <= t - h
  BY <1>1, <1>2
<1>5. t - h <= m
  BY <1>2, <1>3
<1>6. m = t - h
  BY <1>2, <1>4, <1>5
<1> QED
  BY <1>6 DEF m, C

\* The reader takes what an answer for d covers.
LEMMA TakesUpTravels ==
    ASSUME Inv, Free, NEW r \in Readers, NEW d \in Dir, TakesUp(ses, ses', r, d),
           NEW l, LinkTyped(l), NEW v, NEW b \in Nat, Travels(ses, l, b, v, d)
    PROVE  Travels(ses', l, b, v, d)
<1> DEFINE q == ses.stored[d]
           h == ses.handled[d]
           t == ses.msg[r].total
           m == Upto(q, Covered(q, h, t))
<1>1. PICK s \in Nat, at \in [Nat -> Nat] : Journey(ses, l, b, v, d, s, at)
  BY DEF Travels
<1>2. /\ Has(ses, r, d) /\ ~Takes(ses, r, d) /\ ses.msg[r].act # "block"
      /\ ses'.stored[d] = q /\ ses'.handled[d] = h + m /\ Takes(ses', r, d)
      /\ ses'.data[r] = Bytes(SubSeq(q, 1, m + (IF m < Len(q) THEN t - (h + m) ELSE 0)))
  BY DEF TakesUp
<1>3. /\ q \in Seq(Byte) /\ h \in Nat /\ t \in Nat /\ ses.msg[r].act = "pass" /\ Len(q) \in Nat
  <2>1. q \in Seq(Byte) /\ h \in Nat /\ ses.msg[r] \in ResponseHead
    BY HeldTypes
  <2>2. t \in Nat /\ ses.msg[r].act \in {"pass", "block"}
    BY <2>1 DEF ResponseHead
  <2>3. ses.msg[r].act # "block"
    BY <1>2
  <2>4. Len(q) \in Nat
    <3>1. q \in Seq(Byte)
      BY <2>1
    <3> HIDE DEF q
    <3> QED
      BY ONLY <3>1
  <2>5. ses.msg[r].act = "pass"
    BY <2>2, <2>3
  <2> HIDE DEF q, h, t
  <2> QED
    BY <2>1, <2>2, <2>4, <2>5
<1>4. \A x \in Readers : x # r => ~Has(ses, x, d) /\ ~Takes(ses, x, d)
  <2>1. ses.pc[r] # "idle"
    BY <1>2 DEF Has
  <2>2. \A x \in Readers : x # r => ses.pc[x] = "idle"
    BY <2>1 DEF Free, Steered, Single
  <2> QED
    BY <2>2 DEF Has, Takes
<1>5. ses'.msg = ses.msg /\ Sending(ses', d) = Sending(ses, d)
  <2>1. SameLoop(ses, ses', d) /\ ses'.msg = ses.msg
    BY Apart DEF TakesUp, Others
  <2> QED
    BY <2>1 DEF SameLoop, Sending
<1>6. /\ \A x \in Readers : Has(ses', x, d) <=> Has(ses, x, d)
      /\ \A x \in Readers : Takes(ses', x, d) => x = r
  <2>1. \A x \in Readers : x # r => SameReader(ses, ses', x)
    BY DEF TakesUp, Others
  <2>2. Has(ses', r, d)
    BY <1>2 DEF Takes, Has
  <2> QED
    BY <1>2, <1>4, <2>1, <2>2 DEF SameReader
<1>7. s <= b /\ s + h = b
  BY <1>1, <1>2, <1>4 DEF Journey, Based
<1>8. h <= t /\ Bound(b, q, s + t)
  BY <1>1, <1>2 DEF Journey, Answers, Free, Steered, Behind
<1>9. m = t - h /\ m <= Len(q)
  <2>1. s + t <= b + Len(q) /\ (s + t > b => q[(s + t) - b].end)
    BY <1>8 DEF Bound
  <2>5. s + t <= b + Len(q) /\ Len(q) \in Nat /\ h \in Nat /\ t \in Nat
    BY <1>3, <2>1
  <2> HIDE DEF q, h, t
  <2>2. (s + t) - b = t - h /\ t - h <= Len(q)
    BY <1>7, <2>5
  <2>3. t > h => s + t > b
    BY <1>3, <1>7
  <2>4. Upto(q, Covered(q, h, t)) = t - h
    BY <1>3, <1>8, <2>1, <2>2, <2>3, TakesWhole
  <2> QED
    BY <1>3, <2>2, <2>4
<1>10. s + ses'.handled[d] = b + Len(ses'.data[r])
  <2>1. m + (IF m < Len(q) THEN t - (h + m) ELSE 0) = m
    <3> HIDE DEF m, q, h, t
    <3> QED
      BY <1>3, <1>8, <1>9
  <2>2. m \in Nat
    <3> HIDE DEF m, q, h, t
    <3> QED
      BY <1>3, <1>8, <1>9
  <2> HIDE DEF m, q, h, t
  <2>3. ses'.data[r] = Bytes(SubSeq(q, 1, m))
    BY <1>2, <2>1
  <2>4. Len(SubSeq(q, 1, m)) = m
    BY <1>3, <1>9, <2>2
  <2>5. Len(ses'.data[r]) = m
    BY <2>2, <2>3, <2>4 DEF Bytes
  <2>6. ses'.handled[d] = h + m /\ h \in Nat
    BY <1>2, <1>3
  <2> QED
    BY <1>7, <2>2, <2>5, <2>6
<1>11. Based(ses', b, d, s)
  BY <1>3, <1>5, <1>6, <1>7, <1>2, <1>10 DEF Based
<1>12. OnTheWay(ses', l, b, d, s, at)
  BY <1>1, <1>2, <1>5 DEF Journey, OnTheWay
<1>13. Answers(ses', l, b, v, d, s)
  <2>1. \A f, i : Blocked(ses', f, d, i) <=> Blocked(ses, f, d, i)
    BY <1>5, <1>6 DEF Blocked
  <2> QED
    BY <1>1, <1>2, <1>5, <1>6, <2>1 DEF Journey, Answers
<1> QED
  BY <1>11, <1>12, <1>13 DEF Travels, Journey

-----------------------------------------------------------------------------
(***************************************************************************)
(* Messages and answers under way.                                         *)
(***************************************************************************)
\* k is the connection l with one more message to the process, msg.
Joins(l, k, msg) ==
    /\ msg \in Message
    /\ k.toProc = Append(l.toProc, msg) /\ k.seen = l.seen /\ k.acked = l.acked

\* It is what the loop of d sends, or has nothing of d.
Hands(st, u, msg, d) ==
    /\ u.stored[d] = st.stored[d] /\ Sending(st, d) \in Seq(Nat)
    /\ \/ Part(msg, d) = Sending(st, d) /\ Sending(u, d) = <<>>
       \/ Part(msg, d) = <<>> /\ Sending(u, d) = Sending(st, d)

LEMMA JoinsOn ==
    ASSUME NEW st, NEW u, NEW l, LinkTyped(l), NEW k, NEW d \in Dir, NEW msg,
           Joins(l, k, msg), Hands(st, u, msg, d), NEW b \in Nat, NEW s, NEW at \in [Nat -> Nat],
           Bound(b, st.stored[d], b + Len(st.stored[d])), OnTheWay(st, l, b, d, s, at)
    PROVE  \E a \in [Nat -> Nat] : OnTheWay(u, k, b, d, s, a)
<1> DEFINE q == st.stored[d]
           w == Sending(st, d)
           y == Sending(u, d)
           x == Part(msg, d)
           p == l.toProc
           m == Len(p)
           z == at[m + 1]
           e == z + Len(x)
           a == [i \in Nat |-> IF i = m + 2 THEN e ELSE at[i]]
<1>1. /\ m \in Nat /\ Len(k.toProc) = m + 1 /\ k.toProc[m + 1] = msg
      /\ \A i \in 1..m : k.toProc[i] = p[i]
  <2>1. p \in Seq(Message)
    BY DEF LinkTyped
  <2>3. msg \in Message
    BY DEF Joins
  <2> HIDE DEF p
  <2>2. /\ Len(p) \in Nat /\ Len(Append(p, msg)) = Len(p) + 1 /\ Append(p, msg)[Len(p) + 1] = msg
        /\ \A i \in 1..Len(p) : Append(p, msg)[i] = p[i]
    BY ONLY <2>1, <2>3, SMTT(30)
  <2> QED
    BY <2>2 DEF p, Joins
<1>2. m \in Nat
  BY <1>1
<1>3. /\ Follows(l.seen[d], s) /\ l.acked[d] = Len(l.seen[d]) /\ at[1] = s + Len(l.seen[d])
      /\ z + Len(w) = b + Len(q) /\ Follows(w, z)
      /\ \A i \in 1..(m + 1) : Bound(b, q, at[i])
      /\ \A i \in 1..m : /\ at[i + 1] = at[i] + Len(Part(p[i], d))
                         /\ Follows(Part(p[i], d), at[i])
  BY DEF OnTheWay
<1>4. \/ x = w /\ y = <<>>
      \/ x = <<>> /\ y = w
  BY DEF Hands
<1>5. Len(<<>>) = 0 /\ \A c : Follows(<<>>, c)
  BY DEF Follows
<1>6. Len(w) \in Nat /\ Len(x) \in Nat
  <2>1. w \in Seq(Nat) /\ <<>> \in Seq(Nat)
    BY DEF Hands
  <2>2. x \in Seq(Nat)
    BY <1>4, <2>1
  <2> HIDE DEF w, x
  <2> QED
    BY ONLY <2>1, <2>2, SMTT(30)
<1>7. z \in Nat
  <2> HIDE DEF m
  <2>1. m + 1 \in Nat
    BY <1>2
  <2> QED
    BY <2>1
<1> HIDE DEF q, w, y, x, p, m, z
<1>8. e \in Nat
  BY <1>6, <1>7
<1> HIDE DEF e
<1>9. a \in [Nat -> Nat] /\ a[m + 2] = e /\ \A i \in 1..(m + 1) : a[i] = at[i]
  <2>1. m + 2 \in Nat /\ \A i \in 1..(m + 1) : i \in Nat /\ i # m + 2
    BY <1>2
  <2> QED
    BY <1>8, <2>1
<1> HIDE DEF a
<1>10. \/ x = w /\ y = <<>> /\ e = b + Len(q)
       \/ x = <<>> /\ y = w /\ e = z
  <2>1. ASSUME x = w /\ y = <<>> PROVE e = b + Len(q)
    BY <1>3, <2>1 DEF e
  <2>2. ASSUME x = <<>> /\ y = w PROVE e = z
    <3>1. e = z + 0
      BY <1>5, <2>2 DEF e
    <3> QED
      BY <1>7, <3>1
  <2> QED
    BY <1>4, <2>1, <2>2
<1>11. e + Len(y) = b + Len(q) /\ Follows(y, e) /\ Follows(x, z)
  <2>1. CASE x = w /\ y = <<>> /\ e = b + Len(q)
    <3>1. e + Len(y) = e + 0
      BY <1>5, <2>1
    <3>2. e + Len(y) = e
      BY <1>8, <3>1
    <3> QED
      BY <1>3, <1>5, <2>1, <3>2
  <2>2. CASE x = <<>> /\ y = w /\ e = z
    BY <1>3, <1>5, <2>2
  <2> QED
    BY <1>10, <2>1, <2>2
<1>12. Bound(b, q, e)
  <2>1. Bound(b, q, b + Len(q))
    BY DEF q
  <2>2. m + 1 \in 1..(m + 1)
    BY <1>2
  <2>3. Bound(b, q, z)
    BY <1>3, <2>2 DEF z
  <2> QED
    BY <1>10, <2>1, <2>3
<1>13. \A i \in 1..(m + 2) : Bound(b, q, a[i])
  <2>1. \A i \in 1..(m + 2) : i = m + 2 \/ i \in 1..(m + 1)
    BY <1>2
  <2> QED
    BY <1>3, <1>9, <1>12, <2>1
<1>14. \A i \in 1..(m + 1) : /\ a[i + 1] = a[i] + Len(Part(k.toProc[i], d))
                             /\ Follows(Part(k.toProc[i], d), a[i])
  <2> SUFFICES ASSUME NEW i \in 1..(m + 1)
               PROVE  /\ a[i + 1] = a[i] + Len(Part(k.toProc[i], d))
                      /\ Follows(Part(k.toProc[i], d), a[i])
    OBVIOUS
  <2>1. CASE i = m + 1
    <3>1. i + 1 = m + 2 /\ m + 1 \in 1..(m + 1)
      BY <1>2, <2>1
    <3>2. Part(k.toProc[i], d) = x /\ a[i] = z
      BY <1>1, <1>9, <2>1, <3>1 DEF x, z
    <3> QED
      BY <1>9, <1>11, <3>1, <3>2 DEF e
  <2>2. CASE i # m + 1
    <3>1. i \in 1..m /\ i + 1 \in 1..(m + 1)
      BY <1>2, <2>2
    <3>2. k.toProc[i] = p[i] /\ a[i] = at[i] /\ a[i + 1] = at[i + 1]
      BY <1>1, <1>9, <3>1
    <3> QED
      BY <1>3, <3>1, <3>2
  <2> QED
    BY <2>1, <2>2
<1>15. a[1] = at[1] /\ Len(k.toProc) + 1 = m + 2
  <2>1. 1 \in 1..(m + 1) /\ (m + 1) + 1 = m + 2
    BY <1>2
  <2> QED
    BY <1>1, <1>9, <2>1
<1>16. OnTheWay(u, k, b, d, s, a)
  <2>1. u.stored[d] = q /\ Sending(u, d) = y /\ k.seen = l.seen /\ k.acked = l.acked
    BY DEF q, y, Hands, Joins
  <2> QED
    BY <1>1, <1>3, <1>9, <1>11, <1>13, <1>14, <1>15, <2>1 DEF OnTheWay
<1> QED
  BY <1>9, <1>16

\* k is the connection l after the process took its next message.
Leaves(l, k, d) ==
    /\ l.toProc # <<>> /\ k.toProc = Tail(l.toProc)
    /\ k.seen[d] = l.seen[d] \o Part(Head(l.toProc), d)
    /\ k.acked[d] = Len(k.seen[d])

LEMMA Concats ==
    ASSUME NEW y \in Seq(Nat), NEW x \in Seq(Nat)
    PROVE  /\ Len(y) \in Nat /\ Len(x) \in Nat /\ Len(y \o x) = Len(y) + Len(x)
           /\ \A i \in 1..Len(y) : (y \o x)[i] = y[i]
           /\ \A i \in 1..Len(x) : (y \o x)[Len(y) + i] = x[i]
<1>1. Len(y) \in Nat /\ Len(x) \in Nat /\ Len(y \o x) = Len(y) + Len(x)
  OBVIOUS
<1>2. ASSUME NEW i \in 1..Len(y) PROVE (y \o x)[i] = y[i]
  OBVIOUS
<1>3. ASSUME NEW i \in 1..Len(x) PROVE (y \o x)[Len(y) + i] = x[i]
  OBVIOUS
<1> QED
  BY <1>1, <1>2, <1>3

LEMMA LeavesOn ==
    ASSUME NEW st, NEW l, LinkTyped(l), NEW k, NEW d \in Dir, Leaves(l, k, d), NEW b \in Nat,
           NEW s \in Nat, NEW at \in [Nat -> Nat], OnTheWay(st, l, b, d, s, at)
    PROVE  /\ Bound(b, st.stored[d], s + k.acked[d]) /\ Follows(k.seen[d], s)
           /\ \E a \in [Nat -> Nat] : OnTheWay(st, k, b, d, s, a)
<1> DEFINE q == st.stored[d]
           w == Sending(st, d)
           p == l.toProc
           m == Len(p) - 1
           x == Part(p[1], d)
           y == l.seen[d]
           a == [i \in Nat |-> at[i + 1]]
<1>1. /\ m \in Nat /\ Len(p) = m + 1 /\ Len(k.toProc) = m /\ Head(p) = p[1]
      /\ \A i \in 1..m : k.toProc[i] = p[i + 1]
      /\ p[1] \in Message
  <2>1. p \in Seq(Message) /\ p # <<>>
    BY DEF LinkTyped, Leaves
  <2> HIDE DEF p
  <2>2. Len(p) \in Nat \ {0} /\ Len(Tail(p)) = Len(p) - 1 /\ Head(p) = p[1] /\ p[1] \in Message
    BY ONLY <2>1
  <2>3. \A i \in 1..(Len(p) - 1) : Tail(p)[i] = p[i + 1]
    BY ONLY <2>1
  <2>4. Len(p) - 1 \in Nat /\ Len(p) = (Len(p) - 1) + 1
    BY <2>2
  <2> QED
    BY <2>2, <2>3, <2>4 DEF p, Leaves
<1>2. m \in Nat /\ Len(p) = m + 1
  BY <1>1
<1>3. x \in Seq(Nat) /\ y \in Seq(Nat) /\ k.seen[d] = y \o x
  <2>1. p[1].bytes \in Seq(Nat) /\ <<>> \in Seq(Nat)
    <3>1. p[1] \in Message /\ <<>> \in Seq(Nat)
      BY <1>1
    <3> HIDE DEF p
    <3> QED
      BY ONLY <3>1 DEF Message
  <2>2. y \in Seq(Nat) /\ k.seen[d] = y \o x
    BY <1>1 DEF LinkTyped, Leaves
  <2> QED
    BY <2>1, <2>2 DEF Part
<1>4. /\ Follows(y, s) /\ at[1] = s + Len(y)
      /\ at[Len(p) + 1] + Len(w) = b + Len(q) /\ Follows(w, at[Len(p) + 1])
      /\ \A i \in 1..(Len(p) + 1) : Bound(b, q, at[i])
      /\ \A i \in 1..Len(p) : /\ at[i + 1] = at[i] + Len(Part(p[i], d))
                              /\ Follows(Part(p[i], d), at[i])
  BY DEF OnTheWay
<1> HIDE DEF q, w, p, m, x, y
<1>5. /\ Len(y) \in Nat /\ Len(x) \in Nat /\ Len(y \o x) = Len(y) + Len(x)
      /\ \A i \in 1..Len(y) : (y \o x)[i] = y[i]
      /\ \A i \in 1..Len(x) : (y \o x)[Len(y) + i] = x[i]
  BY <1>3, Concats
<1>6. a \in [Nat -> Nat] /\ \A i \in Nat : a[i] = at[i + 1]
  OBVIOUS
<1> HIDE DEF a
<1>7. a[1] = at[1] + Len(x) /\ Follows(x, at[1])
  <2>1. 1 \in 1..Len(p) /\ a[1] = at[1 + 1]
    BY <1>2, <1>6
  <2> QED
    BY <1>4, <2>1 DEF x
<1>8. a[1] = s + Len(y \o x) /\ Follows(y \o x, s)
  <2>1. a[1] = s + (Len(y) + Len(x))
    BY <1>4, <1>5, <1>7
  <2>2. ASSUME NEW i \in 1..Len(y \o x) PROVE (y \o x)[i] = s + i
    <3>1. CASE i <= Len(y)
      <4>1. i \in 1..Len(y)
        BY <1>5, <3>1
      <4>2. (y \o x)[i] = y[i]
        BY <1>5, <3>1, <4>1
      <4> QED
        BY <1>4, <4>1, <4>2 DEF Follows
    <3>2. CASE ~(i <= Len(y))
      <4>1. i - Len(y) \in 1..Len(x) /\ i = Len(y) + (i - Len(y))
        BY <1>5, <3>2
      <4>4. (y \o x)[i] = x[i - Len(y)]
        BY <1>5, <4>1
      <4>2. (y \o x)[i] = at[1] + (i - Len(y))
        BY <1>7, <4>1, <4>4 DEF Follows
      <4>3. at[1] = s + Len(y) /\ Len(y) \in Nat /\ i \in Nat
        BY <1>4, <1>5
      <4> QED
        BY <4>2, <4>3
    <3> QED
      BY <3>1, <3>2
  <2> QED
    BY <1>5, <2>1, <2>2 DEF Follows
<1>9. \A i \in 1..(m + 1) : i \in Nat /\ i + 1 \in 1..(Len(p) + 1) /\ a[i] = at[i + 1]
  <2>1. \A i \in 1..(m + 1) : i \in Nat /\ i + 1 \in 1..(Len(p) + 1)
    BY <1>2
  <2> QED
    BY <1>6, <2>1
<1>10. \A i \in 1..(m + 1) : Bound(b, q, a[i])
  BY <1>4, <1>9
<1>11. ASSUME NEW i \in 1..m
       PROVE  /\ a[i + 1] = a[i] + Len(Part(k.toProc[i], d))
              /\ Follows(Part(k.toProc[i], d), a[i])
  <2>1. i + 1 \in 1..Len(p) /\ i \in 1..(m + 1) /\ i + 1 \in 1..(m + 1)
    BY <1>2
  <2>2. a[i] = at[i + 1] /\ a[i + 1] = at[(i + 1) + 1] /\ k.toProc[i] = p[i + 1]
    BY <1>1, <1>9, <2>1
  <2> QED
    BY <1>4, <2>1, <2>2
<1>12. a[m + 1] + Len(w) = b + Len(q) /\ Follows(w, a[m + 1])
  <2>1. m + 1 \in 1..(m + 1) /\ (m + 1) + 1 = Len(p) + 1
    BY <1>2
  <2>3. a[m + 1] = at[(m + 1) + 1]
    BY <1>9, <2>1
  <2>2. a[m + 1] = at[Len(p) + 1]
    BY <2>1, <2>3
  <2> QED
    BY <1>4, <2>2
<1>13. k.seen[d] = y \o x /\ k.acked[d] = Len(k.seen[d])
  BY <1>3 DEF Leaves
<1>14. OnTheWay(st, k, b, d, s, a)
  <2>1. st.stored[d] = q /\ Sending(st, d) = w
    BY DEF q, w
  <2> QED
    BY <1>1, <1>8, <1>10, <1>11, <1>12, <1>13, <2>1 DEF OnTheWay
<1>15. Bound(b, st.stored[d], s + k.acked[d])
  <2>1. 1 \in 1..(m + 1)
    BY <1>2
  <2> QED
    BY <1>8, <1>10, <1>13, <2>1 DEF q
<1> QED
  BY <1>6, <1>8, <1>13, <1>14, <1>15

\* k is the connection l with more answers, at most one of them for d.
More(l, k, d) ==
    LET n == Len(l.fromProc)
        f == k.fromProc
    IN  /\ n <= Len(f) /\ \A i \in 1..n : f[i] = l.fromProc[i]
        /\ \A i \in (n + 1)..Len(f) : f[i].type = d => f[i].total = k.acked[d]
        /\ \A i, j \in (n + 1)..Len(f) : f[i].type = d /\ f[j].type = d => i = j

\* That one blocks, or what has been acknowledged since was vetted.
Vets(l, k, v, w, s, d) ==
    \/ \E i \in (Len(l.fromProc) + 1)..Len(k.fromProc) :
           k.fromProc[i].type = d /\ k.fromProc[i].act = "block"
    \/ Covers(v, s, l.acked[d]) => Covers(w, s, k.acked[d])

LEMMA MoreOn ==
    ASSUME NEW st, NEW l, LinkTyped(l), NEW k, k.fromProc \in Seq(ResponseHead \cup {NewData}),
           NEW d \in Dir, NEW b, NEW s, NEW v, NEW w, v \subseteq w, More(l, k, d),
           Vets(l, k, v, w, s, d), Bound(b, st.stored[d], s + k.acked[d]), Answers(st, l, b, v, d, s)
    PROVE  Answers(st, k, b, w, d, s)
<1> DEFINE g == l.fromProc
           f == k.fromProc
           n == Len(g)
           h == Len(f)
           q == st.stored[d]
<1>1. n \in Nat /\ h \in Nat
  <2>1. g \in Seq(ResponseHead \cup {NewData}) /\ f \in Seq(ResponseHead \cup {NewData})
    BY DEF LinkTyped
  <2> HIDE DEF g, f
  <2> QED
    BY ONLY <2>1
<1>2. /\ n <= h /\ \A i \in 1..n : f[i] = g[i]
      /\ \A i \in (n + 1)..h : f[i].type = d => f[i].total = k.acked[d]
      /\ \A i, j \in (n + 1)..h : f[i].type = d /\ f[j].type = d => i = j
  BY DEF More
<1>3. /\ \A i \in 1..n : g[i].type = d =>
             /\ Bound(b, q, s + g[i].total)
             /\ g[i].act = "pass" /\ ~Blocked(st, g, d, i) => Covers(v, s, g[i].total)
      /\ \A r \in Readers : Has(st, r, d) =>
             /\ Bound(b, q, s + st.msg[r].total)
             /\ st.msg[r].act = "pass" => Covers(v, s, st.msg[r].total)
      /\ ~Blocked(st, g, d, n + 1) => Covers(v, s, l.acked[d])
  BY DEF Answers
<1>4. \/ \E i \in (n + 1)..h : f[i].type = d /\ f[i].act = "block"
      \/ Covers(v, s, l.acked[d]) => Covers(w, s, k.acked[d])
  BY DEF Vets
<1>5. Bound(b, q, s + k.acked[d])
  OBVIOUS
<1> HIDE DEF g, f, n, h, q
<1>6. \A t : Covers(v, s, t) => Covers(w, s, t)
  BY DEF Covers
<1>7. \A i \in 1..(n + 1) : Blocked(st, f, d, i) <=> Blocked(st, g, d, i)
  <2> SUFFICES ASSUME NEW i \in 1..(n + 1) PROVE Blocked(st, f, d, i) <=> Blocked(st, g, d, i)
    OBVIOUS
  <2>1. \A j \in 1..(i - 1) : j \in 1..n
    BY <1>1
  <2>2. \A j \in 1..(i - 1) : f[j] = g[j]
    BY <1>2, <2>1
  <2> QED
    BY <2>2 DEF Blocked
<1>8. \A i \in (n + 1)..(h + 1) : Blocked(st, g, d, n + 1) => Blocked(st, f, d, i)
  <2> SUFFICES ASSUME NEW i \in (n + 1)..(h + 1), Blocked(st, g, d, n + 1) PROVE Blocked(st, f, d, i)
    OBVIOUS
  <2>1. n + 1 \in 1..(n + 1) /\ \A j \in 1..((n + 1) - 1) : j \in 1..(i - 1)
    BY <1>1
  <2>2. Blocked(st, f, d, n + 1)
    BY <1>7, <2>1
  <2> QED
    BY <2>1, <2>2 DEF Blocked
<1>9. ASSUME NEW i \in 1..h, f[i].type = d
      PROVE  /\ Bound(b, q, s + f[i].total)
             /\ f[i].act = "pass" /\ ~Blocked(st, f, d, i) => Covers(w, s, f[i].total)
  <2>1. CASE i \in 1..n
    <3>1. f[i] = g[i] /\ i \in 1..(n + 1)
      BY <1>1, <1>2, <2>1
    <3> QED
      BY <1>3, <1>6, <1>7, <1>9, <2>1, <3>1
  <2>2. CASE i \notin 1..n
    <3>1. i \in (n + 1)..h /\ i \in (n + 1)..(h + 1)
      BY <1>1, <2>2
    <3>2. f[i].total = k.acked[d]
      BY <1>2, <1>9, <3>1
    <3>3. ASSUME f[i].act = "pass", ~Blocked(st, f, d, i) PROVE Covers(w, s, k.acked[d])
      <4>1. ~Blocked(st, g, d, n + 1)
        BY <1>8, <3>1, <3>3
      <4>2. Covers(v, s, l.acked[d])
        BY <1>3, <4>1
      <4>3. ~\E j \in (n + 1)..h : f[j].type = d /\ f[j].act = "block"
        BY <1>2, <1>9, <3>1, <3>3
      <4> QED
        BY <1>4, <4>2, <4>3
    <3> QED
      BY <1>5, <3>2, <3>3
  <2> QED
    BY <2>1, <2>2
<1>10. ASSUME ~Blocked(st, f, d, h + 1) PROVE Covers(w, s, k.acked[d])
  <2>1. h + 1 \in (n + 1)..(h + 1) /\ \A j \in (n + 1)..h : j \in 1..((h + 1) - 1)
    BY <1>1, <1>2
  <2>2. ~Blocked(st, g, d, n + 1)
    BY <1>8, <1>10, <2>1
  <2>3. Covers(v, s, l.acked[d])
    BY <1>3, <2>2
  <2>4. ~\E j \in (n + 1)..h : f[j].type = d /\ f[j].act = "block"
    BY <1>10, <2>1 DEF Blocked
  <2> QED
    BY <1>4, <2>3, <2>4
<1> QED
  BY <1>3, <1>6, <1>9, <1>10 DEF Answers, f, h, q


\* The operation of a coroutine ends that neither reads nor writes for the
\* process.
LEMMA SettlesLevel ==
    ASSUME NEW ch, NEW c, NEW r, Settles(ch, c, r), NEW d \in Dir, ses'.msg = ses.msg,
           \A x \in Readers : ses'.data[x] = ses.data[x],
           ses'.data[d] = ses.data[d] \/ ses.pc[d] # "pwrite",
           c = d => ses.pc[d] # "pwrite",
           c \in Readers => ses.pc[c] # "head"
    PROVE  Level(ses, ses', d)
<1>1. /\ ses'.pc = ses.pc /\ ses'.stored = ses.stored /\ ses'.handled = ses.handled
      /\ \A x \in Coro : x # c => ses'.res[x] = ses.res[x]
  BY DEF Settles
<1>2. d \in Coro /\ Readers \subseteq Coro
  BY Channels
<1>3. Sending(ses', d) = Sending(ses, d)
  <2>1. Sends(ses', d) <=> Sends(ses, d)
    BY <1>1, <1>2 DEF Sends
  <2>2. Sends(ses, d) => ses'.data[d] = ses.data[d]
    BY DEF Sends
  <2> QED
    BY <2>1, <2>2 DEF Sending
<1>4. ASSUME NEW x \in Readers
      PROVE  (Has(ses', x, d) <=> Has(ses, x, d)) /\ (Takes(ses', x, d) <=> Takes(ses, x, d))
  <2>1. ses'.res[x] = ses.res[x] \/ ses.pc[x] # "head"
    BY <1>1, <1>2
  <2> QED
    BY <1>1, <2>1 DEF Has, Takes
<1> QED
  BY <1>1, <1>3, <1>4 DEF Level

\* The reader r gets the first of the answers of l, with new data or without.
Receives(st, u, l, k, r, d) ==
    LET m == l.fromProc[1]
    IN  /\ l.fromProc # <<>> /\ k.fromProc = Tail(l.fromProc) /\ k.acked = l.acked
        /\ u.stored[d] = st.stored[d]
        /\ \A x \in Readers : x # r => ~Has(u, x, d) /\ ~Has(st, x, d)
        /\ \/ /\ Has(u, r, d) <=> Has(st, r, d)
              /\ u.msg[r] = st.msg[r] /\ m.type # d
           \/ /\ ~Has(st, r, d) /\ (Has(u, r, d) <=> m.type = d)
              /\ u.msg[r] = m

LEMMA ReceivesOn ==
    ASSUME NEW st, NEW u, NEW l, LinkTyped(l), NEW k, NEW r \in Readers, NEW d \in Dir,
           Receives(st, u, l, k, r, d), NEW b, NEW v, NEW s, Answers(st, l, b, v, d, s)
    PROVE  Answers(u, k, b, v, d, s)
<1> DEFINE g == l.fromProc
           f == k.fromProc
           q == st.stored[d]
           m == g[1]
           h == Len(f)
<1>1. /\ Len(g) = h + 1 /\ h \in Nat /\ 1 \in 1..Len(g)
      /\ \A i \in 1..h : f[i] = g[i + 1] /\ i + 1 \in 1..Len(g)
      /\ \A i \in 2..Len(g) : g[i] = f[i - 1] /\ i - 1 \in 1..h
  <2> DEFINE p == Tail(g)
  <2>1. g \in Seq(ResponseHead \cup {NewData}) /\ g # <<>>
    BY DEF LinkTyped, Receives
  <2> HIDE DEF g
  <2>2. Len(g) \in Nat \ {0} /\ Len(p) = Len(g) - 1 /\ \A i \in 1..(Len(g) - 1) : p[i] = g[i + 1]
    BY ONLY <2>1
  <2>3. f = p
    BY DEF Receives, g
  <2> HIDE DEF p, f
  <2>4. h = Len(g) - 1 /\ h \in Nat /\ Len(g) = h + 1
    BY <2>2, <2>3
  <2>5. \A i \in 1..h : f[i] = g[i + 1] /\ i + 1 \in 1..Len(g)
    BY <2>2, <2>3, <2>4
  <2>6. ASSUME NEW i \in 2..Len(g) PROVE g[i] = f[i - 1] /\ i - 1 \in 1..h
    <3>1. i - 1 \in 1..h /\ (i - 1) + 1 = i
      BY <2>4
    <3>2. f[i - 1] = g[(i - 1) + 1]
      BY <2>5, <3>1
    <3> QED
      BY <3>1, <3>2
  <2> QED
    BY <2>4, <2>5, <2>6
<1>2. /\ u.stored[d] = q /\ k.acked = l.acked
      /\ \A x \in Readers : x # r => ~Has(u, x, d) /\ ~Has(st, x, d)
      /\ \/ /\ Has(u, r, d) <=> Has(st, r, d)
            /\ u.msg[r] = st.msg[r] /\ m.type # d
         \/ /\ ~Has(st, r, d) /\ (Has(u, r, d) <=> m.type = d)
            /\ u.msg[r] = m
  BY DEF Receives
<1>3. /\ \A i \in 1..Len(g) : g[i].type = d =>
             /\ Bound(b, q, s + g[i].total)
             /\ g[i].act = "pass" /\ ~Blocked(st, g, d, i) => Covers(v, s, g[i].total)
      /\ \A x \in Readers : Has(st, x, d) =>
             /\ Bound(b, q, s + st.msg[x].total)
             /\ st.msg[x].act = "pass" => Covers(v, s, st.msg[x].total)
      /\ ~Blocked(st, g, d, Len(g) + 1) => Covers(v, s, l.acked[d])
  BY DEF Answers
<1> HIDE DEF g, f, q, m, h
<1>4. ASSUME NEW i \in Nat, i <= h + 1, Blocked(st, g, d, i + 1) PROVE Blocked(u, f, d, i)
  <2>1. CASE \E x \in Readers : Has(st, x, d) /\ st.msg[x].act = "block"
    <3>1. Has(u, r, d) /\ u.msg[r].act = "block"
      BY <1>2, <2>1
    <3> QED
      BY <3>1 DEF Blocked
  <2>2. CASE \E j \in 1..((i + 1) - 1) : g[j].type = d /\ g[j].act = "block"
    <3>1. PICK j \in 1..((i + 1) - 1) : g[j].type = d /\ g[j].act = "block"
      BY <2>2
    <3>2. CASE j = 1
      <4>1. m.type = d /\ m.act = "block"
        BY <3>1, <3>2 DEF m
      <4>2. Has(u, r, d) /\ u.msg[r].act = "block"
        BY <1>2, <4>1
      <4> QED
        BY <4>2 DEF Blocked
    <3>3. CASE j # 1
      <4>1. j \in 2..Len(g) /\ j - 1 \in 1..(i - 1)
        BY <1>1, <1>4, <3>3
      <4>2. f[j - 1] = g[j]
        BY <1>1, <4>1
      <4> QED
        BY <3>1, <4>1, <4>2 DEF Blocked
    <3> QED
      BY <3>2, <3>3
  <2> QED
    BY <1>4, <2>1, <2>2 DEF Blocked
<1>5. ASSUME NEW i \in 1..h, f[i].type = d
      PROVE  /\ Bound(b, q, s + f[i].total)
             /\ f[i].act = "pass" /\ ~Blocked(u, f, d, i) => Covers(v, s, f[i].total)
  <2>1. f[i] = g[i + 1] /\ i + 1 \in 1..Len(g) /\ i \in Nat /\ i <= h + 1
    BY <1>1
  <2>2. Blocked(st, g, d, i + 1) => Blocked(u, f, d, i)
    BY <1>4, <2>1
  <2> QED
    BY <1>3, <1>5, <2>1, <2>2
<1>6. ASSUME NEW x \in Readers, Has(u, x, d)
      PROVE  /\ Bound(b, q, s + u.msg[x].total)
             /\ u.msg[x].act = "pass" => Covers(v, s, u.msg[x].total)
  <2>1. x = r
    BY <1>2, <1>6
  <2>2. CASE Has(st, r, d) /\ u.msg[r] = st.msg[r]
    BY <1>3, <2>1, <2>2
  <2>3. CASE u.msg[r] = m /\ m.type = d /\ ~Has(st, r, d)
    <3>1. ~Blocked(st, g, d, 1)
      BY <1>2, <2>3 DEF Blocked
    <3> QED
      BY <1>1, <1>3, <2>1, <2>3, <3>1 DEF m
  <2> QED
    BY <1>2, <1>6, <2>1, <2>2, <2>3
<1>7. ~Blocked(u, f, d, h + 1) => Covers(v, s, k.acked[d])
  <2>1. h + 1 \in Nat /\ h + 1 <= h + 1 /\ (h + 1) + 1 = Len(g) + 1
    BY <1>1
  <2>2. Blocked(st, g, d, (h + 1) + 1) => Blocked(u, f, d, h + 1)
    BY <1>4, <2>1
  <2> QED
    BY <1>2, <1>3, <2>1, <2>2
<1> QED
  BY <1>2, <1>5, <1>6, <1>7 DEF Answers, f, h

\* The reader gets what it waits for.
LEMMA ReadTravels ==
    ASSUME Inv, Order, Free, ProcessRead, ~ses'.closed, NEW d \in Dir, NEW b, NEW v,
           Travels(ses, link, b, v, d)
    PROVE  Travels(ses', link', b, v, d)
<1> DEFINE r == Head(ses.wait["processRd"])
           q == link.fromProc
           m == Head(q)
           s == IF m = NewData THEN ses ELSE [ses EXCEPT !.msg[r] = m]
<1>1. "processRd" \in Chan /\ "processRd" \notin {"detect", "retry", "resolve"}
      /\ Waiters["processRd"] = Readers /\ "ok" \in Result
  BY DEF Chan, Waiters, Result
<1>2. ses.wait["processRd"] # <<>>
  BY DEF ProcessRead
<1>3. /\ Whole(ses) /\ r \in Coro /\ r \in Readers /\ ses.pc[r] # "idle" /\ ses.res[r] = "none"
      /\ Fit(ses, r) /\ ~ses.closed
  BY <1>1, <1>2, Waiting
<1>4. /\ q # <<>> /\ link' = [link EXCEPT !.fromProc = Tail(q)]
      /\ ses' = IF ses.pc[r] = (IF m = NewData THEN "body" ELSE "head")
                THEN CompleteHead(s, "processRd", "ok") ELSE Undefined(ses)
  <2>1. ~ses.bypass
    BY <1>3 DEF Fit
  <2>2. link.st = "ok"
    BY <1>3, <2>1 DEF Free, Steered, Steady, Linked
  <2> QED
    BY <2>2 DEF ProcessRead
<1>5. LinkTyped(link) /\ ses.msg \in [Readers -> ResponseHead]
  BY LinkTypes, HeldTypes
<1>6. m = q[1]
  <2>1. q \in Seq(ResponseHead \cup {NewData})
    BY <1>5 DEF LinkTyped
  <2> HIDE DEF q
  <2> QED
    BY ONLY <1>4, <2>1
<1>7. /\ link'.toProc = link.toProc /\ link'.fromProc = Tail(q) /\ link'.seen = link.seen
      /\ link'.acked = link.acked
  <2>1. DOMAIN link = {"st", "toProc", "fromProc", "seen", "acked", "split"}
    BY DEF Inv, Surroundings, LinkState
  <2> QED
    BY <1>4, <2>1
<1>8. /\ ses' = CompleteHead(s, "processRd", "ok")
      /\ ses.pc[r] = IF m = NewData THEN "body" ELSE "head"
  <2>1. Undefined(ses).closed
    BY <1>3 DEF Undefined, Whole, Parts
  <2> QED
    BY <1>4, <2>1
<1>9. /\ Beside(s) /\ s.data = ses.data
      /\ s.msg = IF m = NewData THEN ses.msg ELSE [ses.msg EXCEPT ![r] = m]
  BY <1>3, AllBeside
<1> HIDE DEF s
<1>10. Settles("processRd", r, "ok") /\ ses'.data = ses.data /\ ses'.msg = s.msg
  BY <1>1, <1>2, <1>8, <1>9, HeadSettles
<1> HIDE DEF r, q, m
<1>11. \A e \in Readers : e # r => ses.pc[e] = "idle"
  BY <1>3 DEF Free, Steered, Single
<1>12. /\ ses'.pc = ses.pc /\ ses'.stored = ses.stored /\ ses'.handled = ses.handled
       /\ ses'.res[r] = "ok" /\ ses'.res[d] = ses.res[d]
  BY <1>3, <1>10, Apart, Channels DEF Settles
<1>13. \A x \in Readers : ~Takes(ses, x, d) /\ ~Takes(ses', x, d)
  BY <1>8, <1>11, <1>12 DEF Takes
<1>14. Receives(ses, ses', link, link', r, d)
  <2>1. \A x \in Readers : x # r => ~Has(ses', x, d) /\ ~Has(ses, x, d)
    BY <1>11, <1>12 DEF Has
  <2>2. CASE m = NewData
    <3>1. ses'.msg[r] = ses.msg[r] /\ m.type # d
      BY <1>9, <1>10, <2>2 DEF NewData, Dir
    <3>2. Has(ses', r, d) <=> Has(ses, r, d)
      BY <1>8, <1>12, <2>2, <3>1 DEF Has
    <3> QED
      BY <1>4, <1>6, <1>7, <1>12, <2>1, <3>1, <3>2 DEF Receives, q
  <2>3. CASE m # NewData
    <3>1. ses'.msg[r] = m
      BY <1>3, <1>5, <1>9, <1>10, <2>3
    <3>2. ~Has(ses, r, d) /\ (Has(ses', r, d) <=> m.type = d)
      BY <1>3, <1>8, <1>12, <2>3, <3>1 DEF Has
    <3> QED
      BY <1>4, <1>6, <1>7, <1>12, <2>1, <3>1, <3>2 DEF Receives, q
  <2> QED
    BY <2>2, <2>3
<1>15. Sending(ses', d) = Sending(ses, d)
  BY <1>10, <1>12 DEF Sending, Sends
<1>16. PICK t \in Nat, at \in [Nat -> Nat] : Journey(ses, link, b, v, d, t, at)
  BY DEF Travels
<1>17. Based(ses', b, d, t)
  BY <1>12, <1>13, <1>16 DEF Journey, Based
<1>18. OnTheWay(ses', link', b, d, t, at)
  BY <1>7, <1>12, <1>15, <1>16 DEF Journey, OnTheWay
<1>19. Answers(ses', link', b, v, d, t)
  BY <1>3, <1>5, <1>14, <1>16, ReceivesOn DEF Journey
<1> QED
  BY <1>17, <1>18, <1>19 DEF Travels, Journey

\* The socket takes a message to the process.
LEMMA WrittenTravels ==
    ASSUME Inv, Order, Free, ProcessWritten, NEW d \in Dir, NEW b \in Nat, NEW v,
           Travels(ses, link, b, v, d)
    PROVE  Travels(ses', link', b, v, d)
<1> DEFINE c == Head(ses.wait["processWr"])
           msg == MessageOf(c)
<1>1. /\ "processWr" \in Chan /\ "ok" \in Result /\ ses.wait["processWr"] # <<>>
      /\ Waiters["processWr"] = Connectors \cup Dir
  BY DEF Chan, Result, Waiters, ProcessWritten
<1>2. Whole(ses) /\ LinkTyped(link)
  BY SaneWhole, LinkTypes DEF Inv
<1>3. /\ link' = [link EXCEPT !.toProc = Append(@, msg)]
      /\ ses' = CompleteHead(ses, "processWr", "ok")
  <2>1. link.st # "dead"
    BY DEF Free, Linked
  <2> QED
    BY <2>1 DEF ProcessWritten
<1>4. Settles("processWr", c, "ok") /\ ses'.data = ses.data /\ ses'.msg = ses.msg
  BY <1>1, <1>2, <1>3, AllBeside, HeadSettles
<1>5. /\ link'.toProc = Append(link.toProc, msg) /\ link'.seen = link.seen
      /\ link'.acked = link.acked /\ link'.fromProc = link.fromProc
  <2>1. DOMAIN link = {"st", "toProc", "fromProc", "seen", "acked", "split"}
    BY DEF Inv, Surroundings, LinkState
  <2> QED
    BY <1>3, <2>1
<1>6. msg = IF c \in Dir
            THEN [kind |-> c, bytes |-> IF ses.pc[c] = "notify" THEN <<>> ELSE ses.data[c]]
            ELSE [kind |-> "tuple", bytes |-> <<>>]
  BY DEF MessageOf
<1>7. c \in Dir => ses.data[c] \in Seq(Nat)
  BY HeldTypes
<1> HIDE DEF c, msg
<1>8. <<>> \in Seq(Nat)
  OBVIOUS
<1>9. msg \in Message
  <2>1. c \in Dir => (IF ses.pc[c] = "notify" THEN <<>> ELSE ses.data[c]) \in Seq(Nat)
    BY <1>7, <1>8
  <2> QED
    BY <1>6, <2>1 DEF Message
<1>10. Joins(link, link', msg)
  BY <1>5, <1>9 DEF Joins
<1>11. /\ ses'.pc = ses.pc /\ ses'.stored = ses.stored /\ ses'.handled = ses.handled
       /\ \A x \in Coro : ses'.res[x] = IF x = c THEN "ok" ELSE ses.res[x]
       /\ c \in Connectors \cup Dir /\ ses.res[c] = "none"
  BY <1>1, <1>4 DEF Settles
<1>12. c \in Dir => ses.pc[c] \in {"pwrite", "notify"}
  BY <1>4, FilledSpot DEF Settles, Fit
<1>13. d \in Coro /\ Readers \subseteq Coro /\ \A x \in Readers : x # c
  BY <1>11, Apart, Channels
<1>14. Hands(ses, ses', msg, d)
  <2>1. Sending(ses, d) \in Seq(Nat)
    <3>1. ses.data[d] \in Seq(Nat)
      BY HeldTypes
    <3> QED
      BY <1>8, <3>1 DEF Sending
  <2>2. CASE c = d
    <3>1. Sending(ses', d) = <<>>
      BY <1>11, <1>13, <2>2 DEF Sending, Sends
    <3>2. CASE ses.pc[d] = "pwrite"
      <4>1. Part(msg, d) = ses.data[d] /\ Sending(ses, d) = ses.data[d]
        BY <1>6, <1>11, <2>2, <3>2 DEF Part, Sending, Sends
      <4> QED
        BY <1>11, <2>1, <3>1, <4>1 DEF Hands
    <3>3. CASE ses.pc[d] = "notify"
      <4>1. Part(msg, d) = <<>> /\ Sending(ses, d) = <<>>
        BY <1>6, <2>2, <3>3 DEF Part, Sending, Sends
      <4> QED
        BY <1>11, <2>1, <3>1, <4>1 DEF Hands
    <3> QED
      BY <1>12, <2>2, <3>2, <3>3
  <2>3. CASE c # d
    <3>1. Sending(ses', d) = Sending(ses, d)
      BY <1>4, <1>11, <1>13, <2>3 DEF Sending, Sends
    <3>2. Part(msg, d) = <<>>
      BY <1>6, <2>3 DEF Part, Dir
    <3> QED
      BY <1>11, <2>1, <3>1, <3>2 DEF Hands
  <2> QED
    BY <2>2, <2>3
<1>15. \A x \in Readers : /\ Has(ses', x, d) <=> Has(ses, x, d)
                          /\ Takes(ses', x, d) <=> Takes(ses, x, d)
  BY <1>4, <1>11, <1>13 DEF Has, Takes
<1>16. PICK s \in Nat, at \in [Nat -> Nat] : Journey(ses, link, b, v, d, s, at)
  BY DEF Travels
<1>17. Based(ses', b, d, s)
  BY <1>4, <1>11, <1>15, <1>16 DEF Journey, Based
<1>18. Answers(ses', link', b, v, d, s)
  <2>1. \A f, i : Blocked(ses', f, d, i) <=> Blocked(ses, f, d, i)
    BY <1>4, <1>15 DEF Blocked
  <2> QED
    BY <1>4, <1>5, <1>11, <1>15, <1>16, <2>1 DEF Journey, Answers
<1>19. Bound(b, ses.stored[d], b + Len(ses.stored[d]))
  <2> DEFINE q == ses.stored[d]
  <2>1. q \in Seq(Byte) /\ (q # <<>> => q[Len(q)].end)
    BY HeldTypes DEF Inv, Sane, Formed, Ended
  <2> HIDE DEF q
  <2>2. Len(q) \in Nat /\ (Len(q) > 0 => q # <<>>)
    BY <2>1, SMTT(30)
  <2>3. (b + Len(q)) - b = Len(q)
    BY <2>2
  <2> QED
    BY <2>1, <2>2, <2>3 DEF Bound, q
<1>20. \E a \in [Nat -> Nat] : OnTheWay(ses', link', b, d, s, a)
  BY <1>2, <1>10, <1>14, <1>16, <1>19, JoinsOn DEF Journey
<1> QED
  BY <1>17, <1>18, <1>20 DEF Travels, Journey

\* k is the connection l with an answer for e, and perhaps new data.
Adds(l, k, e, total, act) ==
    LET n == Len(l.fromProc)
        f == k.fromProc
    IN  /\ k.toProc = l.toProc /\ k.seen = l.seen /\ k.split = l.split
        /\ k.acked = [l.acked EXCEPT ![e] = total]
        /\ n \in Nat /\ Len(f) \in Nat /\ n + 1 <= Len(f)
        /\ \A i \in 1..n : f[i] = l.fromProc[i]
        /\ f[n + 1].type = e /\ f[n + 1].act = act /\ f[n + 1].total = total
        /\ \A i \in (n + 1)..Len(f) : i = n + 1 \/ f[i].type = "body"

LEMMA AckedAdds ==
    ASSUME Inv, NEW l, l.fromProc = link.fromProc, l = [f \in DOMAIN l |-> l[f]],
           DOMAIN l = DOMAIN link, NEW e, NEW total, NEW act, NEW new
    PROVE  Adds(l, Acked(l, e, total, act, new), e, total, act)
<1> DEFINE k == Acked(l, e, total, act, new)
           q == link.fromProc
           h == [type |-> e, act |-> act, new |-> new, total |-> total]
           z == IF new THEN <<NewData>> ELSE <<>>
           a == Append(q, h)
           p == a \o z
           n == Len(q)
           S == ResponseHead \cup {NewData} \cup {h}
<1>1. DOMAIN link = {"st", "toProc", "fromProc", "seen", "acked", "split"}
      /\ q \in Seq(ResponseHead \cup {NewData})
  BY DEF Inv, Surroundings, LinkState
<1>2. /\ k.seen = l.seen /\ k.toProc = l.toProc /\ k.split = l.split
      /\ k.acked = [l.acked EXCEPT ![e] = total] /\ k.fromProc = p
  BY <1>1 DEF Acked
<1>3. h.type = e /\ h.act = act /\ h.total = total /\ NewData.type = "body"
  BY DEF NewData
<1> HIDE DEF k, h
<1>4. q \in Seq(S) /\ h \in S /\ NewData \in S
  BY <1>1
<1> HIDE DEF S, q
<1>5. a \in Seq(S) /\ Len(a) = n + 1 /\ n \in Nat /\ a[n + 1] = h /\ \A i \in 1..n : a[i] = q[i]
  BY <1>4
<1>6. z \in Seq(S) /\ Len(z) \in Nat /\ \A i \in 1..Len(z) : z[i] = NewData
  <2>1. CASE new
    <3>1. z = <<NewData>>
      BY <2>1
    <3> HIDE DEF z
    <3> QED
      BY <1>4, <3>1
  <2>2. CASE ~new
    <3>1. z = <<>>
      BY <2>2
    <3> HIDE DEF z
    <3> QED
      BY <1>4, <3>1
  <2> QED
    BY <2>1, <2>2
<1> HIDE DEF a, z
<1>7. /\ Len(p) = Len(a) + Len(z) /\ \A i \in 1..Len(a) : p[i] = a[i]
      /\ \A i \in 1..Len(z) : p[Len(a) + i] = z[i]
  <2>1. Len(p) = Len(a) + Len(z)
    BY ONLY <1>5, <1>6
  <2>2. ASSUME NEW i \in 1..Len(a) PROVE p[i] = a[i]
    BY ONLY <1>5, <1>6, <2>2
  <2>3. ASSUME NEW i \in 1..Len(z) PROVE p[Len(a) + i] = z[i]
    BY ONLY <1>5, <1>6, <2>3
  <2> QED
    BY <2>1, <2>2, <2>3
<1> HIDE DEF p, n
<1>8. /\ Len(p) \in Nat /\ n + 1 <= Len(p) /\ p[n + 1] = h
      /\ \A i \in 1..n : p[i] = q[i]
  BY <1>5, <1>6, <1>7
<1>9. ASSUME NEW i \in (n + 1)..Len(p) PROVE i = n + 1 \/ p[i].type = "body"
  <2> SUFFICES ASSUME i # n + 1 PROVE p[i].type = "body"
    OBVIOUS
  <2> DEFINE j == i - (n + 1)
  <2>1. j \in 1..Len(z) /\ Len(a) + j = i
    BY <1>5, <1>6, <1>7, <1>9
  <2> HIDE DEF j
  <2>2. p[i] = z[j]
    BY <1>7, <2>1
  <2> QED
    BY <1>3, <1>6, <2>1, <2>2
<1> QED
  BY <1>2, <1>3, <1>5, <1>8, <1>9 DEF Adds, k, q, n

\* That is one answer more, for e and for no other direction.
Tells(l, k, e, d, total, act) ==
    /\ More(l, k, d)
    /\ d # e => k.acked[d] = l.acked[d]
    /\ d = e => /\ k.acked[d] = total
                /\ \E i \in (Len(l.fromProc) + 1)..Len(k.fromProc) :
                       k.fromProc[i].type = d /\ k.fromProc[i].act = act

LEMMA AddsMore ==
    ASSUME NEW l, NEW k, NEW e \in Dir, NEW d \in Dir, NEW total, NEW act,
           Adds(l, k, e, total, act), l.acked \in [Dir -> Nat]
    PROVE  Tells(l, k, e, d, total, act)
<1> DEFINE n == Len(l.fromProc)
           f == k.fromProc
           h == Len(f)
<1>1. /\ k.acked = [l.acked EXCEPT ![e] = total] /\ n \in Nat /\ h \in Nat /\ n + 1 <= h
      /\ \A i \in 1..n : f[i] = l.fromProc[i]
      /\ f[n + 1].type = e /\ f[n + 1].act = act /\ f[n + 1].total = total
      /\ \A i \in (n + 1)..h : i = n + 1 \/ f[i].type = "body"
  BY DEF Adds
<1> HIDE DEF n, f, h
<1>2. n <= h /\ n + 1 \in (n + 1)..h
  BY <1>1
<1>3. d # e => k.acked[d] = l.acked[d]
  BY <1>1
<1>4. k.acked[e] = total
  BY <1>1
<1>5. \A i \in (n + 1)..h : f[i].type = d => i = n + 1 /\ d = e
  BY <1>1 DEF Dir
<1>6. /\ \A i \in (n + 1)..h : f[i].type = d => f[i].total = k.acked[d]
      /\ \A i, j \in (n + 1)..h : f[i].type = d /\ f[j].type = d => i = j
  BY <1>1, <1>4, <1>5
<1>7. More(l, k, d)
  BY <1>1, <1>2, <1>6 DEF More, n, f, h
<1>8. d = e => \E i \in (n + 1)..h : f[i].type = d /\ f[i].act = act
  BY <1>1, <1>2
<1> QED
  BY <1>3, <1>4, <1>7, <1>8 DEF Tells, n, f, h

\* The process goes on with d: it may take the next message, may answer it,
\* and vets what it acknowledges with an answer that passes.
Proceeds(l, k, v, w, d) ==
    /\ \/ k.toProc = l.toProc /\ k.seen[d] = l.seen[d] /\ k.acked[d] = l.acked[d]
       \/ Leaves(l, k, d)
    /\ More(l, k, d)
    /\ \/ /\ w = v
          /\ \E i \in (Len(l.fromProc) + 1)..Len(k.fromProc) :
                 k.fromProc[i].type = d /\ k.fromProc[i].act = "block"
       \/ w = v /\ k.acked[d] = l.acked[d]
       \/ /\ k.acked[d] = Len(k.seen[d])
          /\ w = v \cup {k.seen[d][i] : i \in (l.acked[d] + 1)..k.acked[d]}

LEMMA ProceedsTravels ==
    ASSUME NEW st, NEW l, LinkTyped(l), NEW k, LinkTyped(k), NEW d \in Dir, NEW v, NEW w,
           Proceeds(l, k, v, w, d), NEW b \in Nat, Travels(st, l, b, v, d)
    PROVE  Travels(st, k, b, w, d)
<1>1. PICK s \in Nat, at \in [Nat -> Nat] : Journey(st, l, b, v, d, s, at)
  BY DEF Travels
<1>2. OnTheWay(st, l, b, d, s, at)
  BY <1>1 DEF Journey
<1>3. /\ Bound(b, st.stored[d], s + k.acked[d]) /\ Follows(k.seen[d], s)
      /\ \E a \in [Nat -> Nat] : OnTheWay(st, k, b, d, s, a)
  <2>1. CASE k.toProc = l.toProc /\ k.seen[d] = l.seen[d] /\ k.acked[d] = l.acked[d]
    <3>1. OnTheWay(st, k, b, d, s, at)
      BY <1>2, <2>1 DEF OnTheWay
    <3>2. Len(l.toProc) \in Nat
      <4>1. l.toProc \in Seq(Message)
        BY Zenon DEF LinkTyped
      <4> QED
        BY ONLY <4>1
    <3>3. 1 \in 1..(Len(l.toProc) + 1)
      BY <3>2
    <3>4. Bound(b, st.stored[d], s + k.acked[d]) /\ Follows(k.seen[d], s)
      BY <1>2, <2>1, <3>3 DEF OnTheWay
    <3> QED
      BY <3>1, <3>4
  <2>2. CASE Leaves(l, k, d)
    BY <1>2, <2>2, LeavesOn
  <2> QED
    BY <2>1, <2>2 DEF Proceeds
<1>4. v \subseteq w /\ More(l, k, d)
  BY DEF Proceeds
<1>5. Vets(l, k, v, w, s, d)
  <2>1. CASE \/ /\ w = v
                /\ \E i \in (Len(l.fromProc) + 1)..Len(k.fromProc) :
                       k.fromProc[i].type = d /\ k.fromProc[i].act = "block"
             \/ w = v /\ k.acked[d] = l.acked[d]
    BY <2>1 DEF Vets
  <2>2. CASE /\ k.acked[d] = Len(k.seen[d])
             /\ w = v \cup {k.seen[d][i] : i \in (l.acked[d] + 1)..k.acked[d]}
    <3>1. l.acked[d] \in Nat /\ k.acked[d] \in Nat
      BY DEF LinkTyped
    <3>2. ASSUME Covers(v, s, l.acked[d]), NEW i \in 1..k.acked[d] PROVE s + i \in w
      <4>1. CASE i <= l.acked[d]
        <5>1. i \in 1..l.acked[d]
          BY <3>1, <4>1
        <5> QED
          BY <1>4, <3>2, <5>1 DEF Covers
      <4>2. CASE ~(i <= l.acked[d])
        <5>1. i \in (l.acked[d] + 1)..k.acked[d]
          BY <3>1, <4>2
        <5>2. k.seen[d][i] = s + i
          BY <1>3, <2>2 DEF Follows
        <5> QED
          BY <2>2, <5>1, <5>2
      <4> QED
        BY <4>1, <4>2
    <3> QED
      BY <3>2 DEF Vets, Covers
  <2> QED
    BY <2>1, <2>2 DEF Proceeds
<1>6. Answers(st, k, b, w, d, s)
  <2>1. k.fromProc \in Seq(ResponseHead \cup {NewData})
    BY DEF LinkTyped
  <2> QED
    BY <1>1, <1>3, <1>4, <1>5, <2>1, MoreOn DEF Journey
<1> QED
  BY <1>1, <1>3, <1>6 DEF Travels, Journey

LEMMA ProcessProceeds ==
    ASSUME Inv, Free, MaxFaults = 0, ProcessStep, NEW d \in Dir, ~link'.split[d],
           link.acked[d] = Len(link.seen[d])
    PROVE  Proceeds(link, link', vetted[d], vetted'[d], d) /\ ses' = ses /\ got' = got
<1>1. /\ link = [f \in DOMAIN link |-> link[f]]
      /\ DOMAIN link = {"st", "toProc", "fromProc", "seen", "acked", "split"}
      /\ link.acked \in [Dir -> Nat] /\ link.split \in [Dir -> BOOLEAN]
      /\ vetted \in [Dir -> SUBSET Nat] /\ faults = 0
  BY DEF Inv, Surroundings, LinkState, Free
<1>2. /\ link.seen[d] \in Seq(Nat) /\ Len(link.fromProc) \in Nat
      /\ DOMAIN link.seen = Dir /\ link.seen = [e \in Dir |-> link.seen[e]]
  <2>1. link.seen \in [Dir -> Seq(Nat)] /\ link.fromProc \in Seq(ResponseHead \cup {NewData})
    BY DEF Inv, Surroundings, LinkState
  <2> QED
    BY <2>1
<1>3. ses' = ses /\ got' = got
  BY DEF ProcessStep, ProcessTakes, ProcessGoesOn, ProcessBeats, ProcessDies, ProcessHangs, ProcessStarts
<1>4. More(link, link, d)
  BY <1>2 DEF More
<1>5. CASE ProcessTakes
  <2> DEFINE m == Head(link.toProc)
             e == m.kind
             rest == [link EXCEPT !.toProc = Tail(@)]
             l == [rest EXCEPT !.seen[e] = @ \o m.bytes]
             all == Len(l.seen[e])
             z == [l EXCEPT !.split[e] = TRUE]
  <2>1. link.toProc # <<>>
    BY <1>5 DEF ProcessTakes
  <2>2. m \in Message
    <3>1. link.toProc \in Seq(Message)
      BY LinkTypes DEF LinkTyped
    <3> DEFINE p == link.toProc
    <3>2. p \in Seq(Message) /\ p # <<>>
      BY <2>1, <3>1
    <3> HIDE DEF p
    <3>3. Head(p) \in Message
      BY ONLY <3>2
    <3> QED
      BY <3>3 DEF p
  <2>3. /\ rest.toProc = Tail(link.toProc) /\ rest.fromProc = link.fromProc
        /\ rest.seen = link.seen /\ rest.acked = link.acked /\ rest.split = link.split
        /\ rest = [f \in DOMAIN rest |-> rest[f]] /\ DOMAIN rest = DOMAIN link
    BY <1>1
  <2>4. m.bytes # <<>> => e \in Dir /\ m.bytes \in Seq(Nat)
    BY <2>2 DEF Message
  <2>5. CASE m.bytes = <<>> /\ link' = rest /\ vetted' = vetted
    <3>1. Part(m, d) = <<>>
      BY <2>5 DEF Part
    <3> HIDE DEF m, rest
    <3>2. link.seen[d] \o <<>> = link.seen[d]
      BY <1>2
    <3>3. Leaves(link, link', d)
      BY <2>1, <2>3, <2>5, <3>1, <3>2 DEF Leaves, m
    <3>4. More(link, link', d) /\ link'.acked[d] = link.acked[d] /\ vetted'[d] = vetted[d]
      BY <1>4, <2>3, <2>5 DEF More
    <3> QED
      BY <1>3, <3>3, <3>4 DEF Proceeds
  <2>6. CASE m.bytes # <<>>
    <3> DEFINE Says(k, total, act, new) ==
                 /\ link' = Acked(k, e, total, act, new)
                 /\ \/ k = l /\ total = all
                    \/ k = z
                 /\ \/ act = "block" /\ vetted' = vetted
                    \/ vetted' = [vetted EXCEPT ![e] =
                                    @ \cup {k.seen[e][i] : i \in (k.acked[e] + 1)..total}]
    <3>0. \E k, total, act, new : Says(k, total, act, new)
      <4>1. \/ Passes(l, e, all, FALSE)
            \/ Passes(l, e, all, TRUE)
            \/ \E n \in (l.acked[e] + 1)..(all - 1) : Passes(z, e, n, FALSE)
            \/ link' = Acked(l, e, all, "block", FALSE) /\ vetted' = vetted
        BY <1>5, <2>6, Zenon DEF ProcessTakes
      <4> HIDE DEF l, z, e, all
      <4>2. \A n, new : Passes(z, e, n, new) => Says(z, n, "pass", new)
        BY Zenon DEF Passes
      <4>3. \A new : Passes(l, e, all, new) => Says(l, all, "pass", new)
        BY Zenon DEF Passes
      <4>4. link' = Acked(l, e, all, "block", FALSE) /\ vetted' = vetted
                => Says(l, all, "block", FALSE)
        BY Zenon
      <4> HIDE DEF Says
      <4> QED
        BY <4>1, <4>2, <4>3, <4>4, Zenon
    <3>1. PICK k, total, act, new : Says(k, total, act, new)
      BY <3>0
    <3>2. e \in Dir /\ m.bytes \in Seq(Nat)
      BY <2>4, <2>6
    <3> HIDE DEF rest, m
    <3>3. /\ l.toProc = rest.toProc /\ l.fromProc = link.fromProc /\ l.split = link.split
          /\ l.acked = link.acked /\ l.seen = [link.seen EXCEPT ![e] = @ \o m.bytes]
          /\ l = [f \in DOMAIN l |-> l[f]] /\ DOMAIN l = DOMAIN link
      BY <1>1, <2>3
    <3> HIDE DEF l
    <3>4. /\ z.toProc = l.toProc /\ z.fromProc = l.fromProc /\ z.seen = l.seen /\ z.acked = l.acked
          /\ z.split = [link.split EXCEPT ![e] = TRUE]
          /\ z = [f \in DOMAIN z |-> z[f]] /\ DOMAIN z = DOMAIN link
      BY <1>1, <3>3
    <3> HIDE DEF z
    <3>5. /\ k.toProc = Tail(link.toProc) /\ k.fromProc = link.fromProc /\ k.acked = link.acked
          /\ k.seen = l.seen /\ k = [f \in DOMAIN k |-> k[f]] /\ DOMAIN k = DOMAIN link
      BY <2>3, <3>1, <3>3, <3>4
    <3> HIDE DEF e, all
    <3>6. Adds(k, link', e, total, act)
      BY <3>1, <3>5, AckedAdds
    <3>7. /\ link'.toProc = k.toProc /\ link'.seen = k.seen /\ link'.split = k.split
      BY <3>6 DEF Adds
    <3>8. /\ More(k, link', d)
          /\ d # e => link'.acked[d] = k.acked[d]
          /\ d = e => /\ link'.acked[d] = total
                      /\ \E i \in (Len(k.fromProc) + 1)..Len(link'.fromProc) :
                             link'.fromProc[i].type = d /\ link'.fromProc[i].act = act
      <4>1. k.acked \in [Dir -> Nat] /\ e \in Dir
        BY <1>1, <3>2, <3>5
      <4>2. Tells(k, link', e, d, total, act)
        BY <3>6, <4>1, AddsMore
      <4> QED
        BY <4>2 DEF Tells
    <3>9. More(link, link', d)
      BY <3>5, <3>8 DEF More
    <3>10. link'.seen[d] = IF d = e THEN link.seen[d] \o m.bytes ELSE link.seen[d]
      BY <1>2, <3>3, <3>5, <3>7
    <3>11. Part(m, d) = IF d = e THEN m.bytes ELSE <<>>
      BY DEF Part, e
    <3>12. link'.seen[d] = link.seen[d] \o Part(m, d)
      <4>1. link.seen[d] \o <<>> = link.seen[d]
        BY <1>2
      <4> QED
        BY <3>10, <3>11, <4>1
    <3>13. CASE d # e
      <4>1. Leaves(link, link', d)
        BY <2>1, <3>5, <3>7, <3>8, <3>10, <3>12, <3>13 DEF Leaves, m
      <4>2. vetted'[d] = vetted[d]
        BY <1>1, <3>1, <3>13
      <4> QED
        BY <1>3, <3>5, <3>8, <3>9, <3>13, <4>1, <4>2 DEF Proceeds
    <3>14. CASE d = e
      <4>1. k = l /\ total = all
        <5>1. z.split[d]
          BY <1>1, <3>4, <3>14
        <5> QED
          BY <3>1, <3>7, <5>1
      <4>2. total = Len(link'.seen[d])
        BY <3>5, <3>7, <3>14, <4>1 DEF all
      <4>3. Leaves(link, link', d)
        BY <2>1, <3>5, <3>7, <3>8, <3>12, <3>14, <4>2 DEF Leaves, m
      <4>4. CASE act = "block" /\ vetted' = vetted
        BY <1>3, <3>5, <3>8, <3>9, <3>14, <4>3, <4>4 DEF Proceeds
      <4>5. CASE vetted' = [vetted EXCEPT ![e] = @ \cup {k.seen[e][i] : i \in (k.acked[e] + 1)..total}]
        <5>1. vetted'[d] = vetted[d] \cup {k.seen[d][i] : i \in (k.acked[d] + 1)..total}
          BY <1>1, <3>14, <4>5
        <5>2. vetted'[d] = vetted[d] \cup {link'.seen[d][i] : i \in (link.acked[d] + 1)..link'.acked[d]}
          BY <3>5, <3>7, <3>8, <3>14, <5>1
        <5> QED
          BY <1>3, <3>8, <3>9, <3>14, <4>2, <4>3, <5>2 DEF Proceeds
      <4> QED
        BY <3>1, <4>4, <4>5
    <3> QED
      BY <3>13, <3>14
  <2> QED
    BY <1>5, <2>5, <2>6 DEF ProcessTakes
<1>6. ASSUME NEW e \in Dir, ProcessGoesOn(e)
      PROVE  Proceeds(link, link', vetted[d], vetted'[d], d)
  <2> DEFINE t == Len(link.seen[e])
  <2>1. /\ link.acked[e] < t /\ link' = Acked(link, e, t, "pass", FALSE)
        /\ vetted' = [vetted EXCEPT ![e] = @ \cup {link.seen[e][i] : i \in (link.acked[e] + 1)..t}]
    BY <1>6 DEF ProcessGoesOn, Passes
  <2>2. d # e
    <3>1. Len(link.seen[d]) \in Nat
      BY <1>2
    <3> QED
      BY <2>1, <3>1
  <2> HIDE DEF t
  <2>3. Adds(link, link', e, t, "pass")
    BY <1>1, <2>1, AckedAdds
  <2>4. More(link, link', d) /\ link'.acked[d] = link.acked[d]
    <3>1. link.acked \in [Dir -> Nat]
      BY <1>1
    <3>2. Tells(link, link', e, d, t, "pass")
      BY <2>3, <3>1, AddsMore
    <3> QED
      BY <2>2, <3>2 DEF Tells
  <2>5. link'.toProc = link.toProc /\ link'.seen = link.seen
    BY <2>3 DEF Adds
  <2>6. vetted'[d] = vetted[d]
    BY <1>1, <2>1, <2>2
  <2> QED
    BY <2>4, <2>5, <2>6 DEF Proceeds
<1>7. CASE ProcessBeats
  <2> DEFINE q == link.fromProc
             p == Append(q, NoHead)
             n == Len(q)
  <2>1. /\ link'.seen = link.seen /\ link'.toProc = link.toProc
        /\ link'.fromProc = p /\ link'.acked = link.acked /\ vetted' = vetted
    BY <1>1, <1>7 DEF ProcessBeats
  <2>2. n \in Nat /\ Len(p) = n + 1 /\ p[n + 1] = NoHead /\ \A i \in 1..n : p[i] = q[i]
    <3>1. q \in Seq(ResponseHead \cup {NewData}) /\ NoHead \in ResponseHead
      BY LinkTypes DEF LinkTyped, NoHead, ResponseHead
    <3> HIDE DEF q
    <3> QED
      BY <3>1
  <2>3. NoHead.type # d
    BY DEF NoHead, Dir
  <2> HIDE DEF p, q, n
  <2>4. \A i \in (n + 1)..Len(p) : p[i].type # d
    <3>1. \A i \in (n + 1)..Len(p) : i = n + 1
      BY <2>2
    <3> QED
      BY <2>2, <2>3, <3>1
  <2>5. n <= Len(p)
    BY <2>2
  <2>6. More(link, link', d)
    BY <2>1, <2>2, <2>4, <2>5 DEF More, n, q
  <2> QED
    BY <1>3, <2>1, <2>6 DEF Proceeds
<1>8. ~ProcessDies /\ ~ProcessHangs
  BY <1>1 DEF ProcessDies, ProcessHangs
<1>9. CASE ProcessStarts
  <2>1. link' = link /\ vetted' = vetted
    BY <1>9 DEF ProcessStarts
  <2> QED
    BY <1>3, <1>4, <2>1 DEF Proceeds
<1> QED
  BY <1>3, <1>5, <1>6, <1>7, <1>8, <1>9 DEF ProcessStep

\* An answer that ends inside a packet leaves its mark.
LEMMA SplitStays ==
    ASSUME Inv, ProcessStep, NEW d \in Dir, link.split[d]
    PROVE  link'.split[d]
<1>1. /\ DOMAIN link = {"st", "toProc", "fromProc", "seen", "acked", "split"}
      /\ link.split \in [Dir -> BOOLEAN]
  BY DEF Inv, Surroundings, LinkState
<1>2. ASSUME NEW l, DOMAIN l = DOMAIN link, NEW e, NEW total, NEW act, NEW new
      PROVE  Acked(l, e, total, act, new).split = l.split
  BY <1>1, <1>2 DEF Acked
<1>3. CASE ProcessTakes
  <2> DEFINE m == Head(link.toProc)
             e == m.kind
             rest == [link EXCEPT !.toProc = Tail(@)]
             l == [rest EXCEPT !.seen[e] = @ \o m.bytes]
             z == [l EXCEPT !.split[e] = TRUE]
             all == Len(l.seen[e])
  <2>1. \/ link' = rest
        \/ \E total, act, new : link' = Acked(l, e, total, act, new) \/ link' = Acked(z, e, total, act, new)
    BY <1>3, ZenonT(30) DEF ProcessTakes, Passes
  <2> HIDE DEF m
  <2>2. rest.split = link.split /\ DOMAIN rest = DOMAIN link
    BY <1>1
  <2> HIDE DEF rest
  <2>3. l.split = link.split /\ DOMAIN l = DOMAIN link
    BY <1>1, <2>2
  <2> HIDE DEF l
  <2>4. z.split = [link.split EXCEPT ![e] = TRUE] /\ DOMAIN z = DOMAIN link
    BY <1>1, <2>3
  <2>5. z.split[d]
    BY <1>1, <2>4
  <2> HIDE DEF z, e
  <2>6. CASE link' = rest
    BY <2>2, <2>6
  <2>7. ASSUME NEW total, NEW act, NEW new,
               link' = Acked(l, e, total, act, new) \/ link' = Acked(z, e, total, act, new)
        PROVE  link'.split[d]
    <3>1. Acked(l, e, total, act, new).split = l.split
      BY <1>2, <2>3
    <3>2. Acked(z, e, total, act, new).split = z.split
      BY <1>2, <2>4
    <3>3. l.split[d] /\ z.split[d]
      BY <2>2, <2>3, <2>5
    <3> QED
      BY ONLY <2>7, <3>1, <3>2, <3>3, Zenon
  <2> QED
    BY <2>1, <2>6, <2>7, Zenon
<1>4. ASSUME NEW e \in Dir, ProcessGoesOn(e) PROVE link'.split[d]
  <2> DEFINE all == Len(link.seen[e])
  <2>1. link' = Acked(link, e, all, "pass", FALSE)
    BY <1>4 DEF ProcessGoesOn, Passes
  <2> HIDE DEF all
  <2>2. Acked(link, e, all, "pass", FALSE).split = link.split
    BY <1>1 DEF Acked
  <2> QED
    BY <2>1, <2>2, Zenon
<1>5. CASE ProcessBeats \/ ProcessDies \/ ProcessHangs \/ ProcessStarts
  BY <1>1, <1>5 DEF ProcessBeats, ProcessDies, ProcessHangs, ProcessStarts
<1> QED
  BY <1>3, <1>4, <1>5 DEF ProcessStep

\* The handlers of an open session that keep the connection.
LEMMA HandlerTravels ==
    ASSUME Inv, Order, Free, Relaying, Handler, NEW d \in Dir, ~ses.closed, ~ses'.closed,
           link' = link, NEW b, b = Past(ses, got[d], d), Travels(ses, link, b, vetted[d], d)
    PROVE  Travels(ses', link', Past(ses', got'[d], d), vetted'[d], d)
<1> DEFINE v == vetted[d]
           n == Len(Relayed(d))
<1>1. UNCHANGED outside /\ Moves
  BY HandlerMoves
<1>2. got' = got /\ vetted' = vetted
  BY <1>1 DEF outside
<1>3. Ordered(ses, got[d], n, d) /\ LinkTyped(link)
  BY LinkTypes DEF Relaying
<1>4. b \in Nat
  BY <1>3 DEF Ordered
<1> HIDE DEF v, n
<1>5. Travels(ses, link, b, v, d)
  BY DEF v
<1>6. SUFFICES Travels(ses', link, Past(ses', got[d], d), v, d)
  BY <1>2 DEF v
<1>7. CASE Unmoved
  <2>1. Quiet(ses, ses')
    BY <1>7 DEF Unmoved
  <2>2. Past(ses', got[d], d) = b
    BY <1>3, <2>1, QuietBytes, OrderedOn
  <2>3. Level(ses, ses', d)
    BY <2>1, QuietLevel
  <2> QED
    BY <1>5, <2>2, <2>3, LevelTravels
<1>8. ASSUME NEW e \in Dir, Stores(ses, ses', e)
      PROVE  Travels(ses', link, Past(ses', got[d], d), v, d)
  <2>1. Past(ses', got[d], d) = b
    BY <1>3, <1>8, StoresOrdered
  <2>2. CASE e = d
    BY <1>3, <1>5, <1>8, <2>1, <2>2, StoresTravels
  <2>3. CASE e # d
    <3>1. Others(ses, ses', e) /\ ses'.stored[d] = ses.stored[d] /\ ses'.handled[d] = ses.handled[d]
      BY <1>8, <2>3 DEF Stores
    <3>2. e \notin Readers
      BY Apart
    <3>3. Level(ses, ses', d)
      BY <2>3, <3>1, <3>2, OthersLevel
    <3> QED
      BY <1>5, <2>1, <3>3, LevelTravels
  <2> QED
    BY <2>2, <2>3
<1>9. ASSUME NEW r \in Readers, NEW e \in Dir, e # d, Others(ses, ses', r), ses.msg[r].type = e,
             ses'.stored[d] = ses.stored[d], ses'.handled[d] = ses.handled[d]
      PROVE  Level(ses, ses', d)
  <2>1. ses'.msg = ses.msg
    BY <1>9 DEF Others
  <2>2. ~Has(ses, r, d) /\ ~Has(ses', r, d)
    BY <1>9, <2>1 DEF Has
  <2>3. r # d
    BY Apart
  <2> QED
    BY <1>9, <2>2, <2>3, OthersLevel
<1>10. ASSUME NEW r \in Readers, NEW e \in Dir, Clears(ses, ses', r, e)
       PROVE  Travels(ses', link, Past(ses', got[d], d), v, d)
  <2>1. Past(ses', got[d], d) = b + (IF d = e THEN Len(ses.data[r]) ELSE 0)
    BY <1>3, <1>10, ClearsOrdered
  <2>2. CASE e = d
    <3>1. Travels(ses', link, b + Len(ses.data[r]), v, d)
      BY <1>3, <1>4, <1>5, <1>10, <2>2, ClearsTravels
    <3> QED
      BY <2>1, <2>2, <3>1
  <2>3. CASE e # d
    <3>1. /\ Others(ses, ses', r) /\ ses'.stored[d] = ses.stored[d] /\ ses'.handled[d] = ses.handled[d]
          /\ ses.msg[r].type = e
      BY <1>10, <2>3 DEF Clears, Done, Takes
    <3>2. Level(ses, ses', d)
      BY <1>9, <2>3, <3>1
    <3>3. Past(ses', got[d], d) = b
      BY <1>4, <2>1, <2>3
    <3> QED
      BY <1>5, <3>2, <3>3, LevelTravels
  <2> QED
    BY <2>2, <2>3
<1>11. ASSUME NEW r \in Readers, NEW e \in Dir, TakesUp(ses, ses', r, e)
       PROVE  Travels(ses', link, Past(ses', got[d], d), v, d)
  <2>1. Past(ses', got[d], d) = b
    BY <1>3, <1>11, TakesUpOrdered
  <2>2. CASE e = d
    BY <1>3, <1>4, <1>5, <1>11, <2>1, <2>2, TakesUpTravels
  <2>3. CASE e # d
    <3>1. /\ Others(ses, ses', r) /\ ses'.stored[d] = ses.stored[d] /\ ses'.handled[d] = ses.handled[d]
          /\ ses.msg[r].type = e
      BY <1>11, <2>3 DEF TakesUp, Has
    <3>2. Level(ses, ses', d)
      BY <1>9, <2>3, <3>1
    <3> QED
      BY <1>5, <2>1, <3>2, LevelTravels
  <2> QED
    BY <2>2, <2>3
<1> QED
  BY <1>1, <1>7, <1>8, <1>10, <1>11 DEF Moves

-----------------------------------------------------------------------------
(***************************************************************************)
(* Every step leaves the bytes of the process mode on their journey.       *)
(***************************************************************************)
LEMMA AllTravel ==
    ASSUME Inv, Free, Relaying, Vetting, ~ses.closed, NEW d \in Dir, ~link.split[d]
    PROVE  Travels(ses, link, Past(ses, got[d], d), vetted[d], d)
<1>1. CASE ses.pc[d] \in {"pread", "pwrite"}
  BY <1>1 DEF Vetting
<1>2. CASE ses.pc[d] \notin {"pread", "pwrite"}
  <2>1. Diverted(ses, link) /\ Totals(ses, link)
    BY DEF Free, Fed
  <2>2. LinkTyped(link) /\ ses.stored[d] \in Seq(Byte) /\ ses.handled[d] \in Nat
    BY LinkTypes, HeldTypes
  <2>3. Past(ses, got[d], d) \in Nat
    BY DEF Relaying, Ordered
  <2> QED
    BY <1>2, <2>1, <2>2, <2>3, FreshTravels
<1> QED
  BY <1>1, <1>2

\* As long as the same was delivered, and the reader has written the same of
\* it, the same is past.
LEMMA SamePast ==
    ASSUME NEW st, NEW u, NEW d, NEW g, NEW h, NEW n, Ordered(st, g, n, d), Ordered(u, h, n, d),
           \A r \in Readers : /\ Done(u, r, d) <=> Done(st, r, d)
                              /\ u.data[r] = st.data[r] /\ Len(st.data[r]) \in Nat
    PROVE  Past(u, h, d) = Past(st, g, d)
<1> DEFINE a == Past(st, g, d)
           b == Past(u, h, d)
<1>1. /\ a \in Nat /\ b \in Nat
      /\ n = a \/ \E r \in Readers : Done(st, r, d)
      /\ n = b \/ \E r \in Readers : Done(u, r, d)
      /\ \A r \in Readers : Done(st, r, d) => n = a + Len(st.data[r])
      /\ \A r \in Readers : Done(u, r, d) => n = b + Len(u.data[r])
  BY DEF Ordered
<1> HIDE DEF a, b
<1>2. CASE \E r \in Readers : Done(st, r, d)
  <2>1. PICK r \in Readers : Done(st, r, d)
    BY <1>2
  <2>2. n = a + Len(st.data[r]) /\ n = b + Len(st.data[r]) /\ Len(st.data[r]) \in Nat
    BY <1>1, <2>1
  <2> QED
    BY <1>1, <2>2 DEF a, b
<1>3. CASE \A r \in Readers : ~Done(st, r, d)
  BY <1>1, <1>3 DEF a, b
<1> QED
  BY <1>2, <1>3

LEMMA StandsPast ==
    ASSUME Relaying, Stands, ~ses.closed, ~ses'.closed, NEW d \in Dir
    PROVE  got' = got /\ Past(ses', got'[d], d) = Past(ses, got[d], d)
<1>1. Ordered(ses, got[d], Len(Relayed(d)), d) /\ SameBytes(ses, ses', d) /\ got' = got
  BY DEF Relaying, Stands
<1> QED
  BY <1>1, OrderedOn

\* The operation of a coroutine ends that is neither a loop nor a reader.
LEMMA BesideLevel ==
    ASSUME NEW ch, NEW c, NEW r, Settles(ch, c, r), ses'.data = ses.data, ses'.msg = ses.msg,
           c \notin Dir \cup Readers, NEW d \in Dir
    PROVE  Level(ses, ses', d)
BY SettlesLevel

LEMMA OtherLevel ==
    ASSUME Inv, Order, Free, ResolverDone \/ DialDone \/ TimerStep, NEW d \in Dir
    PROVE  Level(ses, ses', d) /\ ses'.pc = ses.pc /\ link' = link /\ vetted' = vetted
<1> USE AllBeside
<1>1. Whole(ses)
  BY SaneWhole DEF Inv
<1>2. CASE ResolverDone
  <2>1. PICK r \in {"ok", "err"} : ses.wait["resolve"] # <<>> /\ ses' = CompleteHead(ses, "resolve", r)
    BY <1>2 DEF ResolverDone
  <2>2. "resolve" \in Chan /\ r \in Result /\ Waiters["resolve"] = {"setup"}
    BY DEF Chan, Result, Waiters
  <2> DEFINE c == Head(ses.wait["resolve"])
  <2>3. Settles("resolve", c, r) /\ ses'.data = ses.data /\ ses'.msg = ses.msg
    BY <1>1, <2>1, <2>2, HeadSettles
  <2>4. c \notin Dir \cup Readers /\ ses'.pc = ses.pc
    BY <2>2, <2>3, Apart DEF Settles
  <2> QED
    BY <1>2, <2>3, <2>4, BesideLevel DEF ResolverDone
<1>3. CASE DialDone
  <2>1. PICK r \in {"ok", "err"}, s \in {ses, [ses EXCEPT !.sock["server"] = "conn"]} :
            ses.wait["serverWr"] # <<>> /\ ses' = CompleteHead(s, "serverWr", r)
    BY <1>3 DEF DialDone
  <2>2. "serverWr" \in Chan /\ r \in Result /\ "server" \in Sock
    BY DEF Chan, Result, Sock
  <2> DEFINE c == Head(ses.wait["serverWr"])
  <2>3. Beside(s) /\ s.data = ses.data /\ s.msg = ses.msg
    BY <1>1, <2>2
  <2>4. Settles("serverWr", c, r) /\ ses'.data = ses.data /\ ses'.msg = ses.msg
    BY <2>1, <2>2, <2>3, HeadSettles
  <2>5. c \notin Dir \cup Readers /\ ses'.pc = ses.pc
    BY <1>3, <2>4, Apart DEF DialDone, Settles
  <2> QED
    BY <1>3, <2>4, <2>5, BesideLevel DEF DialDone
<1>4. CASE TimerStep
  <2>1. PICK ch \in {"retry", "detect"} :
            /\ ses.wait[ch] # <<>> /\ ses' = CompleteHead(ses, ch, "ok")
            /\ link' = link /\ vetted' = vetted
    BY <1>4 DEF TimerStep, RetryTimer, DetectTimer, FalseTimeout
  <2>2. ch \in Chan /\ "ok" \in Result /\ Waiters[ch] \subseteq Connectors \cup Detectors
    BY DEF Chan, Result, Waiters
  <2> DEFINE c == Head(ses.wait[ch])
  <2>3. Settles(ch, c, "ok") /\ ses'.data = ses.data /\ ses'.msg = ses.msg
    BY <1>1, <2>1, <2>2, HeadSettles
  <2>4. c \notin Dir \cup Readers /\ ses'.pc = ses.pc
    BY <2>2, <2>3, Apart DEF Settles
  <2> QED
    BY <2>1, <2>3, <2>4, BesideLevel
<1> QED
  BY <1>2, <1>3, <1>4

\* A loop has read from its peer.
LEMMA PeerReadTravels ==
    ASSUME Inv, Order, Free, Relaying, NEW e \in Dir, PeerRead(e), ~ses.closed, NEW d \in Dir, NEW v,
           Travels(ses, link, Past(ses, got[d], d), v, d)
    PROVE  Travels(ses', link', Past(ses', got'[d], d), v, d) /\ ses'.pc = ses.pc
<1> DEFINE ch == Rd[From[e]]
           k == sent[e] - got[e]
           x == [i \in 1..k |-> got[e] + i]
           z == [ses EXCEPT !.data[e] = x]
<1>1. /\ ses.wait[ch] # <<>> /\ ch \in Chan /\ Waiters[ch] = {e}
      /\ ch # "processWr" /\ link' = link /\ {"ok", "eof", "err"} \subseteq Result
  BY DEF PeerRead, Dir, From, Rd, Chan, Waiters, Result
<1>2. Whole(ses)
  BY SaneWhole DEF Inv
<1>3. PICK s, r : r \in {"ok", "eof", "err"} /\ s \in {ses, z} /\ ses' = CompleteHead(s, ch, r)
  <2>1. ses' = CompleteHead(z, ch, "ok") \/ \E r \in {"eof", "err"} : ses' = CompleteHead(ses, ch, r)
    BY DEF PeerRead
  <2> HIDE DEF z, ch
  <2> QED
    BY <2>1
<1>4. /\ Beside(s) /\ s.msg = ses.msg
      /\ s.data = ses.data \/ s.data = [ses.data EXCEPT ![e] = x]
  <2> HIDE DEF x
  <2>1. Beside(ses) /\ Beside(z) /\ z.data = [ses.data EXCEPT ![e] = x] /\ z.msg = ses.msg
    BY <1>2, AllBeside
  <2> HIDE DEF z
  <2> QED
    BY <1>3, <2>1
<1> HIDE DEF x, z, ch
<1>5. Settles(ch, Head(ses.wait[ch]), r) /\ ses'.data = s.data /\ ses'.msg = ses.msg
  BY <1>1, <1>3, <1>4, HeadSettles
<1>6. Settles(ch, e, r)
  BY <1>1, <1>5 DEF Settles
<1>7. /\ \A y \in Readers : ses'.data[y] = ses.data[y] /\ y # e /\ y \in Coro
      /\ e # d => ses'.data[d] = ses.data[d]
  <2>1. ses.data \in [Dir \cup Readers -> Seq(Nat)] /\ \A y \in Readers : y # e /\ y \in Coro
    BY HeldTypes, Apart, Channels
  <2> QED
    BY <1>4, <1>5, <2>1
<1>8. ses.pc[e] # "pwrite" /\ e \notin Readers
  <2>1. Spot("pwrite", e, ses.msg) = "processWr"
    BY Spots, Zenon
  <2> QED
    BY <1>1, <1>6, <2>1, Apart DEF Settles
<1>9. Level(ses, ses', d)
  BY <1>5, <1>6, <1>7, <1>8, SettlesLevel
<1>10. ses'.pc = ses.pc /\ ses'.closed = ses.closed /\ \A y \in Coro \ {e} : ses'.res[y] = ses.res[y]
  BY <1>6 DEF Settles
<1>11. Past(ses', got'[d], d) = Past(ses, got[d], d)
  <2>1. Relaying' /\ deliv' = deliv
    BY ReadRelays
  <2>2. Relayed(d)' = Relayed(d)
    BY <2>1 DEF Relayed
  <2> DEFINE n == Len(Relayed(d))
  <2>3. Ordered(ses, got[d], n, d)
    BY DEF Relaying
  <2>4. Ordered(ses', got'[d], n, d)
    BY <1>10, <2>1, <2>2 DEF Relaying
  <2> HIDE DEF n
  <2>5. \A y \in Readers : Done(ses', y, d) <=> Done(ses, y, d)
    BY <1>5, <1>7, <1>10 DEF Done, Takes
  <2>6. \A y \in Readers : ses'.data[y] = ses.data[y] /\ Len(ses.data[y]) \in Nat
    BY <1>7, HeldTypes
  <2> QED
    BY <2>3, <2>4, <2>5, <2>6, SamePast
<1> QED
  BY <1>1, <1>9, <1>10, <1>11, LevelTravels

\* A write to a peer is done, which is not one of the loop in the process mode.
LEMMA PeerWrittenTravels ==
    ASSUME Inv, Order, Free, NEW e \in Dir, PeerWritten(e), NEW d \in Dir,
           NEW v, ses'.pc[d] \in {"pread", "pwrite"}, Travels(ses, link, Past(ses, got[d], d), v, d)
    PROVE  Travels(ses', link', Past(ses', got'[d], d), v, d) /\ ses'.pc = ses.pc
<1> DEFINE ch == Wr[To[e]]
           c == Head(ses.wait[ch])
<1>1. /\ ses.wait[ch] # <<>> /\ ch \in {"clientWr", "serverWr"} /\ ch \in Chan
      /\ "ok" \in Result /\ "err" \in Result /\ link' = link /\ got' = got
  <2>1. ses.wait[ch] # <<>> /\ link' = link /\ got' = got
    BY DEF PeerWritten
  <2>2. ch \in {"clientWr", "serverWr"}
    BY DEF Dir, To, Wr
  <2> HIDE DEF ch
  <2> QED
    BY <2>1, <2>2 DEF Chan, Result
<1>2. PICK r \in {"ok", "err"} : ses' = CompleteHead(ses, ch, r)
  BY DEF PeerWritten
<1>3. Beside(ses)
  BY SaneWhole, AllBeside DEF Inv
<1> HIDE DEF ch
<1>4. Settles(ch, c, r) /\ ses'.data = ses.data /\ ses'.msg = ses.msg
  BY <1>1, <1>2, <1>3, HeadSettles
<1> HIDE DEF c
<1>5. /\ c \in Coro /\ Spot(ses.pc[c], c, ses.msg) = ch /\ ses'.pc = ses.pc
      /\ ses'.stored = ses.stored /\ \A y \in Coro \ {c} : ses'.res[y] = ses.res[y]
  BY <1>4 DEF Settles
<1>6. c # d
  <2>1. Spot("pwrite", d, ses.msg) # ch /\ Spot("pread", d, ses.msg) # ch
    BY <1>1, Spots, SMTT(30) DEF Dir, From, Rd
  <2> QED
    BY <1>5, <2>1
<1>7. c \in Readers => ses.pc[c] # "head"
  <2>1. Spot("head", c, ses.msg) # ch
    BY <1>1, Spots
  <2> QED
    BY <1>5, <2>1
<1>8. Level(ses, ses', d)
  BY <1>4, <1>6, <1>7, SettlesLevel
<1>9. Carries(ses', d) <=> Carries(ses, d)
  <2>1. d \in Coro
    BY Channels
  <2> QED
    BY <1>5, <1>6, <2>1 DEF Carries
<1>10. Past(ses', got'[d], d) = Past(ses, got[d], d)
  BY <1>1, <1>4, <1>5, <1>9 DEF Past
<1> QED
  BY <1>1, <1>5, <1>8, <1>10, LevelTravels

\* In the process mode the session does not connect to a process.
LEMMA NoneConnects ==
    ASSUME Inv, Order, Free, ProcessAccepts, NEW d \in Dir
    PROVE  ses'.closed \/ ses'.pc[d] \notin {"pread", "pwrite"}
<1>1. PICK r \in {"ok", "err"}, s \in {ses, [ses EXCEPT !.sock["process"] = "conn"]} :
          ses.wait["processWr"] # <<>> /\ ses' = CompleteHead(s, "processWr", r)
  BY DEF ProcessAccepts
<1>2. "processWr" \in Chan /\ r \in Result /\ "process" \in Sock
      /\ Waiters["processWr"] = Connectors \cup Dir
  BY DEF Chan, Result, Sock, Waiters
<1> DEFINE c == Head(ses.wait["processWr"])
<1>3. Beside(s) /\ s.data = ses.data /\ s.msg = ses.msg
  BY <1>2, SaneWhole, AllBeside DEF Inv
<1>4. Settles("processWr", c, r)
  BY <1>1, <1>2, <1>3, HeadSettles
<1>5. ses.pc[c] = "connect"
  BY DEF ProcessAccepts
<1> HIDE DEF c
<1>6. c \in Connectors \/ c \in Dir
  BY <1>2, <1>4 DEF Settles
<1>7. Fit(ses, c) /\ ses'.pc = ses.pc /\ ses'.closed = ses.closed
  BY <1>4 DEF Settles
<1>8. c \in Connectors
  BY <1>5, <1>6, <1>7 DEF Fit
<1>9. Fit(ses, d)
  BY Channels DEF Free, Steered, Steady
<1>10. ~ses.closed => ses.bypass
  BY <1>5, <1>7, <1>8 DEF Fit
<1>12. CASE ses.closed
  BY <1>7, <1>12
<1>13. CASE ~ses.closed /\ ses.pc[d] \in {"pread", "pwrite"}
  BY <1>9, <1>10, <1>13 DEF Fit
<1> QED
  BY <1>7, <1>12, <1>13

\* A handler keeps the connection of an open session in the process mode.
LEMMA HandlerVets ==
    ASSUME Inv, Order, Free, Free', Relaying, Vetting, Handler, ~ses.closed, ~ses'.closed,
           NEW d \in Dir, ~link'.split[d], ses'.pc[d] \in {"pread", "pwrite"}
    PROVE  Travels(ses', link', Past(ses', got'[d], d), vetted'[d], d)
<1>1. link' # NoLink
  <2>1. Fit(ses', d) /\ (~ses'.closed /\ ~ses'.bypass => ses'.sock["process"] = "conn")
    BY Channels DEF Free, Steered, Steady
  <2>2. ses'.sock["process"] = "conn"
    BY <2>1 DEF Fit
  <2>3. link'.st = "ok"
    BY <2>2 DEF Free, Linked
  <2> QED
    BY <2>3 DEF NoLink
<1>2. link' = link
  BY <1>1, HandlerMoves DEF Moves, Unmoved
<1>3. Travels(ses, link, Past(ses, got[d], d), vetted[d], d)
  BY <1>2, AllTravel
<1> QED
  BY <1>2, <1>3, HandlerTravels

\* So does what the process and its socket do.
LEMMA ProcessVets ==
    ASSUME Inv, Inv', Order, Free, Relaying, Vetting, MaxFaults = 0,
           ProcessRead \/ ProcessWritten \/ ProcessStep, ~ses.closed, ~ses'.closed,
           NEW d \in Dir, ~link'.split[d]
    PROVE  Travels(ses', link', Past(ses', got'[d], d), vetted'[d], d)
<1> DEFINE b == Past(ses, got[d], d)
<1>1. b \in Nat
  BY DEF Relaying, Ordered
<1>2. got' = got /\ Past(ses', got'[d], d) = b
  <2>1. Stands
    BY OutsideStands DEF LocalStep
  <2> QED
    BY <2>1, StandsPast
<1>3. DOMAIN link = {"st", "toProc", "fromProc", "seen", "acked", "split"}
  BY DEF Inv, Surroundings, LinkState
<1>4. ~link.split[d]
  <2>1. CASE ProcessStep
    BY <2>1, SplitStays
  <2>2. CASE ProcessRead \/ ProcessWritten
    BY <1>3, <2>2 DEF ProcessRead, ProcessWritten
  <2> QED
    BY <2>1, <2>2
<1>5. Travels(ses, link, b, vetted[d], d)
  BY <1>4, AllTravel
<1> HIDE DEF b
<1>6. CASE ProcessRead
  BY <1>2, <1>5, <1>6, ReadTravels DEF ProcessRead
<1>7. CASE ProcessWritten
  BY <1>1, <1>2, <1>5, <1>7, WrittenTravels DEF ProcessWritten
<1>8. CASE ProcessStep
  <2>1. link.acked[d] = Len(link.seen[d])
    BY <1>5 DEF Travels, Journey, OnTheWay
  <2>2. Proceeds(link, link', vetted[d], vetted'[d], d) /\ ses' = ses
    BY <1>8, <2>1, ProcessProceeds
  <2>3. LinkTyped(link)
    BY LinkTypes
  <2>4. LinkTyped(link')
    <3>1. link' \in LinkState
      BY DEF Inv, Surroundings
    <3> QED
      BY <3>1, Zenon DEF LinkState, LinkTyped
  <2> QED
    BY <1>1, <1>2, <1>5, <2>2, <2>3, <2>4, ProceedsTravels
<1> QED
  BY <1>6, <1>7, <1>8

LEMMA NextVetting ==
    ASSUME Inv, Inv', Order, Free, Free', Relaying, Vetting, MaxFaults = 0, [Next]_vars
    PROVE  Vetting'
<1> SUFFICES ASSUME NEW d \in Dir, ~ses'.closed, ~link'.split[d], ses'.pc[d] \in {"pread", "pwrite"}
             PROVE  Travels(ses', link', Past(ses', got'[d], d), vetted'[d], d)
  BY DEF Vetting
<1>1. ~ses.closed
  BY NextKeepsInv DEF StaysClosed
<1>2. CASE Handler
  BY <1>1, <1>2, HandlerVets
<1>3. CASE ProcessRead \/ ProcessWritten \/ ProcessStep
  BY <1>1, <1>3, ProcessVets
<1>4. CASE ProcessAccepts
  BY <1>4, NoneConnects
<1>5. ASSUME link' = link
      PROVE  Travels(ses, link, Past(ses, got[d], d), vetted[d], d)
  BY <1>1, <1>5, AllTravel
<1>6. ASSUME NEW e \in Dir, PeerRead(e)
      PROVE  Travels(ses', link', Past(ses', got'[d], d), vetted'[d], d)
  <2>1. link' = link /\ vetted' = vetted
    BY <1>6 DEF PeerRead
  <2> QED
    BY <1>1, <1>5, <1>6, <2>1, PeerReadTravels
<1>7. ASSUME NEW e \in Dir, PeerWritten(e)
      PROVE  Travels(ses', link', Past(ses', got'[d], d), vetted'[d], d)
  <2>1. link' = link /\ vetted' = vetted
    BY <1>7 DEF PeerWritten
  <2> QED
    BY <1>5, <1>7, <2>1, PeerWrittenTravels
<1>8. CASE ResolverDone \/ DialDone \/ TimerStep
  <2>1. Level(ses, ses', d) /\ link' = link /\ vetted' = vetted
    BY <1>8, OtherLevel
  <2>2. Past(ses', got'[d], d) = Past(ses, got[d], d)
    <3>1. Stands
      BY <1>8, OutsideStands
    <3> QED
      BY <1>1, <3>1, StandsPast
  <2> QED
    BY <1>5, <2>1, <2>2, LevelTravels
<1>9. CASE UNCHANGED <<ses, got, link, vetted>>
  BY <1>5, <1>9
<1>10. ASSUME \/ \E e \in Dir : PeerSends(e)
              \/ \E p \in Peers : PeerCloses(p)
              \/ UNCHANGED vars
       PROVE  UNCHANGED <<ses, got, link, vetted>>
  BY <1>10 DEF PeerSends, PeerCloses, vars
<1> QED
  BY <1>2, <1>3, <1>4, <1>6, <1>7, <1>8, <1>9, <1>10 DEF Next, PeerStep, LocalStep, Terminated

LEMMA InitVetting == Init => Vetting
<1> SUFFICES ASSUME Init PROVE Vetting
  OBVIOUS
<1>1. ses.pc = [c \in Coro |-> IF c = "setup" THEN "resolve" ELSE "idle"]
  BY DEF Init, NewSession
<1>2. \A d \in Dir : ses.pc[d] = "idle"
  BY <1>1, Apart, Channels
<1> QED
  BY <1>2 DEF Vetting

LEMMA AlwaysVetting ==
    ASSUME MaxFaults = 0
    PROVE  Spec => [](Inv /\ Order /\ Free /\ Relaying /\ Vetting)
<1>1. Init => Vetting
  BY InitVetting
<1>2. Inv /\ Order /\ Free /\ Relaying /\ Vetting /\ Inv' /\ Free' /\ [Next]_vars => Vetting'
  BY NextVetting
<1> QED
  BY <1>1, <1>2, AlwaysRelaying, PTL DEF Spec

\* The packets that the reader writes to a peer after an answer are packets
\* that the process has acknowledged with an answer that passes (session.hpp
\* 235-250, 321-337, 490-517), until an answer ends inside a packet.
THEOREM HandledOnly ==
    ASSUME MaxFaults = 0
    PROVE  Spec => []OnlyHandledForwarded
<1>1. Inv /\ Order /\ Free /\ Relaying /\ Vetting => OnlyHandledForwarded
  <2> SUFFICES ASSUME Inv, Order, Free, Relaying, Vetting, NEW r \in Readers,
                      ses.pc[r] = "wfwd", ses.res[r] = "none", ~link.split[ses.msg[r].type]
               PROVE  Elements(ses.data[r]) \subseteq vetted[ses.msg[r].type]
    BY DEF OnlyHandledForwarded
  <2> DEFINE d == ses.msg[r].type
             x == ses.data[r]
             q == ses.stored[d]
             b == Past(ses, got[d], d)
  <2>1. d \in Dir
    BY DEF Inv, Sane, Heads, Headed
  <2>2. Takes(ses, r, d) /\ Has(ses, r, d)
    BY DEF Takes, Has
  <2>3. ~ses.closed
    <3>1. PICK ch \in Chan : \E i \in 1..Len(ses.wait[ch]) : ses.wait[ch][i] = r
      <4>1. r \in Coro \ {} /\ ses.pc[r] # "idle"
        BY Channels
      <4> QED
        BY <4>1 DEF Order, Orderly, Queued
    <3>2. Spot(ses.pc[r], r, ses.msg) = ch
      BY <3>1, Channels DEF Free, Steered, Placed, Waits
    <3>3. PICK p \in Sock : ch = Wr[p]
      <4>1. ch = Wr[To[d]]
        <5>1. Spot("wfwd", r, ses.msg) = Wr[To[d]]
          BY DEF Spot
        <5> QED
          BY <3>2, <5>1
      <4> HIDE DEF d
      <4> QED
        BY <2>1, <4>1 DEF Dir, To, Sock
    <3>4. ses.wait[ch] # <<>>
      BY <3>1
    <3> QED
      BY <3>3, <3>4 DEF Inv, Sane, Shut, Dead
  <2>4. Elements(x) \subseteq vetted[d]
    <3>1. Travels(ses, link, b, vetted[d], d)
      BY <2>1, <2>3, AllTravel
    <3>2. PICK s \in Nat, at \in [Nat -> Nat] : Journey(ses, link, b, vetted[d], d, s, at)
      BY <3>1 DEF Travels
    <3>3. /\ s <= b /\ s + ses.handled[d] = b + Len(x) /\ ses.msg[r].act = "pass"
      BY <2>2, <3>2 DEF Journey, Based
    <3>4. Covers(vetted[d], s, ses.msg[r].total)
      BY <2>2, <3>2, <3>3 DEF Journey, Answers
    <3>5. ses.handled[d] <= ses.msg[r].total
      BY <2>1, <2>2 DEF Free, Steered, Behind
    <3>6. b \in Nat /\ \A i \in 1..Len(q) : q[i].b = b + i
      BY <2>1, <2>3 DEF Relaying, Ordered
    <3>7. Len(x) <= Len(q) /\ Len(x) \in Nat /\ \A i \in 1..Len(x) : x[i] = q[i].b
      BY <2>1, <2>2, OneTakes
    <3>8. ses.handled[d] \in Nat /\ Len(q) \in Nat /\ ses.msg[r].total \in Nat
      <4>1. /\ ses.stored \in [Dir -> Seq(Byte)] /\ ses.handled \in [Dir -> Nat]
            /\ ses.msg \in [Readers -> ResponseHead]
        BY HeldTypes
      <4>2. ses.msg[r] \in ResponseHead /\ q \in Seq(Byte)
        BY <2>1, <4>1
      <4>3. ses.msg[r].total \in Nat
        BY <4>2 DEF ResponseHead
      <4> HIDE DEF q
      <4>4. Len(q) \in Nat
        BY <4>2
      <4> QED
        BY <2>1, <4>1, <4>3, <4>4
    <3> DEFINE h == ses.handled[d]
               t == ses.msg[r].total
               m == Len(x)
               n == Len(q)
               v == vetted[d]
    <3>9. Len(x) = m /\ Len(q) = n /\ ses.handled[d] = h /\ ses.msg[r].total = t /\ vetted[d] = v
      OBVIOUS
    <3> HIDE DEF h, t, m, n, v, d, x, q, b
    <3>10. ASSUME NEW i \in 1..m PROVE x[i] \in v
      <4>1. i \in Nat /\ 1 <= i /\ i <= m /\ m \in Nat /\ n \in Nat /\ m <= n
        BY ONLY <3>7, <3>8, <3>10, <3>9
      <4>2. i \in 1..n
        BY <4>1
      <4>3. x[i] = b + i
        BY ONLY <3>6, <3>7, <3>10, <3>9, <4>2
      <4>4. s \in Nat /\ b \in Nat /\ h \in Nat /\ t \in Nat /\ s <= b /\ s + h = b + m /\ h <= t
        BY ONLY <3>2, <3>3, <3>5, <3>6, <3>8, <3>9
      <4>5. b + i - s \in 1..t /\ s + (b + i - s) = b + i
        BY ONLY <4>1, <4>4
      <4>6. \A j \in 1..t : s + j \in v
        BY <3>4, <3>9 DEF Covers
      <4> QED
        BY ONLY <4>3, <4>5, <4>6
    <3> QED
      BY <3>10, <3>9 DEF Elements
  <2> QED
    BY <2>4
<1> QED
  BY <1>1, AlwaysVetting, PTL
=============================================================================
