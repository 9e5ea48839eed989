--------------------------- MODULE LocalLink_proof ---------------------------
(***************************************************************************)
(* The packets that a session stores stay apart and inside their blocks,   *)
(* for every size of block, reserve and head and for every length that     *)
(* async_read_some may bring.                                              *)
(***************************************************************************)
EXTENDS LocalLink, TLAPS

\* What Fits leaves out and an induction needs: packets lie in blocks there
\* have been, and the current one comes last.
Ordered(m) ==
    /\ \A i \in 1..Len(m.packets) : m.packets[i].block <= m.block
    /\ m.block = 0 => m.packets = <<>>

MemoryInv(m) == m \in Memory /\ Ordered(m) /\ Fits(m)

IInv == mem \in [Dir -> Memory] /\ \A d \in Dir : MemoryInv(mem[d])

-----------------------------------------------------------------------------
\* The memory after a change of its fields is one.
LEMMA MemoryFields ==
    ASSUME NEW m \in Memory
    PROVE  /\ m.block \in Nat /\ m.used \in Nat /\ m.packets \in Seq(Place)
           /\ \A b, n \in Nat : [m EXCEPT !.block = b, !.used = n] \in Memory
           /\ \A n \in Nat, q \in Seq(Place) :
                  [m EXCEPT !.used = n, !.packets = q] \in Memory
           /\ \A q \in Seq(Place) : [m EXCEPT !.packets = q] \in Memory
BY DEF Memory

\* A new block leaves the packets in the old ones alone (session.hpp 370-373).
LEMMA PreparedFits ==
    ASSUME NEW m, MemoryInv(m)
    PROVE  MemoryInv(Prepared(m))
<1> DEFINE s == [m EXCEPT !.block = m.block + 1, !.used = 0]
<1>1. /\ m \in Memory
      /\ m.packets \in Seq(Place) /\ m.block \in Nat /\ BlockSize \in Nat
  BY SizesFit, MemoryFields DEF MemoryInv
<1>2. s \in Memory
  <2>1. m.block + 1 \in Nat /\ 0 \in Nat
    BY <1>1
  <2>2. \A b, n \in Nat : [m EXCEPT !.block = b, !.used = n] \in Memory
    BY <1>1, MemoryFields
  <2> QED
    BY <2>1, <2>2, Zenon
<1>3. s.packets = m.packets /\ s.used = 0 /\ s.block = m.block + 1
  BY <1>1 DEF Memory
<1>4. \A i \in 1..Len(m.packets) : m.packets[i].block <= m.block /\ m.packets[i].block \in Nat
  <2>1. \A i \in 1..Len(m.packets) : m.packets[i] \in Place
    BY <1>1
  <2> QED
    BY <2>1 DEF MemoryInv, Ordered, Place
<1> HIDE DEF s
<1>5. Ordered(s)
  <2>1. m.block + 1 # 0 /\ \A i \in 1..Len(m.packets) : m.packets[i].block <= m.block + 1
    BY <1>1, <1>4
  <2> QED
    BY <1>3, <2>1 DEF Ordered
<1>6. Fits(s)
  <2>1. \A i \in 1..Len(m.packets) : m.packets[i].block # s.block
    BY <1>1, <1>3, <1>4
  <2> QED
    BY <1>1, <1>3, <2>1 DEF Fits, MemoryInv
<1>7. MemoryInv(s)
  BY <1>2, <1>5, <1>6 DEF MemoryInv
<1>8. Prepared(m) = s \/ Prepared(m) = m
  BY DEF Prepared, s
<1> QED
  BY <1>7, <1>8

\* What a read brings within its limit fits behind what is there.
LEMMA StoredFits ==
    ASSUME NEW m, MemoryInv(m), m.block # 0,
           NEW n \in Nat, n <= ReadLimit(m)
    PROVE  MemoryInv(Stored(m, n))
<1> DEFINE p == [block |-> m.block, at |-> m.used + HeadLen, len |-> n]
           s == Stored(m, n)
<1>1. /\ m \in Memory /\ m.used \in Nat /\ m.block \in Nat /\ m.packets \in Seq(Place)
      /\ HeadLen \in Nat /\ BlockSize \in Nat
  BY SizesFit, MemoryFields DEF MemoryInv
<1>2. p \in Place /\ p.block = m.block /\ p.at = m.used + HeadLen /\ p.len = n
  BY <1>1 DEF Place
<1>3. /\ s.packets = Append(m.packets, p)
      /\ s.used = m.used + n + HeadLen
      /\ s.block = m.block
  BY <1>1 DEF Stored, Memory
<1> HIDE DEF p
<1>4. s \in Memory
  <2>1. Append(m.packets, p) \in Seq(Place) /\ m.used + n + HeadLen \in Nat
    BY <1>1, <1>2
  <2>2. s = [m EXCEPT !.used = m.used + n + HeadLen, !.packets = Append(m.packets, p)]
    BY DEF Stored, p
  <2> QED
    <3>1. \A k \in Nat, q \in Seq(Place) :
              [m EXCEPT !.used = k, !.packets = q] \in Memory
      BY <1>1, MemoryFields
    <3> QED
      BY <2>1, <2>2, <3>1, Zenon
<1>5. /\ Len(s.packets) = Len(m.packets) + 1
      /\ \A i \in 1..Len(m.packets) : s.packets[i] = m.packets[i] /\ m.packets[i] \in Place
      /\ s.packets[Len(s.packets)] = p
  BY <1>1, <1>2, <1>3
<1> HIDE DEF s
<1>6. Ordered(s)
  BY <1>1, <1>2, <1>3, <1>5 DEF Ordered, MemoryInv
<1>7. Fits(s)
  <2>1. s.used <= BlockSize
    BY <1>1, <1>3 DEF ReadLimit, Available
  <2>2. /\ HeadLen <= p.at /\ p.at + p.len <= BlockSize /\ p.at + p.len <= s.used
    BY <1>1, <1>2, <1>3, <2>1
  <2>3. \A i \in 1..Len(m.packets) :
            /\ HeadLen <= m.packets[i].at
            /\ m.packets[i].at + m.packets[i].len <= BlockSize
            /\ m.packets[i].block = s.block =>
                  /\ m.packets[i].at + m.packets[i].len <= s.used
                  /\ m.packets[i].at + m.packets[i].len + HeadLen <= p.at
    <3> TAKE i \in 1..Len(m.packets)
    <3>1. /\ HeadLen <= m.packets[i].at
          /\ m.packets[i].at + m.packets[i].len <= BlockSize
          /\ m.packets[i].block = m.block => m.packets[i].at + m.packets[i].len <= m.used
      BY DEF Fits, MemoryInv
    <3>2. /\ m.packets[i].at \in Nat /\ m.packets[i].len \in Nat
          /\ m.used \in Nat /\ HeadLen \in Nat
      BY <1>1, <1>5 DEF Place
    <3>3. m.packets[i].at + m.packets[i].len <= m.used =>
              /\ m.packets[i].at + m.packets[i].len <= m.used + n + HeadLen
              /\ m.packets[i].at + m.packets[i].len + HeadLen <= m.used + HeadLen
      <4>1. \A a, l, u, h \in Nat : a + l <= u => a + l <= u + n + h /\ a + l + h <= u + h
        OBVIOUS
      <4> QED
        BY <3>2, <4>1, Zenon
    <3>4. s.block = m.block /\ s.used = m.used + n + HeadLen /\ p.at = m.used + HeadLen
      BY <1>2, <1>3
    <3> QED
      BY <3>1, <3>3, <3>4, Zenon
  <2>4. \A i \in 1..Len(s.packets) :
            i \in 1..Len(m.packets) \/ (i = Len(m.packets) + 1 /\ s.packets[i] = p)
    BY <1>1, <1>5
  <2>5. \A i, j \in 1..Len(s.packets) :
            i < j /\ s.packets[i].block = s.packets[j].block
                => s.packets[i].at + s.packets[i].len + HeadLen <= s.packets[j].at
    <3> SUFFICES ASSUME NEW i \in 1..Len(s.packets), NEW j \in 1..Len(s.packets),
                        i < j, s.packets[i].block = s.packets[j].block
                 PROVE  s.packets[i].at + s.packets[i].len + HeadLen <= s.packets[j].at
      OBVIOUS
    <3>1. i \in 1..Len(m.packets)
      BY <1>1, <1>5
    <3>2. CASE j \in 1..Len(m.packets)
      BY <1>5, <3>1, <3>2 DEF Fits, MemoryInv
    <3>3. CASE s.packets[j] = p
      BY <1>2, <1>3, <1>5, <2>3, <3>1, <3>3
    <3> QED
      BY <2>4, <3>2, <3>3
  <2> QED
    BY <1>5, <2>1, <2>2, <2>3, <2>4, <2>5 DEF Fits
<1> QED
  BY <1>4, <1>6, <1>7 DEF MemoryInv, s

\* Forgetting the oldest packets moves nothing.
LEMMA ForgottenFits ==
    ASSUME NEW m, MemoryInv(m), NEW k \in 0..Len(m.packets)
    PROVE  MemoryInv(Forgotten(m, k))
<1> DEFINE s == Forgotten(m, k)
           q == SubSeq(m.packets, k + 1, Len(m.packets))
<1>1. m \in Memory /\ m.block \in Nat /\ m.used \in Nat /\ m.packets \in Seq(Place)
  BY MemoryFields DEF MemoryInv
<1>2. s = [m EXCEPT !.packets = q]
  BY DEF Forgotten
<1>3. /\ q \in Seq(Place)
      /\ Len(q) = Len(m.packets) - k
      /\ \A i \in 1..Len(q) : q[i] = m.packets[k + i] /\ k + i \in 1..Len(m.packets)
  BY <1>1
<1> HIDE DEF q
<1>4. s \in Memory
  BY <1>1, <1>2, <1>3, MemoryFields
<1>5. s.packets = q /\ s.used = m.used /\ s.block = m.block
  BY <1>1, <1>2 DEF Memory
<1> HIDE DEF s
<1>6. Ordered(s)
  <2>1. m.block = 0 => Len(m.packets) = 0
    BY DEF MemoryInv, Ordered
  <2>2. m.block = 0 => q = <<>>
    BY <1>1, <1>3, <2>1
  <2> QED
    BY <1>3, <1>5, <2>2 DEF Ordered, MemoryInv
<1>7. Fits(s)
  <2>1. \A i \in 1..Len(q) :
            /\ HeadLen <= q[i].at
            /\ q[i].at + q[i].len <= BlockSize
            /\ q[i].block = m.block => q[i].at + q[i].len <= m.used
    BY <1>3 DEF Fits, MemoryInv
  <2>2. \A i, j \in 1..Len(q) :
            i < j /\ q[i].block = q[j].block => q[i].at + q[i].len + HeadLen <= q[j].at
    <3> TAKE i, j \in 1..Len(q)
    <3>1. /\ q[i] = m.packets[k + i] /\ q[j] = m.packets[k + j]
          /\ k + i \in 1..Len(m.packets) /\ k + j \in 1..Len(m.packets)
          /\ i < j => k + i < k + j
      BY <1>3
    <3> QED
      BY <3>1 DEF Fits, MemoryInv
  <2>3. m.used <= BlockSize
    BY DEF Fits, MemoryInv
  <2> QED
    BY <1>5, <2>1, <2>2, <2>3 DEF Fits
<1> QED
  BY <1>4, <1>6, <1>7 DEF MemoryInv, s

-----------------------------------------------------------------------------
LEMMA InitIInv == Init => IInv
BY SizesFit DEF Init, IInv, MemoryInv, Memory, NoMemory, Ordered, Fits, Place

\* Every step of a direction's memory is one of the three.
LEMMA ForwardIInv ==
    ASSUME IInv, NEW d \in Dir, NEW n \in Lens, Forward(d, n)
    PROVE  IInv'
<1> DEFINE m == Prepared(mem[d])
<1>1. MemoryInv(m)
  BY PreparedFits DEF IInv
<1>2. m.block # 0
  BY DEF Prepared, IInv, MemoryInv, Memory
<1>3. n \in Nat /\ n <= ReadLimit(m) /\ mem' = [mem EXCEPT ![d] = Stored(m, n)]
  BY LinkBounds DEF Forward
<1>4. MemoryInv(Stored(m, n))
  BY <1>1, <1>2, <1>3, StoredFits
<1> QED
  BY <1>3, <1>4 DEF IInv, MemoryInv

LEMMA ProxyReadsIInv ==
    ASSUME IInv, ProxyReads
    PROVE  IInv'
<1> DEFINE a == Head(down)
<1>1. CASE UNCHANGED mem
  BY <1>1 DEF IInv
<1>2. CASE /\ a.type \in Dir
           /\ \E k \in 0..Len(mem[a.type].packets) :
                  mem' = [mem EXCEPT ![a.type] = Forgotten(mem[a.type], k)]
  <2>1. PICK k \in 0..Len(mem[a.type].packets) :
            mem' = [mem EXCEPT ![a.type] = Forgotten(mem[a.type], k)]
    BY <1>2
  <2>2. MemoryInv(Forgotten(mem[a.type], k))
    BY <1>2, ForgottenFits DEF IInv
  <2> QED
    BY <1>2, <2>1, <2>2 DEF IInv, MemoryInv
<1> QED
  BY <1>1, <1>2 DEF ProxyReads

LEMMA NextIInv == IInv /\ [Next]_vars => IInv'
<1> SUFFICES ASSUME IInv, [Next]_vars PROVE IInv'
  OBVIOUS
<1>1. CASE \E d \in Dir, n \in Lens : Forward(d, n)
  BY <1>1, ForwardIInv
<1>2. CASE ProxyReads
  BY <1>2, ProxyReadsIInv
<1>3. CASE UNCHANGED mem
  BY <1>3 DEF IInv
<1>4. CASE Aside
  BY <1>3, <1>4 DEF Aside, proxyVars
<1>5. CASE Notify \/ SocketTakes \/ (\E w \in Writer : WriteGoesOn(w)) \/ ProxyCloses
  BY <1>3, <1>5 DEF Notify, SocketTakes, WriteGoesOn, ProxyCloses
<1>6. CASE Terminated \/ UNCHANGED vars
  BY <1>3, <1>6 DEF Terminated, vars, proxyVars
<1> QED
  BY <1>1, <1>2, <1>4, <1>5, <1>6 DEF Next

\* In every behaviour the packets that wait for an answer of the process, or
\* to be flushed, stay inside their blocks and apart (data_block.hpp 25-35,
\* session.hpp 370-398).
THEOREM PacketsAlwaysFit == Spec => []PacketsFit
<1>1. IInv => PacketsFit
  BY DEF IInv, MemoryInv, PacketsFit
<1> QED
  BY <1>1, InitIInv, NextIInv, PTL DEF Spec
=============================================================================
