------------------------------ MODULE DataBlock ------------------------------
(***************************************************************************)
(* The memory behind the packets that one direction of a session stores    *)
(* (src/cpp_proxy/data_block.hpp): a block is filled from its start, every *)
(* packet behind the room for its own head, and is replaced by a new block *)
(* when too little of it is left.  Packets keep the blocks they lie in.    *)
(***************************************************************************)
EXTENDS Integers, Sequences

CONSTANTS
    BlockSize,  \* default_block_size
    Reserve,    \* a block with less than this is not read into (69)
    HeadLen     \* the room for a head in front of every packet (5)

ASSUME SizesFit ==
    /\ HeadLen \in Nat
    /\ Reserve \in Nat
    /\ BlockSize \in Nat
    /\ HeadLen < Reserve
    /\ Reserve <= BlockSize

\* The blocks of a direction are numbered; 0 is no block yet.  A packet lies
\* in a block, at an offset that its head precedes.
Place == [block : Nat, at : Nat, len : Nat]

Memory == [block : Nat, used : Nat, packets : Seq(Place)]

NoMemory == [block |-> 0, used |-> 0, packets |-> <<>>]

Available(m) == BlockSize - m.used

\* Before a read: a new block if there is none or little is left of it.
Prepared(m) ==
    IF m.block = 0 \/ Available(m) < Reserve
    THEN [m EXCEPT !.block = @ + 1, !.used = 0]
    ELSE m

\* The most that a read may bring.
ReadLimit(m) == Available(m) - HeadLen

\* Mutant: the head of a packet is not counted as used.
StoredWithoutHead(m, n) ==
    [m EXCEPT !.used = @ + n,
              !.packets = Append(@, [block |-> m.block, at |-> m.used + HeadLen,
                                     len |-> n])]

\* A read has brought n bytes.
Stored(m, n) ==
    [m EXCEPT !.used = @ + n + HeadLen,
              !.packets = Append(@, [block |-> m.block, at |-> m.used + HeadLen,
                                     len |-> n])]

\* The first k packets are forgotten.
Forgotten(m, k) == [m EXCEPT !.packets = SubSeq(@, k + 1, Len(@))]

-----------------------------------------------------------------------------
\* Every stored packet lies inside its block, behind its own head, and no
\* packet or head overlaps another one: what is kept to be flushed later is
\* not overwritten by what is read next (session.hpp 370-398).
Fits(m) ==
    /\ m.used <= BlockSize
    /\ \A i \in 1..Len(m.packets) :
           LET p == m.packets[i]
           IN  /\ HeadLen <= p.at
               /\ p.at + p.len <= BlockSize
               /\ p.block = m.block => p.at + p.len <= m.used
    /\ \A i, j \in 1..Len(m.packets) :
           LET p == m.packets[i]
               q == m.packets[j]
           IN  i < j /\ p.block = q.block => p.at + p.len + HeadLen <= q.at
=============================================================================
