---------------------------- MODULE OrderedRelay ----------------------------
(***************************************************************************)
(* What a proxy promises for one direction of a connection, whatever stands *)
(* between the two ends: the bytes come out in the order they went in,     *)
(* none twice and none left out, until the connection is closed, and every *)
(* byte comes out if it is not.                                            *)
(***************************************************************************)
EXTENDS Naturals, Sequences

VARIABLES
    sent,       \* bytes the sender has sent; byte i is the i-th
    delivered,  \* bytes the receiver was given
    open        \* is the connection open

vars == <<sent, delivered, open>>

Init == sent = 0 /\ delivered = <<>> /\ open = TRUE

Send == sent' = sent + 1 /\ UNCHANGED <<delivered, open>>

\* The next bytes, as many as the relay likes.
Deliver ==
    /\ open
    /\ \E n \in 1..(sent - Len(delivered)) :
           delivered' = delivered \o [i \in 1..n |-> Len(delivered) + i]
    /\ UNCHANGED <<sent, open>>

Close == open /\ open' = FALSE /\ UNCHANGED <<sent, delivered>>

Next == Send \/ Deliver \/ Close

\* The order of the bytes, and that they all arrive.
Safe == Init /\ [][Next]_vars

Spec == Safe /\ WF_vars(Deliver)
=============================================================================
